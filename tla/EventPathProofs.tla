--------------------------- MODULE EventPathProofs ---------------------------
(***************************************************************************)
(* Broker facts reach the OMS and none is lost: proofs about EventPath for  *)
(* every plan, every queue limit and any number of sessions, days, deaths  *)
(* and failing handlers.  The order of the argument: numbers (every event  *)
(* of a session has its own), files (each is in one place), the archive    *)
(* (what is deleted is committed), the journal (fills are the broker's),   *)
(* and the view (what a healthy view has behind it).                       *)
(***************************************************************************)
EXTENDS EventPath, OrderLifecycleProofs, FiniteSetTheorems

-----------------------------------------------------------------------------
(* Types and numbers.                                                      *)

\* The broker and the memory of the bridge.
BridgeTyped ==
  /\ plan \in Plan /\ IsPlan(plan)
  /\ day \in Nat /\ cash \in Nat \ {0} /\ dealt \in 0..plan.trades
  /\ state \in {"live", "cancelled", "rejected"}
  /\ up \in BOOLEAN /\ bound \in BOOLEAN /\ (up => sess > 0)
  /\ sess \in Nat /\ num \in 0..plan.events /\ lastCash \in Nat /\ manifest \in Nat

\* An event tells of trades that were made, and of all of them up to one.
Truthful(e) ==
  /\ e.deals \subseteq 1..dealt /\ e.order[2] <= dealt
  /\ e.deals # {} => \E k \in e.deals : e.deals \subseteq 1..k

\* An event the bridge of this session can have emitted by its m-th number.
Emitted(e, m) == e \in Envelope /\ e.s = sess /\ e.n \in 1..m /\ Truthful(e)

\* A queue of this session: its numbers grow and are above those of every file.
Queue(q, m) ==
  /\ q \in Seq(Envelope) /\ Len(q) <= plan.queue
  /\ \A i \in 1..Len(q) : Emitted(q[i], m)
  /\ \A i, j \in 1..Len(q) : i < j => q[i].n < q[j].n
  /\ \A f \in persisted, i \in 1..Len(q) : f.s = sess => f.n < q[i].n

\* The files: of this session or an earlier one, with a number of their own.
Numbered ==
  /\ persisted \subseteq Envelope
  /\ \A f \in persisted : /\ f.s \in 1..sess /\ f.n \in 1..plan.events /\ Truthful(f)
                          /\ f.s = sess => f.n <= num
  /\ \A e, f \in persisted : e.s = f.s /\ e.n = f.n => e = f

\* The invariant of the bridge.
Bridge == BridgeTyped /\ Numbered /\ Queue(outbox, num)

\* The bounds of the plan in force are numbers.
LEMMA PlanFacts ==
  ASSUME BridgeTyped
  PROVE  /\ plan.events \in Nat /\ plan.queue \in Nat \ {0} /\ plan.trades \in 0..Quantity
         /\ dealt \in 0..Quantity /\ plan.sessions \in Nat /\ plan.cash \in Nat
         /\ plan.days \in Nat
  BY QuantityAssumption DEF BridgeTyped, IsPlan

\* _enqueue keeps the queue's order and its limit.
LEMMA EnqueuedQueue ==
  ASSUME Bridge, NEW q, NEW m \in Nat, Queue(q, m), num <= m, NEW e, Emitted(e, m + 1), e.n = m + 1
  PROVE  Queue(Enqueued(q, e), m + 1)
<1> DEFINE r == IF Len(q) >= plan.queue THEN Tail(q) ELSE q
<1>1. Enqueued(q, e) = Append(r, e)
  BY DEF Enqueued
<1>2. r \in Seq(Envelope) /\ Len(r) + 1 <= plan.queue /\ Len(r) \in Nat
  BY PlanFacts DEF Queue, Bridge
<1>3. \E c \in {0, 1} : /\ Len(r) = Len(q) - c
                        /\ \A i \in 1..Len(r) : i + c \in 1..Len(q) /\ r[i] = q[i + c]
  <2>1. CASE Len(q) >= plan.queue
    <3>1. q # <<>> /\ q \in Seq(Envelope)
      BY <2>1, PlanFacts DEF Queue, Bridge
    <3>2. Len(Tail(q)) = Len(q) - 1 /\ Len(q) \in Nat
      BY <3>1
    <3>3. \A i \in 1..Len(Tail(q)) : Tail(q)[i] = q[i + 1]
      BY <3>1, <3>2
    <3>4. r = Tail(q)
      BY <2>1
    <3> HIDE DEF r
    <3>5. \A i \in 1..Len(r) : i + 1 \in 1..Len(q) /\ r[i] = q[i + 1]
      BY <3>2, <3>3, <3>4
    <3> QED
      BY <3>2, <3>4, <3>5
  <2>2. CASE ~(Len(q) >= plan.queue)
    BY <2>2 DEF Queue
  <2> QED
    BY <2>1, <2>2
<1> HIDE DEF r
<1> PICK c \in {0, 1} : /\ Len(r) = Len(q) - c
                        /\ \A i \in 1..Len(r) : i + c \in 1..Len(q) /\ r[i] = q[i + c]
  BY <1>3
<1> DEFINE a == Append(r, e)
<1>4. /\ a \in Seq(Envelope) /\ Len(a) = Len(r) + 1 /\ a[Len(a)] = e
      /\ \A i \in 1..Len(r) : a[i] = r[i]
  BY <1>2 DEF Emitted
<1> HIDE DEF a
<1>5. \A i \in 1..Len(r) : Emitted(r[i], m) /\ \A f \in persisted : f.s = sess => f.n < r[i].n
  BY DEF Queue
<1>6. \A i, j \in 1..Len(r) : i < j => r[i].n < r[j].n
  <2> TAKE i, j \in 1..Len(r)
  <2> HAVE i < j
  <2>1. r[i] = q[i + c] /\ r[j] = q[j + c] /\ i + c \in 1..Len(q) /\ j + c \in 1..Len(q)
    OBVIOUS
  <2>2. i + c < j + c
    OBVIOUS
  <2> QED
    BY <2>1, <2>2 DEF Queue
<1>7. \A i \in 1..Len(a) : i \in 1..Len(r) \/ i = Len(a)
  BY <1>2, <1>4
<1>8. \A i \in 1..Len(a) : Emitted(a[i], m + 1)
  <2>1. \A x : Emitted(x, m) => Emitted(x, m + 1) /\ x.n \in Nat /\ x.n < m + 1
    BY DEF Emitted
  <2> QED
    BY <1>4, <1>5, <1>7, <2>1
<1>9. \A i, j \in 1..Len(a) : i < j => a[i].n < a[j].n
  <2> TAKE i, j \in 1..Len(a)
  <2> HAVE i < j
  <2>1. i \in 1..Len(r)
    BY <1>2, <1>4
  <2>2. CASE j \in 1..Len(r)
    BY <1>4, <1>6, <2>1, <2>2
  <2>3. CASE j = Len(a)
    <3>1. a[i] = r[i] /\ r[i].n \in 1..m
      BY <1>4, <1>5, <2>1 DEF Emitted
    <3> QED
      BY <1>4, <2>3, <3>1
  <2> QED
    BY <1>7, <2>2, <2>3
<1>10. \A f \in persisted, i \in 1..Len(a) : f.s = sess => f.n < a[i].n
  <2> TAKE f \in persisted, i \in 1..Len(a)
  <2> HAVE f.s = sess
  <2>1. f.n \in Int /\ f.n <= m
    BY DEF Bridge, Numbered, BridgeTyped
  <2>2. CASE i \in 1..Len(r)
    BY <1>4, <1>5, <2>2
  <2>3. CASE i = Len(a)
    BY <1>4, <2>1, <2>3
  <2> QED
    BY <1>7, <2>2, <2>3
<1> QED
  BY <1>1, <1>2, <1>4, <1>8, <1>9, <1>10 DEF Queue, a

\* What can be put in a queue, seen before and after the broker or the numbers move on.
LEMMA FlushedQueue ==
  ASSUME Bridge, NEW q, NEW m \in num..plan.events, Queue(q, m), NEW k \in 0..Len(q), Flushed(q, k),
         UNCHANGED <<plan, sess, dealt>>, num' = m, up
  PROVE  /\ Queue(outbox, num)' /\ Numbered'
         /\ \A f \in persisted' : f \in persisted \/ \E i \in 1..k : f = q[i]
<1>1. /\ outbox' = SubSeq(q, k + 1, Len(q)) /\ persisted' = persisted \cup {q[i] : i \in 1..k}
  BY DEF Flushed
<1>2. q \in Seq(Envelope) /\ Len(q) \in Nat /\ k \in Nat
  BY DEF Queue
<1>3. /\ outbox' \in Seq(Envelope) /\ Len(outbox') = Len(q) - k
      /\ \A i \in 1..Len(outbox') : i + k \in (k + 1)..Len(q) /\ outbox'[i] = q[i + k]
  <2>1. \A i \in (k + 1)..Len(q) : q[i] \in Envelope
    BY <1>2
  <2> QED
    BY <1>1, <1>2, <2>1
<1>4. \A f \in persisted' : f \in persisted \/ \E i \in 1..k : f = q[i]
  BY <1>1
<1>5. \A i \in 1..Len(q) : /\ Emitted(q[i], m) /\ q[i].n \in 1..m
                           /\ \A f \in persisted : f.s = sess => f.n < q[i].n
                           /\ \A j \in 1..Len(q) : i < j => q[i].n < q[j].n
  BY DEF Queue, Emitted
<1>6. \A f \in persisted' : f.s = sess => f.n \in Int /\ \A j \in (k + 1)..Len(q) : f.n < q[j].n
  <2> SUFFICES ASSUME NEW f \in persisted', f.s = sess, NEW j \in (k + 1)..Len(q)
               PROVE  f.n < q[j].n
    BY <1>2, <1>4, <1>5 DEF Bridge, Numbered
  <2>1. j \in 1..Len(q)
    BY <1>2
  <2>2. CASE f \in persisted
    BY <1>5, <2>1, <2>2
  <2>3. ASSUME NEW i \in 1..k, f = q[i] PROVE f.n < q[j].n
    BY <1>2, <1>5, <2>1, <2>3
  <2> QED
    BY <1>4, <2>2, <2>3
<1>7. Queue(outbox, num)'
  <2>1. Len(outbox') <= plan'.queue
    BY <1>2, <1>3, PlanFacts DEF Queue, Bridge
  <2>2. ASSUME NEW i \in 1..Len(outbox') PROVE Emitted(outbox[i], num)'
    <3>1. Emitted(q[i + k], m) /\ outbox'[i] = q[i + k]
      BY <1>2, <1>3, <1>5, <2>2
    <3> QED
      BY <3>1 DEF Emitted, Truthful
  <2>3. ASSUME NEW i \in 1..Len(outbox'), NEW j \in 1..Len(outbox'), i < j
        PROVE  outbox'[i].n < outbox'[j].n
    <3>1. i + k \in 1..Len(q) /\ j + k \in 1..Len(q) /\ i + k < j + k
      BY <1>2, <1>3, <2>3
    <3> QED
      BY <1>3, <1>5, <3>1
  <2>4. ASSUME NEW f \in persisted', NEW i \in 1..Len(outbox'), f.s = sess
        PROVE  f.n < outbox'[i].n
    BY <1>3, <1>6, <2>4
  <2> QED
    BY <1>3, <2>1, <2>2, <2>3, <2>4 DEF Queue
<1>8. Numbered'
  <2>1. \A i \in 1..k : i \in 1..Len(q)
    BY <1>2
  <2>2. \A f \in persisted' : f \in persisted \/ (Emitted(f, m) /\ \E i \in 1..Len(q) : f = q[i])
    BY <1>4, <1>5, <2>1
  <2>3. \A f \in persisted' :
          /\ f \in Envelope /\ f.s \in 1..sess /\ f.n \in 1..plan.events /\ Truthful(f)
          /\ f.s = sess => f.n <= m
    <3>1. sess \in Nat /\ sess > 0 /\ plan.events \in Nat /\ m <= plan.events
      BY PlanFacts DEF Bridge, BridgeTyped
    <3>2. ASSUME NEW f \in persisted PROVE f.s = sess => f.n <= m
      BY <3>2, <3>1 DEF Bridge, Numbered, BridgeTyped
    <3>3. ASSUME NEW f, Emitted(f, m)
          PROVE  /\ f \in Envelope /\ f.s \in 1..sess /\ f.n \in 1..plan.events /\ Truthful(f)
                 /\ f.n <= m
      BY <3>1, <3>3 DEF Emitted
    <3> QED
      BY <2>2, <3>1, <3>2, <3>3 DEF Bridge, Numbered
  <2>4. ASSUME NEW e \in persisted', NEW f \in persisted', e.s = f.s, e.n = f.n PROVE e = f
    <3>1. CASE e \in persisted /\ f \in persisted
      BY <2>4, <3>1 DEF Bridge, Numbered
    <3>2. ASSUME NEW i \in 1..Len(q), NEW g \in persisted, g.s = q[i].s, g.n = q[i].n PROVE FALSE
      BY <1>5, <3>2 DEF Emitted
    <3>3. ASSUME NEW i \in 1..Len(q), NEW j \in 1..Len(q), q[i].n = q[j].n PROVE q[i] = q[j]
      BY <1>2, <1>5, <3>3
    <3> QED
      BY <2>2, <2>4, <3>1, <3>2, <3>3
  <2>5. ASSUME NEW f \in persisted' PROVE Truthful(f)'
    <3>1. Truthful(f)
      BY <2>3, <2>5
    <3> QED
      BY <3>1 DEF Truthful
  <2> QED
    BY <2>3, <2>4, <2>5 DEF Numbered
<1> QED
  BY <1>4, <1>7, <1>8

\* What an envelope e with number n, type t and rows from all queries but those in lacks has.
Filled(e, n, t, lacks) ==
  /\ Emitted(e, n) /\ e.n = n /\ e.t = t
  /\ e.cash = IF t \in {"account", "snapshot"} /\ "account" \notin lacks THEN cash ELSE 0
  /\ e.deals = {} \/ e.deals = 1..dealt

\* The envelope of a new event.
LEMMA EventEmitted ==
  ASSUME Bridge, up, NEW n \in Nat \ {0}, NEW t \in EventType,
         NEW errors \in SUBSET Query, NEW none
  PROVE  Filled(Event(n, t, errors, none), n, t, errors \cup none)
<1> DEFINE e == Event(n, t, errors, none)
           c == IF t \in {"account", "snapshot"} /\ "account" \notin errors \cup none THEN cash ELSE 0
           ds == IF t = "snapshot" /\ "deals" \notin errors \cup none THEN 1..dealt ELSE {}
           o == IF t \in {"order", "snapshot"} /\ "orders" \notin errors \cup none
                THEN <<state, dealt>> ELSE <<"none", 0>>
<1>1. e = [s |-> sess, n |-> n, d |-> day, t |-> t, errors |-> errors, cash |-> c, deals |-> ds,
           order |-> o]
  BY DEF Event, AccountRow, DealRows, OrderRow
<1>2. c \in Nat /\ sess \in Nat /\ day \in Nat
  BY DEF Bridge, BridgeTyped
<1>3. /\ ds \in SUBSET (1..Quantity) /\ ds \subseteq 1..dealt
      /\ ds # {} => \E k \in ds : ds \subseteq 1..k
      /\ ds = {} \/ ds = 1..dealt
  BY PlanFacts, QuantityAssumption DEF Bridge
<1>4. o \in {"none", "live", "cancelled", "rejected"} \X (0..Quantity) /\ o[2] <= dealt
  BY PlanFacts, QuantityAssumption DEF Bridge, BridgeTyped
<1> HIDE DEF c, ds, o
<1>5. e \in Envelope
  BY <1>1, <1>2, <1>3, <1>4 DEF Envelope, EventType
<1>6. /\ e.s = sess /\ e.n = n /\ e.t = t /\ e.errors = errors /\ e.cash = c /\ e.deals = ds
      /\ e.order = o
  BY <1>1
<1> HIDE DEF e
<1>7. Emitted(e, n)
  BY <1>3, <1>4, <1>5, <1>6 DEF Emitted, Truthful
<1> QED
  BY <1>3, <1>6, <1>7 DEF e, c, Filled

\* A deal callback carries one trade.
LEMMA DealEmitted ==
  ASSUME Bridge, up, NEW n \in Nat \ {0}, NEW k \in 1..dealt
  PROVE  LET e == [Notice(n, "deal") EXCEPT !.deals = {k}]
         IN  Emitted(e, n) /\ e.n = n /\ e.t = "deal"
<1> DEFINE v == Notice(n, "deal")
           e == [v EXCEPT !.deals = {k}]
<1>1. /\ Emitted(v, n) /\ v.n = n /\ v.t = "deal"
  <2>1. "deal" \in EventType /\ {} \in SUBSET Query
    BY DEF EventType
  <2>2. Filled(Event(n, "deal", {}, {}), n, "deal", {} \cup {})
    BY <2>1, EventEmitted
  <2> QED
    BY <2>2 DEF Filled, Notice
<1>2. {k} \in SUBSET (1..Quantity) /\ {k} \subseteq 1..dealt
  BY PlanFacts, QuantityAssumption DEF Bridge
<1> HIDE DEF v
<1>3. /\ e \in Envelope /\ e.n = n /\ e.t = "deal" /\ e.deals = {k}
      /\ e.s = sess /\ e.order = v.order
  BY <1>1, <1>2 DEF Emitted, Envelope
<1>4. Truthful(e)
  BY <1>1, <1>2, <1>3, PlanFacts DEF Emitted, Truthful, Bridge
<1> QED
  BY <1>3, <1>4 DEF Emitted, v

\* The account row an event carries, and what the bridge remembers after it.
Carries(e) == e.t = "account" \/ (e.t = "snapshot" /\ e.cash # 0)
CashAfter(e, before) == IF Carries(e) THEN e.cash ELSE before

\* A new event: a snapshot with deals has all the trades.
News(e, n) ==
  Emitted(e, n) /\ e.n = n /\ (e.t = "snapshot" /\ e.deals # {} => e.deals = 1..dealt)

\* What each handler of the bridge puts in the queue before it flushes.
Handler(n, q) ==
  \/ /\ n = 1
     /\ \E e : News(e, num + 1) /\ q = Enqueued(outbox, e) /\ lastCash' = CashAfter(e, lastCash)
  \/ /\ n = 2
     /\ \E e, f : /\ News(e, num + 1) /\ News(f, num + 2) /\ q = Enqueued(Enqueued(outbox, e), f)
                  /\ ~Carries(e) /\ lastCash' = CashAfter(f, lastCash)

\* The queue a handler leaves is a queue.
LEMMA HandlerQueue ==
  ASSUME Bridge, NEW n, NEW q, Handler(n, q)
  PROVE  n \in {1, 2} /\ Queue(q, num + n)
<1>1. num \in Nat /\ num + 1 \in Nat
  BY DEF Bridge, BridgeTyped
<1>2. ASSUME NEW e, Emitted(e, num + 1), e.n = num + 1 PROVE Queue(Enqueued(outbox, e), num + 1)
  BY <1>1, <1>2, EnqueuedQueue DEF Bridge
<1>3. ASSUME NEW e, NEW f, Emitted(e, num + 1), e.n = num + 1, Emitted(f, num + 2), f.n = num + 2
      PROVE  Queue(Enqueued(Enqueued(outbox, e), f), num + 2)
  <2>1. Queue(Enqueued(outbox, e), num + 1)
    BY <1>2, <1>3
  <2>2. (num + 1) + 1 = num + 2 /\ num <= num + 1
    BY <1>1
  <2>3. Emitted(f, (num + 1) + 1) /\ f.n = (num + 1) + 1
    BY <1>3, <2>2
  <2>4. Queue(Enqueued(Enqueued(outbox, e), f), (num + 1) + 1)
    BY <1>1, <2>1, <2>2, <2>3, EnqueuedQueue
  <2> QED
    BY <2>2, <2>4
<1> QED
  BY <1>2, <1>3 DEF Handler, News
\* The bridge's handlers, each as one emission.
LEMMA Handlers ==
  ASSUME Bridge,
         \/ Bind \/ AccountCallback \/ OrderCallback \/ RuntimeError
         \/ \E errors \in SUBSET plan.misses :
              \E none \in SUBSET (plan.misses \ errors) : ReadSnapshot(errors, none)
         \/ \E k \in 1..Quantity : DealCallback(k)
  PROVE  /\ \E n, q : Handler(n, q) /\ Emit(n, q)
         /\ bound' \in BOOLEAN /\ manifest' \in Nat /\ lastCash' \in Nat
<1>1. num + 1 \in Nat \ {0} /\ num + 2 \in Nat \ {0} /\ num \in Nat /\ cash \in Nat \ {0} /\ lastCash \in Nat
      /\ bound \in BOOLEAN /\ manifest \in Nat /\ sess \in Nat
  BY DEF Bridge, BridgeTyped
<1>2. ASSUME NEW t \in {"ready", "capabilities", "snapshot", "account", "order", "error"},
             NEW errors \in SUBSET Query, NEW none \in SUBSET Query,
             NEW n \in {num + 1, num + 2}, up
      PROVE  /\ News(Event(n, t, errors, none), n)
             /\ Filled(Event(n, t, errors, none), n, t, errors \cup none)
  <2>1. n \in Nat \ {0} /\ t \in EventType /\ up
    BY <1>1, <1>2 DEF EventType
  <2>2. Filled(Event(n, t, errors, none), n, t, errors \cup none)
    BY <1>2, <2>1, EventEmitted
  <2> QED
    BY <2>2 DEF News, Filled
<1> HIDE DEF Event
<1>3. ASSUME NEW t \in {"ready", "capabilities", "account", "order", "error"},
             NEW n \in {num + 1, num + 2}, up
      PROVE  /\ News(Notice(n, t), n)
             /\ CashAfter(Notice(n, t), lastCash) = (IF t = "account" THEN cash ELSE lastCash)
             /\ Carries(Notice(n, t)) => t = "account"
  <2>1. News(Notice(n, t), n) /\ Notice(n, t).t = t /\ (t = "account" => Notice(n, t).cash = cash)
    <3>1. {} \in SUBSET Query /\ t \in {"ready", "capabilities", "snapshot", "account", "order", "error"}
      BY <1>3
    <3>2. /\ News(Event(n, t, {}, {}), n) /\ Filled(Event(n, t, {}, {}), n, t, {} \cup {})
      BY <1>2, <1>3, <3>1
    <3> QED
      BY <3>2 DEF Notice, Filled
  <2> QED
    BY <1>3, <2>1 DEF CashAfter, Carries
<1> HIDE DEF Notice
<1>4. CASE Bind
  BY <1>1, <1>3, <1>4 DEF Bind, Emit, Handler, PublishManifest
<1>5. CASE AccountCallback
  BY <1>1, <1>3, <1>5 DEF AccountCallback, Emit, Handler, AccountRow
<1>6. CASE OrderCallback \/ RuntimeError
  BY <1>1, <1>3, <1>6 DEF OrderCallback, RuntimeError, Emit, Handler
<1>7. ASSUME NEW errors \in SUBSET plan.misses, NEW none \in SUBSET plan.misses,
             ReadSnapshot(errors, none)
      PROVE  /\ \E n, q : Handler(n, q) /\ Emit(n, q)
             /\ bound' \in BOOLEAN /\ manifest' \in Nat /\ lastCash' \in Nat
  <2>1. errors \in SUBSET Query /\ none \in SUBSET Query
    BY <1>7 DEF Bridge, BridgeTyped, IsPlan
  <2>2. /\ lastCash' = (IF "account" \in errors \cup none THEN lastCash ELSE cash)
        /\ bound' = bound /\ manifest' = manifest /\ up
    BY <1>7 DEF ReadSnapshot, AccountRow, Emit
  <2>3. ASSUME NEW n \in {num + 1, num + 2}
        PROVE  /\ News(Event(n, "snapshot", errors, none), n)
               /\ lastCash' = CashAfter(Event(n, "snapshot", errors, none), lastCash)
    <3> DEFINE e == Event(n, "snapshot", errors, none)
    <3>1. /\ News(e, n) /\ e.t = "snapshot"
          /\ e.cash = (IF "account" \notin errors \cup none THEN cash ELSE 0)
      <4>1. News(e, n) /\ Filled(e, n, "snapshot", errors \cup none)
        BY <1>2, <2>1, <2>2, <2>3
      <4> QED
        BY <4>1 DEF Filled
    <3> HIDE DEF e
    <3>2. lastCash' = CashAfter(e, lastCash)
      BY <1>1, <2>2, <3>1 DEF CashAfter, Carries
    <3> QED
      BY <3>1, <3>2 DEF e
  <2>4. CASE bound
    <3>1. Emit(2, Enqueued(Enqueued(outbox, Capabilities(num + 1)),
                           Event(num + 2, "snapshot", errors, none)))
      BY <1>7, <2>4 DEF ReadSnapshot
    <3>2. News(Capabilities(num + 1), num + 1) /\ ~Carries(Capabilities(num + 1))
      BY <1>3, <2>2 DEF Capabilities
    <3> QED
      BY <1>1, <2>2, <2>3, <3>1, <3>2 DEF Handler
  <2>5. CASE ~bound
    <3>1. Emit(1, Enqueued(outbox, Event(num + 1, "snapshot", errors, none)))
      BY <1>7, <2>5 DEF ReadSnapshot
    <3> QED
      BY <1>1, <2>2, <2>3, <3>1 DEF Handler
  <2> QED
    BY <2>4, <2>5
<1>8. ASSUME NEW k \in 1..Quantity, DealCallback(k)
      PROVE  /\ \E n, q : Handler(n, q) /\ Emit(n, q)
             /\ bound' \in BOOLEAN /\ manifest' \in Nat /\ lastCash' \in Nat
  <2> DEFINE e == [Notice(num + 1, "deal") EXCEPT !.deals = {k}]
  <2>1. /\ k \in 1..dealt /\ up /\ Emit(1, Enqueued(outbox, e)) /\ bound' = bound
        /\ manifest' = manifest /\ lastCash' = lastCash
    BY <1>8 DEF DealCallback, DealRows, Emit
  <2>2. Emitted(e, num + 1) /\ e.n = num + 1 /\ e.t = "deal"
    BY <1>1, <2>1, DealEmitted
  <2> HIDE DEF e
  <2>3. News(e, num + 1) /\ ~Carries(e)
    BY <2>2 DEF News, Carries
  <2> QED
    BY <1>1, <2>1, <2>3 DEF Handler, CashAfter
<1> QED
  BY <1>4, <1>5, <1>6, <1>7, <1>8

\* The handlers of the bridge that emit.
Emission ==
  \/ Bind \/ AccountCallback \/ OrderCallback \/ RuntimeError
  \/ \E errors \in SUBSET plan.misses :
       \E none \in SUBSET (plan.misses \ errors) : ReadSnapshot(errors, none)
  \/ \E k \in 1..Quantity : DealCallback(k)

\* The host writes neither the bridge's memory nor new files.
LEMMA HostQuiet ==
  ASSUME HostSide \/ HostDies
  PROVE  UNCHANGED <<plan, day, dealt, state, cash, up, sess, num, bound, outbox, lastCash,
                     manifest, persisted>>
<1>1. CASE HostStart \/ Replay \/ Feed \/ Move \/ CommitArchive \/ DeleteSource \/ HostDies
  BY <1>1 DEF HostStart, Replay, Feed, Move, CommitArchive, DeleteSource, HostDies, hostRest,
              archiveRest, brokerVars, bridgeMem
<1>2. ASSUME NEW e, SetAside(e) \/ Poll(e) \/ RolloverExit(e)
      PROVE  UNCHANGED <<plan, day, dealt, state, cash, up, sess, num, bound, outbox, lastCash,
                         manifest, persisted>>
  BY <1>2 DEF SetAside, Poll, RolloverExit, hostRest, brokerVars, bridgeMem
<1>3. ASSUME NEW d, WriteArchive(d) \/ RecoverDay(d)
      PROVE  UNCHANGED <<plan, day, dealt, state, cash, up, sess, num, bound, outbox, lastCash,
                         manifest, persisted>>
  BY <1>3 DEF WriteArchive, RecoverDay, archiveRest, brokerVars, bridgeMem
<1> QED
  BY <1>1, <1>2, <1>3 DEF HostSide

\* A queue stays one while nothing is numbered and the broker only adds trades.
LEMMA QueueKept ==
  ASSUME Bridge, UNCHANGED <<plan, sess, num, outbox, persisted>>, dealt' \in Nat, dealt <= dealt'
  PROVE  Queue(outbox, num)' /\ Numbered'
<1>1. \A e : Truthful(e) /\ e \in Envelope => Truthful(e)'
  <2> TAKE e
  <2> HAVE Truthful(e) /\ e \in Envelope
  <2>1. dealt \in Nat /\ e.order[2] \in Int
    BY DEF Bridge, BridgeTyped, Envelope
  <2> QED
    BY <2>1 DEF Truthful
<1>2. \A e : Emitted(e, num) => Emitted(e, num)'
  BY <1>1 DEF Emitted
<1>3. Queue(outbox, num)'
  BY <1>2 DEF Bridge, Queue
<1> QED
  BY <1>1, <1>3 DEF Bridge, Numbered

\* The numbering survives every step.
LEMMA BridgeStep ==
  ASSUME Bridge, [EventNext]_eventVars
  PROVE  Bridge'
<1>1. BridgeTyped /\ Numbered /\ Queue(outbox, num) /\ IsPlan(plan) /\ num \in Nat
  BY DEF Bridge, BridgeTyped
<1>2. CASE Emission
  <2>1. PICK n, q : Handler(n, q) /\ Emit(n, q)
    BY <1>2, Handlers DEF Emission
  <2>2. bound' \in BOOLEAN /\ manifest' \in Nat /\ lastCash' \in Nat
    BY <1>2, Handlers DEF Emission
  <2>3. n \in {1, 2} /\ Queue(q, num + n)
    BY <2>1, HandlerQueue
  <2>4. /\ up /\ num' = num + n /\ num + n <= plan.events
        /\ UNCHANGED <<plan, day, dealt, state, cash, up, sess>>
    BY <2>1 DEF Emit, brokerVars
  <2>5. num + n \in num..plan.events /\ num' \in 0..plan'.events
    BY <1>1, <2>3, <2>4, PlanFacts
  <2>6. PICK k \in 0..Len(q) : Flushed(q, k)
    BY <2>1 DEF Emit
  <2>7. Queue(outbox, num)' /\ Numbered'
    BY <2>3, <2>4, <2>5, <2>6, FlushedQueue
  <2>8. BridgeTyped'
    BY <1>1, <2>2, <2>4, <2>5 DEF BridgeTyped
  <2> QED
    BY <2>7, <2>8 DEF Bridge
<1>3. CASE Flush
  <2>1. /\ up /\ Flushed(outbox, Len(outbox)) /\ UNCHANGED <<plan, sess, dealt, num>>
        /\ UNCHANGED <<day, state, cash, up, bound, lastCash, manifest>>
    BY <1>3 DEF Flush, brokerVars
  <2>2. Len(outbox) \in 0..Len(outbox) /\ num \in num..plan.events
    BY <1>1, PlanFacts DEF Queue, BridgeTyped
  <2>3. Queue(outbox, num)' /\ Numbered'
    BY <1>1, <2>1, <2>2, FlushedQueue
  <2>4. BridgeTyped'
    BY <1>1, <2>1 DEF BridgeTyped
  <2> QED
    BY <2>3, <2>4 DEF Bridge
<1>4. CASE Load
  <2>1. /\ sess' = sess + 1 /\ num' = 0 /\ outbox' = <<>> /\ up' = TRUE /\ bound' = FALSE
        /\ lastCash' = 0 /\ UNCHANGED <<plan, day, dealt, state, cash, manifest, persisted>>
    BY <1>4 DEF Load, brokerVars
  <2>2. BridgeTyped'
    <3>1. up' \in BOOLEAN /\ bound' \in BOOLEAN
      BY <2>1, Zenon
    <3>2. sess' \in Nat /\ sess' > 0 /\ num' \in 0..plan'.events /\ lastCash' \in Nat
      BY <1>1, <2>1, PlanFacts DEF BridgeTyped
    <3>3. UNCHANGED <<plan, day, dealt, state, cash, manifest>>
      BY <2>1
    <3> QED
      BY <1>1, <3>1, <3>2, <3>3 DEF BridgeTyped
  <2>3. \A e : Truthful(e) => Truthful(e)'
    BY <2>1 DEF Truthful
  <2>4. Numbered'
    <3>1. sess \in Nat /\ \A f \in persisted : f.s \in 1..sess
      BY <1>1 DEF Numbered, BridgeTyped
    <3>2. \A f \in persisted : f.s \in 1..(sess + 1) /\ f.s # sess + 1
      BY <3>1
    <3> QED
      BY <1>1, <2>1, <2>3, <3>2 DEF Numbered
  <2>5. Queue(outbox, num)'
    BY <1>1, <2>1, PlanFacts DEF Queue
  <2> QED
    BY <2>2, <2>4, <2>5 DEF Bridge
<1>5. CASE Unload
  <2>1. /\ outbox' = <<>> /\ up' = FALSE
        /\ UNCHANGED <<plan, day, dealt, state, cash, manifest, persisted, sess, num, bound, lastCash>>
    BY <1>5 DEF Unload, brokerVars
  <2>2. BridgeTyped'
    BY <1>1, <2>1 DEF BridgeTyped
  <2>3. \A e : Truthful(e) => Truthful(e)'
    BY <2>1 DEF Truthful
  <2>4. Numbered'
    BY <1>1, <2>1, <2>3 DEF Numbered
  <2>5. Queue(outbox, num)'
    BY <1>1, <2>1, PlanFacts DEF Queue
  <2> QED
    BY <2>2, <2>4, <2>5 DEF Bridge
<1>6. CASE BrokerMoves
  <2>1. UNCHANGED <<plan, up, sess, num, bound, outbox, lastCash, manifest, persisted>>
    BY <1>6 DEF BrokerMoves, bridgeMem
  <2>2. /\ dealt' \in {dealt, dealt + 1} /\ (dealt' = dealt \/ dealt < plan.trades)
        /\ state' \in {state, "cancelled", "rejected"} /\ cash' \in {cash, cash + 1}
        /\ day' \in {day, day + 1}
    BY <1>6 DEF BrokerMoves
  <2>3. BridgeTyped'
    BY <1>1, <2>1, <2>2, PlanFacts DEF BridgeTyped
  <2>4. dealt' \in Nat /\ dealt <= dealt'
    BY <1>1, <2>2 DEF BridgeTyped
  <2> QED
    BY <2>1, <2>3, <2>4, QueueKept DEF Bridge
<1>7. ASSUME UNCHANGED <<plan, day, dealt, state, cash, up, sess, num, bound, outbox, lastCash,
                         manifest, persisted>>
      PROVE  Bridge'
  <2>1. BridgeTyped'
    BY <1>1, <1>7 DEF BridgeTyped
  <2>2. dealt' \in Nat /\ dealt <= dealt'
    BY <1>1, <1>7 DEF BridgeTyped
  <2> QED
    BY <1>7, <2>1, <2>2, QueueKept DEF Bridge
<1>8. CASE HostSide \/ HostDies
  BY <1>7, <1>8, HostQuiet
<1>9. CASE UNCHANGED eventVars
  BY <1>7, <1>9 DEF eventVars, brokerVars, bridgeMem
<1> QED
  BY <1>2, <1>3, <1>4, <1>5, <1>6, <1>8, <1>9 DEF EventNext, BridgeSide, Emission

\* Every event has a number of its own and files carry the numbers in the order in which
\* the bridge emitted them, in every state (V05:454-553).
THEOREM EventsNumbered == EventSpec => []Bridge
<1>1. EventInit => Bridge
  <2> SUFFICES ASSUME EventInit PROVE Bridge
    OBVIOUS
  <2>1. plan \in Plan /\ IsPlan(plan)
    BY EventAssumption DEF EventInit
  <2>2. plan.queue \in Nat /\ plan.trades \in Nat /\ plan.events \in Nat
    BY <2>1 DEF IsPlan
  <2>3. BridgeTyped
    <3>1. up \in BOOLEAN /\ bound \in BOOLEAN /\ ~up
      BY Zenon DEF EventInit
    <3>2. /\ day = 1 /\ dealt = 0 /\ state = "live" /\ cash = 1 /\ sess = 0 /\ num = 0 /\ lastCash = 0
          /\ manifest = 0
      BY DEF EventInit
    <3> QED
      BY <2>1, <2>2, <3>1, <3>2 DEF BridgeTyped
  <2>4. Numbered
    BY DEF EventInit, Numbered
  <2>5. Queue(outbox, num)
    <3>1. outbox = <<>> /\ persisted = {}
      BY DEF EventInit
    <3> QED
      BY <2>2, <3>1 DEF Queue
  <2> QED
    BY <2>3, <2>4, <2>5 DEF Bridge
<1> QED
  BY <1>1, BridgeStep, PTL DEF EventSpec

-----------------------------------------------------------------------------
(* Files.                                                                  *)

HostPc == {"down", "replay", "poll", "feed", "move", "commit", "delete"}

\* Every file is in one directory; what the host holds or has still to do is on disk.
Filed ==
  /\ inbox \cup processed \cup conflicts \subseteq persisted
  /\ inbox \cap processed = {} /\ inbox \cap conflicts = {}
  /\ todo \subseteq processed /\ hpc \in HostPc
  /\ hpc \in {"feed", "move"} => inHand \in inbox \cup processed
  /\ hpc \notin {"feed", "move"} => inHand = NoEvent
  /\ hpc = "move" => inHand \in inbox
  /\ hpc # "feed" => feed = {}

\* The archive: a file is deleted after the archive that has it was committed, and the
\* archive of a committed day is never written again.
Closing ==
  /\ archive \in [1..MaxDay -> SUBSET persisted] /\ committed \subseteq 1..MaxDay
  /\ hpc = "commit" => \E d \in 1..MaxDay : /\ todo # {} /\ todo \subseteq archive[d]
                                            /\ \A e \in todo : e.d = d
  /\ hpc = "delete" => todo \subseteq Archived

\* How ingress.ingest and on_event leave the host.
LEMMA TakeShape ==
  ASSUME NEW e, NEW r, Take(e, r)
  PROVE  \/ e \in processed /\ hpc' = "replay" /\ inHand' = NoEvent /\ todo' = r /\ feed' = feed
         \/ e \notin processed /\ hpc' = "move" /\ inHand' = e /\ todo' = r /\ feed' = feed
         \/ hpc' = "feed" /\ inHand' = e /\ todo' = r
         \/ hpc' = "poll" /\ inHand' = NoEvent /\ todo' = {} /\ feed' = {}
  BY DEF Take, Done, Failed, Handle

\* A bridge step adds files to the inbox, all of them new, and touches nothing else.
LEMMA BridgeFiles ==
  ASSUME Bridge, BridgeSide \/ BrokerMoves
  PROVE  \E new : /\ inbox' = inbox \cup new /\ persisted' = persisted \cup new
                  /\ new \cap persisted = {} /\ new \subseteq Envelope
                  /\ UNCHANGED <<processed, conflicts, archive, committed, hpc, pin, ingress, view,
                                 trades, todo, feed, inHand, rows, keys, settled, basis>>
<1>1. ASSUME NEW q, NEW m, NEW k \in 0..Len(q), Queue(q, m), Flushed(q, k)
      PROVE  \E new : /\ inbox' = inbox \cup new /\ persisted' = persisted \cup new
                      /\ new \cap persisted = {} /\ new \subseteq Envelope
  <2> DEFINE new == {q[i] : i \in 1..k}
  <2>1. inbox' = inbox \cup new /\ persisted' = persisted \cup new
    BY <1>1 DEF Flushed
  <2>2. ASSUME NEW i \in 1..k PROVE q[i] \notin persisted /\ q[i] \in Envelope
    <3>1. i \in 1..Len(q)
      BY <1>1 DEF Queue
    <3>2. Emitted(q[i], m) /\ \A f \in persisted : f.s = sess => f.n < q[i].n
      BY <1>1, <3>1 DEF Queue
    <3> QED
      BY <3>2 DEF Emitted
  <2>3. new \cap persisted = {} /\ new \subseteq Envelope
    BY <2>2
  <2> HIDE DEF new
  <2> QED
    BY <2>1, <2>3
<1>2. CASE Emission
  <2>1. PICK n, q : Handler(n, q) /\ Emit(n, q)
    BY <1>2, Handlers DEF Emission
  <2>2. Queue(q, num + n)
    BY <2>1, HandlerQueue
  <2>3. PICK k \in 0..Len(q) : Flushed(q, k)
    BY <2>1 DEF Emit
  <2>4. UNCHANGED <<processed, conflicts, archive, committed, hpc, pin, ingress, view, trades, todo,
                    feed, inHand, rows, keys, settled, basis>>
    BY <2>1 DEF Emit, archiveVars, hostMem, omsVars
  <2> QED
    BY <1>1, <2>2, <2>3, <2>4
<1>3. CASE Flush
  <2>1. Flushed(outbox, Len(outbox)) /\ Queue(outbox, num) /\ Len(outbox) \in 0..Len(outbox)
    BY <1>3 DEF Flush, Bridge, Queue
  <2>2. UNCHANGED <<processed, conflicts, archive, committed, hpc, pin, ingress, view, trades, todo,
                    feed, inHand, rows, keys, settled, basis>>
    BY <1>3 DEF Flush, archiveVars, hostMem, omsVars
  <2> QED
    BY <1>1, <2>1, <2>2
<1>4. CASE Load \/ Unload \/ BrokerMoves
  <2>1. UNCHANGED <<inbox, persisted, processed, conflicts, archive, committed, hpc, pin, ingress,
                    view, trades, todo, feed, inHand, rows, keys, settled, basis>>
    BY <1>4 DEF Load, Unload, BrokerMoves, spoolDirs, archiveVars, hostMem, omsVars
  <2> DEFINE new == {}
  <2>2. /\ inbox' = inbox \cup new /\ persisted' = persisted \cup new
        /\ new \cap persisted = {} /\ new \subseteq Envelope
    BY <2>1
  <2> HIDE DEF new
  <2> QED
    BY <2>1, <2>2
<1> QED
  BY <1>2, <1>3, <1>4 DEF BridgeSide, Emission

\* Files stay where they are, but for the host's moves.
LEMMA FiledStep ==
  ASSUME Bridge, Filed, [EventNext]_eventVars
  PROVE  Filed'
<1>1. CASE BridgeSide \/ BrokerMoves
  <2>1. PICK new : /\ inbox' = inbox \cup new /\ persisted' = persisted \cup new
                   /\ new \cap persisted = {} /\ new \subseteq Envelope
                   /\ UNCHANGED <<processed, conflicts, archive, committed, hpc, pin, ingress, view,
                                  trades, todo, feed, inHand, rows, keys, settled, basis>>
    BY <1>1, BridgeFiles
  <2> QED
    BY <2>1 DEF Filed
<1>2. CASE HostStart
  <2>1. ReplayTail \subseteq processed
    BY DEF ReplayTail
  <2>2. /\ hpc' = "replay" /\ todo' = ReplayTail /\ feed' = {} /\ inHand' = NoEvent
        /\ UNCHANGED <<inbox, processed, conflicts, persisted>>
    BY <1>2 DEF HostStart, spoolDirs
  <2> QED
    BY <2>1, <2>2 DEF Filed, HostPc
<1>3. ASSUME NEW e \in inbox \cup processed, NEW r \in SUBSET processed, Take(e, r), feed = {},
             UNCHANGED <<inbox, processed, conflicts, persisted>>
      PROVE  Filed'
  BY <1>3, TakeShape DEF Filed, HostPc
<1>4. CASE Replay
  <2>1. feed = {} /\ UNCHANGED <<inbox, processed, conflicts, persisted>>
    BY <1>4 DEF Replay, Filed, spoolDirs, hostRest
  <2>2. CASE todo = {}
    BY <1>4, <2>1, <2>2 DEF Replay, Filed, HostPc
  <2>3. CASE todo # {}
    <3>1. PICK e \in todo : Take(e, todo \ {e})
      BY <1>4, <2>3 DEF Replay
    <3> QED
      BY <1>3, <2>1, <3>1 DEF Filed
  <2> QED
    BY <2>2, <2>3
<1>5. CASE Feed
  <2>1. hpc = "feed" /\ UNCHANGED <<inbox, processed, conflicts, persisted>>
    BY <1>5 DEF Feed, spoolDirs, hostRest
  <2>2. \/ feed = {} /\ Done(inHand) /\ UNCHANGED <<feed, todo>>
        \/ Failed
        \/ UNCHANGED <<hpc, todo, inHand>>
    BY <1>5 DEF Feed
  <2> QED
    BY <2>1, <2>2 DEF Filed, HostPc, Done, Failed
<1>6. ASSUME NEW e \in inbox, SetAside(e) PROVE Filed'
  BY <1>6 DEF SetAside, Filed, hostRest
<1>7. ASSUME NEW e \in inbox, Poll(e) PROVE Filed'
  <2>1. feed = {} /\ Take(e, {}) /\ UNCHANGED <<inbox, processed, conflicts, persisted>>
    BY <1>7 DEF Poll, Filed, spoolDirs, hostRest
  <2> QED
    BY <1>3, <2>1
<1>8. CASE Move
  BY <1>8 DEF Move, Filed, HostPc, hostRest
<1>9. ASSUME NEW e, RolloverExit(e) PROVE Filed'
  BY <1>9 DEF RolloverExit, Down, Filed, HostPc, hostRest, spoolDirs
<1>10. CASE HostDies
  BY <1>10 DEF HostDies, Down, Filed, HostPc, spoolDirs
<1>11. ASSUME NEW d, WriteArchive(d) \/ RecoverDay(d) PROVE Filed'
  BY <1>11 DEF WriteArchive, RecoverDay, OfDay, Filed, HostPc, archiveRest
<1>12. CASE CommitArchive
  BY <1>12 DEF CommitArchive, Filed, HostPc, archiveRest
<1>13. CASE DeleteSource
  BY <1>13 DEF DeleteSource, Filed, HostPc, archiveRest
<1>14. CASE UNCHANGED eventVars
  BY <1>14 DEF eventVars, spoolDirs, hostMem, Filed
<1> QED
  BY <1>1, <1>2, <1>4, <1>5, <1>6, <1>7, <1>8, <1>9, <1>10, <1>11, <1>12, <1>13, <1>14
     DEF EventNext, HostSide

\* No file disappears before the archive that has it is committed.
LEMMA ClosingStep ==
  ASSUME Bridge, Filed, Closing, NothingLost, [EventNext]_eventVars
  PROVE  Closing' /\ NothingLost'
<1>1. CASE BridgeSide \/ BrokerMoves
  <2>1. PICK new : /\ inbox' = inbox \cup new /\ persisted' = persisted \cup new
                   /\ new \cap persisted = {} /\ new \subseteq Envelope
                   /\ UNCHANGED <<processed, conflicts, archive, committed, hpc, pin, ingress, view,
                                  trades, todo, feed, inHand, rows, keys, settled, basis>>
    BY <1>1, BridgeFiles
  <2>2. Archived' = Archived
    BY <2>1 DEF Archived
  <2>3. Closing'
    BY <2>1, <2>2 DEF Closing
  <2> QED
    BY <2>1, <2>2, <2>3 DEF NothingLost
<1>2. ASSUME UNCHANGED <<archive, committed, persisted>>, hpc' \notin {"commit", "delete"},
             inbox \cup processed \cup conflicts \subseteq inbox' \cup processed' \cup conflicts'
      PROVE  Closing' /\ NothingLost'
  <2>1. Archived' = Archived
    BY <1>2 DEF Archived
  <2> QED
    BY <1>2, <2>1 DEF Closing, NothingLost
<1>3. CASE HostStart
  BY <1>2, <1>3 DEF HostStart, spoolDirs, archiveVars
<1>4. CASE Replay
  <2>1. UNCHANGED <<archive, committed, persisted, inbox, processed, conflicts>>
    BY <1>4 DEF Replay, hostRest, archiveVars, spoolDirs
  <2>2. hpc' \notin {"commit", "delete"}
    BY <1>4, TakeShape DEF Replay
  <2> QED
    BY <1>2, <2>1, <2>2
<1>5. CASE Feed
  BY <1>2, <1>5 DEF Feed, Done, Failed, hostRest, archiveVars, spoolDirs
<1>6. ASSUME NEW e \in inbox, SetAside(e) PROVE Closing' /\ NothingLost'
  <2>1. UNCHANGED <<archive, committed, persisted>> /\ hpc' \notin {"commit", "delete"}
    BY <1>6 DEF SetAside, hostRest, archiveVars
  <2>2. inbox \cup processed \cup conflicts \subseteq inbox' \cup processed' \cup conflicts'
    BY <1>6 DEF SetAside
  <2> QED
    BY <1>2, <2>1, <2>2
<1>7. ASSUME NEW e \in inbox, Poll(e) PROVE Closing' /\ NothingLost'
  <2>1. UNCHANGED <<archive, committed, persisted, inbox, processed, conflicts>>
    BY <1>7 DEF Poll, hostRest, archiveVars, spoolDirs
  <2>2. hpc' \notin {"commit", "delete"}
    BY <1>7, TakeShape DEF Poll
  <2> QED
    BY <1>2, <2>1, <2>2
<1>8. CASE Move
  <2>1. UNCHANGED <<archive, committed, persisted>> /\ hpc' \notin {"commit", "delete"}
    BY <1>8 DEF Move, hostRest, archiveVars
  <2>2. inbox \cup processed \cup conflicts \subseteq inbox' \cup processed' \cup conflicts'
    BY <1>8 DEF Move
  <2> QED
    BY <1>2, <2>1, <2>2
<1>9. ASSUME NEW e, RolloverExit(e) PROVE Closing' /\ NothingLost'
  BY <1>2, <1>9 DEF RolloverExit, Down, hostRest, archiveVars, spoolDirs
<1>10. CASE HostDies
  BY <1>2, <1>10 DEF HostDies, Down, archiveVars, spoolDirs
<1>11. ASSUME NEW d \in 1..MaxDay, WriteArchive(d) PROVE Closing' /\ NothingLost'
  <2>1. /\ hpc' = "commit" /\ todo' = OfDay(processed, d) /\ OfDay(processed, d) # {}
        /\ d \notin committed /\ archive' = [archive EXCEPT ![d] = OfDay(processed, d)]
        /\ UNCHANGED <<inbox, conflicts, persisted, processed, committed>>
    BY <1>11 DEF WriteArchive, ArchiveReady, archiveRest
  <2>2. /\ OfDay(processed, d) \subseteq persisted /\ \A e \in OfDay(processed, d) : e.d = d
    BY DEF OfDay, Filed
  <2>3. archive' \in [1..MaxDay -> SUBSET persisted'] /\ archive'[d] = OfDay(processed, d)
    BY <2>1, <2>2 DEF Closing
  <2>4. \A c \in committed : archive'[c] = archive[c]
    BY <2>1 DEF Closing
  <2>5. Archived' = Archived
    BY <2>1, <2>4 DEF Archived
  <2>6. Closing'
    BY <2>1, <2>2, <2>3 DEF Closing
  <2> QED
    BY <2>1, <2>5, <2>6 DEF NothingLost
<1>12. ASSUME NEW d \in 1..MaxDay, RecoverDay(d) PROVE Closing' /\ NothingLost'
  <2>1. /\ hpc' = "delete" /\ d \in committed /\ todo' \subseteq archive[d]
        /\ UNCHANGED <<inbox, conflicts, persisted, processed, archive, committed>>
    BY <1>12 DEF RecoverDay, archiveRest, archiveVars
  <2>2. Archived' = Archived /\ archive[d] \subseteq Archived
    BY <2>1 DEF Archived
  <2> QED
    BY <2>1, <2>2 DEF Closing, NothingLost
<1>13. CASE CommitArchive
  <2>1. PICK d \in 1..MaxDay : todo # {} /\ todo \subseteq archive[d] /\ \A e \in todo : e.d = d
    BY <1>13 DEF CommitArchive, Closing
  <2>2. /\ hpc' = "delete" /\ committed' = committed \cup {d}
        /\ UNCHANGED <<inbox, conflicts, persisted, processed, archive, todo>>
    BY <1>13, <2>1 DEF CommitArchive, archiveRest
  <2>3. Archived \subseteq Archived' /\ archive[d] \subseteq Archived'
    BY <2>2 DEF Archived
  <2> QED
    BY <2>1, <2>2, <2>3 DEF Closing, NothingLost
<1>14. CASE DeleteSource
  <2>1. UNCHANGED <<inbox, conflicts, persisted, archive, committed>> /\ hpc = "delete"
    BY <1>14 DEF DeleteSource, archiveRest, archiveVars
  <2>2. Archived' = Archived
    BY <2>1 DEF Archived
  <2>3. CASE todo = {}
    BY <1>14, <2>1, <2>2, <2>3 DEF DeleteSource, Closing, NothingLost
  <2>4. CASE todo # {}
    <3>1. PICK e \in todo : processed' = processed \ {e} /\ todo' = todo \ {e} /\ hpc' = hpc
      BY <1>14, <2>4 DEF DeleteSource
    <3>2. e \in Archived /\ todo' \subseteq Archived
      BY <2>1, <3>1 DEF Closing
    <3> QED
      BY <2>1, <2>2, <3>1, <3>2 DEF Closing, NothingLost
  <2> QED
    BY <2>3, <2>4
<1>15. CASE UNCHANGED eventVars
  <2>1. UNCHANGED <<archive, committed, persisted, inbox, processed, conflicts, hpc, todo>>
    BY <1>15 DEF eventVars, spoolDirs, hostMem, archiveVars
  <2>2. Archived' = Archived
    BY <2>1 DEF Archived
  <2> QED
    BY <2>1, <2>2 DEF Closing, NothingLost
<1> QED
  BY <1>1, <1>3, <1>4, <1>5, <1>6, <1>7, <1>8, <1>9, <1>10, <1>11, <1>12, <1>13, <1>14, <1>15
     DEF EventNext, HostSide

\* No published event is ever lost, whatever dies in the middle of polling, archiving or
\* deleting, for any number of sessions, days and deaths (archive.py:228-254,
\* spool.py:265-311).
THEOREM PublishedEventsKept == EventSpec => [](Filed /\ Closing /\ NothingLost)
<1>1. EventInit => Filed /\ Closing /\ NothingLost
  BY DEF EventInit, Filed, Closing, NothingLost, HostPc
<1> QED
  BY <1>1, EventsNumbered, FiledStep, ClosingStep, PTL DEF EventSpec

\* No published event is ever lost: whatever dies while files are polled, archived or
\* deleted, each is in the spool or in a committed archive (archive.py:228-254).
THEOREM NoEventLost == EventSpec => []NothingLost
  BY PublishedEventsKept, PTL

-----------------------------------------------------------------------------
(* The journal.                                                            *)

\* The memory of the host.
HostTyped ==
  /\ ingress \in [s : Nat, last : 0..plan.events, resync : BOOLEAN]
  /\ view \in [s : Nat, cash : Nat, deals : SUBSET (1..dealt), healthy : BOOLEAN]
  /\ trades \subseteq 1..dealt

\* Evidence the mapper can build: about the order, for no more than the broker traded.
Mappable(f) ==
  /\ f.order = TheOrder /\ f.status \in BrokerStatus /\ f.bid \in BrokerId
  /\ f.filled \in 0..dealt

\* The fill the first k deal rows of the event in hand amount to.
UpTo(k) == Cardinality({j \in inHand.deals : j <= k})

\* The durable fill is the broker's; it covers every accepted key, every row of the event
\* in hand that was ingested, and every snapshot that went through.
Journal ==
  /\ rows \in [Order -> Row] /\ rows[TheOrder].filled <= dealt
  /\ \A k \in keys : /\ k.order = TheOrder /\ k.filled \in Nat
                     /\ k.accepted = 1 => k.filled <= rows[TheOrder].filled
  /\ \A x \in feed : x.row \in Nat /\ Mappable(x.fact)
  /\ hpc = "feed" => \A k \in inHand.deals : \/ UpTo(k) <= rows[TheOrder].filled
                                             \/ \E x \in feed : x.row = k /\ UpTo(k) <= x.fact.filled
  /\ settled <= rows[TheOrder].filled /\ settled \in Nat

\* There is one order, and an identity for it.
LEMMA OneOrder == TheOrder \in Order /\ Order = {TheOrder} /\ TheId \in BrokerId
<1>1. PICK o \in Order : Order = {o}
  BY EventAssumption
<1>2. TheOrder \in Order
  BY <1>1 DEF TheOrder
<1>3. TheId \in BrokerId
  BY EventAssumption DEF TheId
<1> QED
  BY <1>1, <1>2, <1>3

\* One transaction of EvidenceJournal.ingest: a fill never shrinks and never exceeds the
\* broker's, and evidence that raises nothing is covered (evidence.py, repository.py:432-618).
LEMMA IngestFacts ==
  ASSUME BridgeTyped, Journal, NEW f, Mappable(f)
  PROVE  LET r == IngestRows(rows, keys, f)
             ks == IngestKeys(rows, keys, f)
         IN  /\ r \in [Order -> Row]
             /\ rows[TheOrder].filled <= r[TheOrder].filled /\ r[TheOrder].filled <= dealt
             /\ ~Raises(IngestResult(rows, keys, f)) => f.filled <= r[TheOrder].filled
             /\ \A k \in ks : /\ k.order = TheOrder /\ k.filled \in Nat
                              /\ k.accepted = 1 => k.filled <= r[TheOrder].filled
<1> DEFINE r == IngestRows(rows, keys, f)
           ks == IngestKeys(rows, keys, f)
           res == IngestResult(rows, keys, f)
           row == rows[TheOrder]
<1>1. /\ TheOrder \in Order /\ Order = {TheOrder} /\ row \in Row /\ row.filled \in 0..Quantity
      /\ dealt \in 0..Quantity /\ f.filled \in 0..Quantity /\ row.filled <= dealt /\ f.filled <= dealt
      /\ f.bid \in BrokerId \cup {NoId} /\ f.status \in BrokerStatus /\ f.order = TheOrder
  BY OneOrder, PlanFacts, QuantityAssumption DEF Journal, Mappable, Row
<1>2. /\ ReviewRow(row, row.filled) \in Row /\ ReviewRow(row, row.filled).filled = row.filled
      /\ ReviewRow(row, f.filled) \in Row
      /\ ReviewRow(row, f.filled).filled = Larger(row.filled, f.filled)
  <2>1. Larger(row.filled, row.filled) = row.filled
    BY DEF Larger
  <2> QED
    BY <1>1, <2>1, ReviewRowFacts
<1>3. MergedRow(row, f) \in Row /\ MergedRow(row, f).filled = Larger(row.filled, f.filled)
  BY <1>1, MergedRowFacts
<1>4. /\ row.filled <= Larger(row.filled, f.filled) /\ f.filled <= Larger(row.filled, f.filled)
      /\ Larger(row.filled, f.filled) <= dealt /\ Larger(row.filled, f.filled) \in Nat
  BY <1>1 DEF Larger
<1>5. /\ r \in [Order -> Row]
      /\ r[TheOrder].filled = row.filled \/ r[TheOrder].filled = Larger(row.filled, f.filled)
      /\ res = "applied" => r[TheOrder].filled = Larger(row.filled, f.filled)
  <2>1. CASE res = "identity_conflict"
    <3>1. r = [o \in Order |-> IF o = f.order \/ \E k \in keys : k.eid = f.eid /\ k.order = o
                               THEN ReviewRow(rows[o], rows[o].filled) ELSE rows[o]]
      BY <2>1 DEF IngestRows
    <3> QED
      BY <1>1, <1>2, <2>1, <3>1
  <2>2. CASE res = "applied"
    <3>1. r = [rows EXCEPT ![TheOrder] = MergedRow(row, f)]
      BY <1>1, <2>2 DEF IngestRows
    <3> QED
      BY <1>1, <1>3, <3>1 DEF Journal
  <2>3. CASE res = "conflict"
    <3>1. \/ r = [rows EXCEPT ![TheOrder] = ReviewRow(row, f.filled)]
          \/ r = [rows EXCEPT ![TheOrder] = ReviewRow(row, row.filled)]
      BY <1>1, <2>3 DEF IngestRows
    <3> QED
      BY <1>1, <1>2, <2>3, <3>1 DEF Journal
  <2>4. CASE res \notin {"identity_conflict", "applied", "conflict"}
    <3>1. r = rows
      BY <2>4 DEF IngestRows
    <3> QED
      BY <2>4, <3>1 DEF Journal
  <2> QED
    BY <2>1, <2>2, <2>3, <2>4
<1>6. \A k \in keys : Fact(k) = Fact(f) => k.filled = f.filled
  BY DEF Fact
<1>7. res \in {"duplicate", "semantic_duplicate"} => f.filled <= row.filled
  <2>1. res = "duplicate" => \E k \in keys : k.accepted = 1 /\ Fact(k) = Fact(f)
    BY DEF IngestResult
  <2>2. res = "semantic_duplicate" => \E k \in keys : k.accepted = 1 /\ Fact(k) = Fact(f)
    BY DEF IngestResult, SemanticDuplicate
  <2> QED
    BY <1>6, <2>1, <2>2 DEF Journal
<1>8. ~Raises(res) => res \in {"duplicate", "semantic_duplicate", "applied"}
  BY DEF Raises, IngestResult
<1>9. \/ ks = keys
      \/ ks = keys \cup {WithAccepted(f, 0)}
      \/ ks = keys \cup {WithAccepted(f, 1)} /\ res \in {"applied", "semantic_duplicate"}
  BY DEF IngestKeys
<1>10. /\ WithAccepted(f, 0).order = TheOrder /\ WithAccepted(f, 0).filled = f.filled
       /\ WithAccepted(f, 1).order = TheOrder /\ WithAccepted(f, 1).filled = f.filled
       /\ WithAccepted(f, 0).accepted = 0
  BY <1>1 DEF WithAccepted
<1>11. \A k \in keys : /\ k.order = TheOrder /\ k.filled \in Nat
                       /\ k.accepted = 1 => k.filled <= row.filled
  BY DEF Journal
<1> HIDE DEF r, ks, row, res
<1>12. row.filled <= r[TheOrder].filled /\ r[TheOrder].filled <= dealt /\ r[TheOrder].filled \in Nat
  BY <1>1, <1>4, <1>5
<1>13. ~Raises(res) => f.filled <= r[TheOrder].filled
  BY <1>1, <1>4, <1>5, <1>7, <1>8, <1>12
<1>14. \A k \in keys : k.accepted = 1 => k.filled <= r[TheOrder].filled
  BY <1>1, <1>11, <1>12
<1>15. res \in {"applied", "semantic_duplicate"} => f.filled <= r[TheOrder].filled
  BY <1>1, <1>4, <1>5, <1>7, <1>12
<1>16. f.filled \in Nat
  BY <1>1
<1>17. \A k \in ks : /\ k.order = TheOrder /\ k.filled \in Nat
                     /\ k.accepted = 1 => k.filled <= r[TheOrder].filled
  BY <1>9, <1>10, <1>11, <1>14, <1>15, <1>16
<1> QED
  BY <1>5, <1>12, <1>13, <1>17 DEF r, ks, res, row

\* The mapper builds evidence for no more than was traded, and the evidence of a deal row
\* covers that row and the rows before it (guojin_evidence.py:114-347).
LEMMA MappedFacts ==
  ASSUME Bridge, HostTyped, NEW e \in persisted
  PROVE  /\ \A x \in Mapped(e) : x.row \in Nat /\ Mappable(x.fact)
         /\ \A k \in e.deals : \E x \in Mapped(e) :
              x.row = k /\ Cardinality({j \in e.deals : j <= k}) <= x.fact.filled
<1> DEFINE seen(k) == trades \cup {j \in e.deals : j <= k}
<1>1. /\ e \in Envelope /\ Truthful(e) /\ trades \subseteq 1..dealt /\ e.deals \subseteq 1..dealt
      /\ dealt \in 0..Quantity /\ TheId \in BrokerId /\ e.order[2] \in Nat /\ e.order[2] <= dealt
  BY OneOrder, PlanFacts DEF Bridge, Numbered, HostTyped, Truthful, Envelope
<1>2. ASSUME NEW S \in SUBSET (1..dealt)
      PROVE  IsFiniteSet(S) /\ Cardinality(S) \in 0..dealt
  <2>1. IsFiniteSet(1..dealt) /\ Cardinality(1..dealt) = dealt
    BY <1>1, FS_Interval, QuantityAssumption
  <2> QED
    BY <1>1, <2>1, FS_Subset, FS_CardinalityType
<1>3. ASSUME NEW eid, NEW f \in MappedOrder(eid, e.order) PROVE Mappable(f)
  <2>1. /\ f.order = TheOrder /\ f.bid = TheId
        /\ \/ f.status \in {"ACKNOWLEDGED", "CANCELLED", "REJECTED"} /\ f.filled = 0
           \/ f.status = "FILLED" /\ f.filled = Quantity /\ e.order[2] = Quantity
    BY <1>3 DEF MappedOrder, Evidence
  <2> QED
    BY <1>1, <2>1, QuantityAssumption DEF Mappable, BrokerStatus, BrokerTerminal
<1>4. ASSUME NEW eid, NEW S \in SUBSET (1..dealt)
      PROVE  Mappable(MappedDeal(eid, S)) /\ MappedDeal(eid, S).filled = Cardinality(S)
  <2>1. LET m == MappedDeal(eid, S)
        IN  /\ m.order = TheOrder /\ m.bid = TheId /\ m.filled = Cardinality(S)
            /\ m.status \in {"FILLED", "PARTIALLY_FILLED"}
    BY DEF MappedDeal, Evidence
  <2> QED
    BY <1>1, <1>2, <1>4, <2>1 DEF Mappable, BrokerStatus, BrokerTerminal
<1>5. \A k \in e.deals : seen(k) \in SUBSET (1..dealt) /\ {j \in e.deals : j <= k} \in SUBSET seen(k)
  BY <1>1
<1>6. Mapped(e) =
        {[row |-> 0, fact |-> f] : f \in MappedOrder(<<e.s, e.n, "order", 0>>, e.order)}
          \cup {[row |-> k, fact |-> MappedDeal(<<e.s, e.n, "deal", k>>, seen(k))] : k \in e.deals}
  BY DEF Mapped
<1> HIDE DEF seen
<1>7. \A x \in Mapped(e) : x.row \in Nat /\ Mappable(x.fact)
  <2>1. \A k \in e.deals : k \in Nat
    BY <1>1
  <2>2. ASSUME NEW f \in MappedOrder(<<e.s, e.n, "order", 0>>, e.order), NEW x,
               x = [row |-> 0, fact |-> f]
        PROVE  x.row \in Nat /\ Mappable(x.fact)
    BY <1>3, <2>2
  <2>3. ASSUME NEW k \in e.deals, NEW x,
               x = [row |-> k, fact |-> MappedDeal(<<e.s, e.n, "deal", k>>, seen(k))]
        PROVE  x.row \in Nat /\ Mappable(x.fact)
    <3>1. Mappable(MappedDeal(<<e.s, e.n, "deal", k>>, seen(k)))
      BY <1>4, <1>5
    <3>2. x.row = k /\ x.fact = MappedDeal(<<e.s, e.n, "deal", k>>, seen(k))
      BY <2>3
    <3> QED
      BY <2>1, <3>1, <3>2
  <2> QED
    BY <1>6, <2>2, <2>3
<1>8. ASSUME NEW k \in e.deals
      PROVE  \E x \in Mapped(e) : x.row = k /\ Cardinality({j \in e.deals : j <= k}) <= x.fact.filled
  <2> DEFINE x == [row |-> k, fact |-> MappedDeal(<<e.s, e.n, "deal", k>>, seen(k))]
  <2>1. x \in Mapped(e) /\ x.row = k
    BY <1>6
  <2>2. x.fact.filled = Cardinality(seen(k))
    BY <1>4, <1>5
  <2>3. Cardinality({j \in e.deals : j <= k}) <= Cardinality(seen(k))
    BY <1>2, <1>5, FS_Subset
  <2> HIDE DEF x
  <2> QED
    BY <2>1, <2>2, <2>3
<1> QED
  BY <1>7, <1>8

\* The plan stays and the broker only adds trades.
LEMMA BrokerGrows ==
  ASSUME Bridge, [EventNext]_eventVars
  PROVE  plan' = plan /\ dealt \in Nat /\ dealt' \in Nat /\ dealt <= dealt'
<1>1. dealt \in Nat
  BY DEF Bridge, BridgeTyped
<1>2. CASE Emission
  BY <1>1, <1>2, Handlers DEF Emission, Emit, brokerVars
<1>3. CASE Flush \/ Load \/ Unload
  BY <1>1, <1>3 DEF Flush, Load, Unload, brokerVars
<1>4. CASE BrokerMoves
  BY <1>1, <1>4 DEF BrokerMoves
<1>5. CASE HostSide \/ HostDies
  BY <1>1, <1>5, HostQuiet
<1>6. CASE UNCHANGED eventVars
  BY <1>1, <1>6 DEF eventVars, brokerVars
<1> QED
  BY <1>2, <1>3, <1>4, <1>5, <1>6 DEF EventNext, BridgeSide, Emission

\* One event through ingress and the read model keeps the host's memory in shape.
LEMMA TakeTyped ==
  ASSUME Bridge, HostTyped, NEW e \in persisted, NEW r, Take(e, r), UNCHANGED <<plan, dealt>>
  PROVE  HostTyped'
<1>1. e \in Envelope /\ e.s \in Nat /\ e.n \in 1..plan.events /\ e.deals \subseteq 1..dealt /\ e.cash \in Nat
  BY DEF Bridge, Numbered, Truthful, Envelope
<1>2. plan.events \in Nat
  BY PlanFacts DEF Bridge
<1>3. Base(e) \in [s : Nat, last : 0..plan.events, resync : BOOLEAN]
  <2>1. Fresh \in [s : Nat, last : 0..plan.events, resync : BOOLEAN]
    <3>1. TRUE \in BOOLEAN /\ 0 \in 0..plan.events /\ 0 \in Nat
      BY <1>2
    <3> QED
      BY <3>1, Zenon DEF Fresh
  <2>2. [Fresh EXCEPT !.s = e.s] \in [s : Nat, last : 0..plan.events, resync : BOOLEAN]
    BY <1>1, <2>1
  <2>3. Base(e) = ingress \/ Base(e) = [Fresh EXCEPT !.s = e.s]
    BY DEF Base
  <2> QED
    BY <2>2, <2>3 DEF HostTyped
<1>4. Advanced(e) \in [s : Nat, last : 0..plan.events, resync : BOOLEAN]
  <2> DEFINE b == (Base(e).resync \/ (Base(e).last # 0 /\ e.n # Base(e).last + 1)) /\ ~CleanSnapshot(e)
  <2>1. b \in BOOLEAN /\ Advanced(e) = [s |-> e.s, last |-> e.n, resync |-> b]
    BY DEF Advanced
  <2> HIDE DEF b
  <2> QED
    BY <1>1, <1>2, <2>1
<1>5. Applied(e) \in [s : Nat, cash : Nat, deals : SUBSET (1..dealt), healthy : BOOLEAN]
  <2> DEFINE h == ~Advanced(e).resync
  <2>1. h \in BOOLEAN
    BY <1>4
  <2>2. /\ e.t = "snapshot" => Applied(e) = [s |-> e.s, cash |-> e.cash, deals |-> e.deals, healthy |-> h]
        /\ e.t # "snapshot" /\ view = NoView => Applied(e) = view
        /\ e.t # "snapshot" /\ view # NoView => Applied(e) =
             [view EXCEPT !.cash = IF e.t = "account" THEN e.cash ELSE @,
                          !.deals = @ \cup e.deals, !.healthy = h]
    BY DEF Applied
  <2> HIDE DEF h
  <2>3. CASE e.t = "snapshot"
    BY <1>1, <2>1, <2>2, <2>3
  <2>4. CASE e.t # "snapshot"
    BY <1>1, <2>1, <2>2, <2>4 DEF HostTyped
  <2> QED
    BY <2>3, <2>4
<1>6. /\ ingress' \in {Base(e), Advanced(e)} /\ view' \in {view, Applied(e)}
      /\ trades' \in {trades, trades \cup e.deals}
  <2>1. CASE Duplicate(e) /\ ingress' = Base(e) /\ UNCHANGED <<view, trades>>
    BY <2>1
  <2>2. CASE Handle(e)
    BY <2>2 DEF Handle
  <2>3. CASE RaiseEarly(e)
    BY <2>3 DEF RaiseEarly
  <2> QED
    BY <2>1, <2>2, <2>3 DEF Take
<1> QED
  BY <1>1, <1>3, <1>4, <1>5, <1>6 DEF HostTyped

\* The rows of the event in hand are what the mapper made of them.
LEMMA TakeJournal ==
  ASSUME Bridge, HostTyped, Journal, feed = {}, hpc # "feed", NEW e \in persisted, NEW r, Take(e, r),
         UNCHANGED <<plan, dealt, rows, keys, settled>>
  PROVE  Journal'
<1>1. \A x : Mappable(x) => Mappable(x)'
  BY DEF Mappable
<1>2. CASE Handle(e) /\ FeedsOms(e)
  <2>1. feed' = Mapped(e) /\ hpc' = "feed" /\ inHand' = e
    BY <1>2 DEF Handle
  <2>2. \A k \in e.deals : UpTo(k)' = Cardinality({j \in e.deals : j <= k})
    BY <2>1 DEF UpTo
  <2>3. \A x \in feed' : x.row \in Nat /\ Mappable(x.fact)'
    BY <1>1, <2>1, MappedFacts
  <2>4. ASSUME NEW k \in inHand'.deals PROVE \E x \in feed' : x.row = k /\ UpTo(k)' <= x.fact.filled
    <3>1. k \in e.deals
      BY <2>1, <2>4
    <3>2. PICK x \in Mapped(e) : x.row = k /\ Cardinality({j \in e.deals : j <= k}) <= x.fact.filled
      BY <3>1, MappedFacts
    <3> QED
      BY <2>1, <2>2, <3>1, <3>2
  <2>5. rows' \in [Order -> Row] /\ rows'[TheOrder].filled <= dealt'
    BY DEF Journal
  <2>6. \A k \in keys' : /\ k.order = TheOrder /\ k.filled \in Nat
                         /\ k.accepted = 1 => k.filled <= rows'[TheOrder].filled
    BY DEF Journal
  <2>7. settled' <= rows'[TheOrder].filled /\ settled' \in Nat
    BY DEF Journal
  <2> QED
    BY <2>3, <2>4, <2>5, <2>6, <2>7 DEF Journal
<1>3. ASSUME feed' = {} /\ hpc' # "feed" PROVE Journal'
  BY <1>3 DEF Journal
<1>4. CASE ~(Handle(e) /\ FeedsOms(e))
  <2>1. feed' = {} /\ hpc' # "feed"
    <3>1. CASE Duplicate(e) /\ Done(e) /\ UNCHANGED <<feed>>
      BY <3>1 DEF Done
    <3>2. CASE Handle(e)
      BY <1>4, <3>2 DEF Handle, Done
    <3>3. CASE Failed
      BY <3>3 DEF Failed
    <3> QED
      BY <3>1, <3>2, <3>3 DEF Take
  <2> QED
    BY <1>3, <2>1
<1> QED
  BY <1>2, <1>4

\* Ingesting the rows of an event one by one keeps the journal's promise.
LEMMA FeedJournal ==
  ASSUME Bridge, Filed, Journal, Feed
  PROVE  Journal'
<1>1. /\ hpc = "feed" /\ UNCHANGED <<plan, dealt>> /\ BridgeTyped /\ dealt \in Nat
  BY DEF Feed, hostRest, brokerVars, Bridge, BridgeTyped
<1>2. \A f : Mappable(f) => Mappable(f)'
  BY <1>1 DEF Mappable
<1>3. rows[TheOrder].filled \in Nat /\ settled \in Nat
  BY OneOrder DEF Journal, Row
<1>4. CASE feed = {}
  <2>1. /\ settled' = Larger(settled, Cardinality(inHand.deals)) /\ UNCHANGED <<rows, keys, feed>>
        /\ hpc' # "feed"
    BY <1>4 DEF Feed, Done
  <2>2. Cardinality(inHand.deals) \in Nat /\ Cardinality(inHand.deals) <= rows[TheOrder].filled
    <3>1. inHand \in persisted /\ Truthful(inHand) /\ inHand.deals \subseteq 1..dealt
      BY <1>1 DEF Filed, Bridge, Numbered, Truthful
    <3>2. IsFiniteSet(inHand.deals) /\ Cardinality(inHand.deals) \in Nat
      <4>1. IsFiniteSet(1..dealt) /\ inHand.deals \in SUBSET (1..dealt)
        BY <1>1, <3>1, FS_Interval
      <4> QED
        BY <4>1, FS_Subset, FS_CardinalityType
    <3>3. CASE inHand.deals = {}
      BY <1>3, <3>2, <3>3, FS_EmptySet
    <3>4. CASE inHand.deals # {}
      <4>1. PICK k \in inHand.deals : inHand.deals \subseteq 1..k
        BY <3>1, <3>4 DEF Truthful
      <4>2. {j \in inHand.deals : j <= k} = inHand.deals
        BY <1>1, <3>1, <4>1
      <4>3. UpTo(k) <= rows[TheOrder].filled
        BY <1>1, <1>4, <4>1 DEF Journal
      <4> QED
        BY <3>2, <4>2, <4>3 DEF UpTo
    <3> QED
      BY <3>3, <3>4
  <2>3. settled' <= rows'[TheOrder].filled /\ settled' \in Nat
    BY <1>3, <2>1, <2>2 DEF Larger, Journal
  <2> QED
    BY <1>1, <1>2, <2>1, <2>3 DEF Journal
<1>5. CASE feed # {}
  <2>1. PICK x \in feed :
          /\ rows' = IngestRows(rows, keys, x.fact) /\ keys' = IngestKeys(rows, keys, x.fact)
          /\ IF Raises(IngestResult(rows, keys, x.fact)) THEN Failed
             ELSE feed' = feed \ {x} /\ UNCHANGED <<hpc, todo, inHand>>
          /\ settled' = settled
    BY <1>5 DEF Feed
  <2>2. Mappable(x.fact) /\ x.fact.filled \in Nat
    BY <1>1 DEF Journal, Mappable
  <2>3. /\ rows' \in [Order -> Row] /\ rows[TheOrder].filled <= rows'[TheOrder].filled
        /\ rows'[TheOrder].filled <= dealt
        /\ ~Raises(IngestResult(rows, keys, x.fact)) => x.fact.filled <= rows'[TheOrder].filled
        /\ \A k \in keys' : /\ k.order = TheOrder /\ k.filled \in Nat
                            /\ k.accepted = 1 => k.filled <= rows'[TheOrder].filled
    BY <1>1, <2>1, <2>2, IngestFacts
  <2>4. rows'[TheOrder].filled \in Nat
    BY <2>3, OneOrder DEF Row
  <2>5. settled' <= rows'[TheOrder].filled /\ settled' \in Nat
    BY <1>3, <2>1, <2>3, <2>4 DEF Journal
  <2>6. CASE Raises(IngestResult(rows, keys, x.fact))
    <3>1. feed' = {} /\ hpc' = "poll"
      BY <2>1, <2>6 DEF Failed
    <3> QED
      BY <1>1, <2>3, <2>5, <3>1 DEF Journal
  <2>7. CASE ~Raises(IngestResult(rows, keys, x.fact))
    <3>1. feed' = feed \ {x} /\ UNCHANGED <<hpc, inHand>> /\ x.fact.filled <= rows'[TheOrder].filled
      BY <2>1, <2>3, <2>7
    <3>2. ASSUME NEW k \in inHand.deals
          PROVE  \/ UpTo(k) <= rows'[TheOrder].filled
                 \/ \E y \in feed' : y.row = k /\ UpTo(k) <= y.fact.filled
      <4>1. inHand \in persisted /\ inHand.deals \subseteq 1..dealt
        BY <1>1 DEF Filed, Bridge, Numbered, Truthful
      <4>2. {j \in inHand.deals : j <= k} \in SUBSET (1..dealt)
        BY <4>1
      <4>3. UpTo(k) \in Nat
        <5>1. IsFiniteSet(1..dealt)
          BY <1>1, FS_Interval
        <5>2. IsFiniteSet({j \in inHand.deals : j <= k})
          BY <4>2, <5>1, FS_Subset
        <5> QED
          BY <5>2, FS_CardinalityType DEF UpTo
      <4>4. CASE UpTo(k) <= rows[TheOrder].filled
        BY <1>3, <2>3, <2>4, <4>3, <4>4
      <4>5. ASSUME NEW y \in feed, y.row = k, UpTo(k) <= y.fact.filled
            PROVE  \/ UpTo(k) <= rows'[TheOrder].filled
                   \/ \E z \in feed' : z.row = k /\ UpTo(k) <= z.fact.filled
        <5>1. CASE y = x
          BY <2>2, <2>4, <3>1, <4>3, <4>5, <5>1
        <5>2. CASE y # x
          BY <3>1, <4>5, <5>2
        <5> QED
          BY <5>1, <5>2
      <4> QED
        BY <1>1, <3>2, <4>4, <4>5 DEF Journal
    <3>3. \A k : UpTo(k)' = UpTo(k)
      BY <3>1 DEF UpTo
    <3>4. \A y \in feed' : y.row \in Nat /\ Mappable(y.fact)'
      BY <1>2, <3>1 DEF Journal
    <3> QED
      BY <1>1, <2>3, <2>5, <3>1, <3>2, <3>3, <3>4 DEF Journal
  <2> QED
    BY <2>6, <2>7
<1> QED
  BY <1>4, <1>5

\* The journal and the host's memory survive every step.
LEMMA JournalStep ==
  ASSUME Bridge, Filed, HostTyped, Journal, [EventNext]_eventVars
  PROVE  HostTyped' /\ Journal'
<1>1. plan' = plan /\ dealt \in Nat /\ dealt' \in Nat /\ dealt <= dealt'
  BY BrokerGrows
<1>2. rows[TheOrder].filled \in Nat
  BY OneOrder DEF Journal, Row
<1>3. \A f : Mappable(f) => Mappable(f)'
  BY <1>1 DEF Mappable
<1>4. ASSUME UNCHANGED <<ingress, view, trades>> PROVE HostTyped'
  <2>1. 1..dealt \subseteq 1..dealt'
    BY <1>1
  <2> QED
    BY <1>1, <1>4, <2>1 DEF HostTyped
<1>5. ASSUME UNCHANGED <<rows, keys, settled>>,
             feed' = {} \/ feed' = feed, hpc' # "feed" \/ UNCHANGED <<hpc, inHand, feed>>
      PROVE  Journal'
  <2>1. rows' \in [Order -> Row] /\ rows'[TheOrder].filled <= dealt'
    BY <1>1, <1>2, <1>5 DEF Journal
  <2>2. \A k \in keys' : /\ k.order = TheOrder /\ k.filled \in Nat
                         /\ k.accepted = 1 => k.filled <= rows'[TheOrder].filled
    BY <1>5 DEF Journal
  <2>3. \A x \in feed' : x.row \in Nat /\ Mappable(x.fact)'
    BY <1>3, <1>5 DEF Journal
  <2>4. settled' <= rows'[TheOrder].filled /\ settled' \in Nat
    BY <1>5 DEF Journal
  <2>5. CASE hpc' # "feed"
    BY <2>1, <2>2, <2>3, <2>4, <2>5 DEF Journal
  <2>6. CASE hpc' = "feed" /\ UNCHANGED <<hpc, inHand, feed>>
    <3>1. \A k : UpTo(k)' = UpTo(k)
      BY <2>6 DEF UpTo
    <3>2. \A k \in inHand'.deals : \/ UpTo(k) <= rows'[TheOrder].filled
                                   \/ \E x \in feed' : x.row = k /\ UpTo(k) <= x.fact.filled
      BY <1>5, <2>6 DEF Journal
    <3> QED
      BY <2>1, <2>2, <2>3, <2>4, <3>1, <3>2 DEF Journal
  <2> QED
    BY <1>5, <2>5, <2>6
<1>6. CASE BridgeSide \/ BrokerMoves
  <2>1. UNCHANGED <<hpc, ingress, view, trades, feed, inHand, rows, keys, settled>>
    BY <1>6, BridgeFiles
  <2> QED
    BY <1>4, <1>5, <2>1
<1>7. CASE HostStart
  <2>1. /\ ingress' = Fresh /\ view' = NoView /\ trades' = {} /\ feed' = {}
        /\ hpc' = "replay" /\ UNCHANGED <<rows, keys, settled>>
    BY <1>7 DEF HostStart, omsVars
  <2>2. FALSE \in BOOLEAN /\ TRUE \in BOOLEAN /\ 0 \in Nat /\ {} \in SUBSET (1..dealt')
        /\ 0 \in 0..plan'.events
    BY PlanFacts, <1>1 DEF Bridge
  <2>3. NoView \in [s : Nat, cash : Nat, deals : SUBSET (1..dealt'), healthy : BOOLEAN]
    BY <2>2, Zenon DEF NoView
  <2>4. Fresh \in [s : Nat, last : 0..plan'.events, resync : BOOLEAN]
    BY <2>2, Zenon DEF Fresh
  <2>b. ingress' \in [s : Nat, last : 0..plan'.events, resync : BOOLEAN]
    BY <2>1, <2>4, Zenon
  <2>c. view' \in [s : Nat, cash : Nat, deals : SUBSET (1..dealt'), healthy : BOOLEAN]
    BY <2>1, <2>3, Zenon
  <2>d. trades' = {} /\ {} \in SUBSET (1..dealt')
    BY <2>1, <2>2, Zenon
  <2>5. HostTyped'
    BY <2>b, <2>c, <2>d, Zenon DEF HostTyped
  <2> QED
    BY <1>5, <2>1, <2>5
<1>8. ASSUME NEW e \in inbox \cup processed, NEW r, Take(e, r), hpc # "feed",
             UNCHANGED <<plan, dealt, rows, keys, settled>>
      PROVE  HostTyped' /\ Journal'
  <2>1. e \in persisted /\ feed = {}
    BY <1>8 DEF Filed
  <2> QED
    BY <1>8, <2>1, TakeTyped, TakeJournal
<1>9. CASE Replay
  <2>1. UNCHANGED <<plan, dealt, rows, keys, settled>> /\ hpc = "replay"
    BY <1>9 DEF Replay, hostRest, brokerVars, omsVars
  <2>2. CASE todo = {}
    <3>1. UNCHANGED <<ingress, view, trades, feed>> /\ hpc' = "poll"
      BY <1>9, <2>2 DEF Replay
    <3> QED
      BY <1>4, <1>5, <2>1, <3>1
  <2>3. CASE todo # {}
    <3>1. PICK e \in todo : Take(e, todo \ {e})
      BY <1>9, <2>3 DEF Replay
    <3>2. e \in inbox \cup processed
      BY <3>1 DEF Filed
    <3> QED
      BY <1>8, <2>1, <3>1, <3>2
  <2> QED
    BY <2>2, <2>3
<1>10. CASE Feed
  <2>1. UNCHANGED <<ingress, view, trades>>
    BY <1>10 DEF Feed
  <2> QED
    BY <1>4, <1>10, <2>1, FeedJournal
<1>11. ASSUME NEW e \in inbox, Poll(e) PROVE HostTyped' /\ Journal'
  <2>1. UNCHANGED <<plan, dealt, rows, keys, settled>> /\ hpc = "poll" /\ Take(e, {})
    BY <1>11 DEF Poll, hostRest, brokerVars, omsVars
  <2> QED
    BY <1>8, <2>1
<1>12. ASSUME NEW e, SetAside(e) \/ RolloverExit(e) PROVE HostTyped' /\ Journal'
  <2>1. /\ UNCHANGED <<ingress, view, trades, rows, keys, settled>>
        /\ hpc' # "feed" /\ feed' \in {{}, feed}
    BY <1>12 DEF SetAside, RolloverExit, Down, omsVars
  <2> QED
    BY <1>4, <1>5, <2>1
<1>13. CASE Move \/ HostDies
  <2>1. /\ UNCHANGED <<ingress, view, trades, rows, keys, settled>>
        /\ hpc' # "feed" /\ feed' \in {{}, feed}
    BY <1>13 DEF Move, HostDies, Down, omsVars
  <2> QED
    BY <1>4, <1>5, <2>1
<1>14. ASSUME NEW d, WriteArchive(d) \/ RecoverDay(d) PROVE HostTyped' /\ Journal'
  <2>1. UNCHANGED <<ingress, view, trades, rows, keys, settled, feed>> /\ hpc' # "feed"
    BY <1>14 DEF WriteArchive, RecoverDay, archiveRest, omsVars
  <2> QED
    BY <1>4, <1>5, <2>1
<1>15. CASE CommitArchive \/ DeleteSource
  <2>1. UNCHANGED <<ingress, view, trades, rows, keys, settled, feed>> /\ hpc' # "feed"
    BY <1>15 DEF CommitArchive, DeleteSource, archiveRest, omsVars
  <2> QED
    BY <1>4, <1>5, <2>1
<1>16. CASE UNCHANGED eventVars
  <2>1. UNCHANGED <<ingress, view, trades, rows, keys, settled, feed, hpc, inHand>>
    BY <1>16 DEF eventVars, hostMem, omsVars
  <2> QED
    BY <1>4, <1>5, <2>1
<1> QED
  BY <1>6, <1>7, <1>9, <1>10, <1>11, <1>12, <1>13, <1>14, <1>15, <1>16 DEF EventNext, HostSide

\* The host's memory and the journal keep their shape, and fills are the broker's.
THEOREM JournalHolds == EventSpec => [](HostTyped /\ Journal)
<1>1. EventInit => HostTyped /\ Journal
  <2> SUFFICES ASSUME EventInit PROVE HostTyped /\ Journal
    OBVIOUS
  <2>1. plan.events \in Nat /\ dealt = 0
    BY EventAssumption DEF EventInit, IsPlan
  <2>2. FALSE \in BOOLEAN /\ TRUE \in BOOLEAN /\ 0 \in Nat /\ {} \in SUBSET (1..dealt)
        /\ 0 \in 0..plan.events
    BY <2>1
  <2>3. NoView \in [s : Nat, cash : Nat, deals : SUBSET (1..dealt), healthy : BOOLEAN]
    BY <2>2, Zenon DEF NoView
  <2>4. Fresh \in [s : Nat, last : 0..plan.events, resync : BOOLEAN]
    BY <2>2, Zenon DEF Fresh
  <2>a. ingress = Fresh /\ view = NoView /\ trades = {}
    BY DEF EventInit
  <2>5. HostTyped
    BY <2>a, <2>2, <2>3, <2>4, Zenon DEF HostTyped
  <2>c. AbsentRow \in Row /\ AbsentRow.filled = 0
    <3>1. 0 \in 0..Quantity
      BY QuantityAssumption
    <3> QED
      BY <3>1 DEF AbsentRow, Row
  <2>d. "RECONCILING" \in Status
    BY DEF Status
  <2>6. [AbsentRow EXCEPT !.status = "RECONCILING", !.submit = 1] \in Row
        /\ [AbsentRow EXCEPT !.status = "RECONCILING", !.submit = 1].filled = 0
    BY <2>c, <2>d DEF Row
  <2>7. rows \in [Order -> Row] /\ rows[TheOrder].filled = 0
    BY <2>6, OneOrder DEF EventInit
  <2>8. dealt = 0 /\ keys = {} /\ feed = {} /\ hpc = "down" /\ settled = 0
    BY DEF EventInit
  <2>9. Journal
    BY <2>7, <2>8 DEF Journal
  <2> QED
    BY <2>5, <2>9
<1> QED
  BY <1>1, EventsNumbered, PublishedEventsKept, JournalStep, PTL DEF EventSpec

\* Queues, files, the event in hand, the order rows, the ingress and the view keep their
\* shape, for every plan (protocol.py:40, spool.py:60).
THEOREM EventPathTypes == EventSpec => []EventsTypeOK
<1>1. Bridge /\ Filed /\ HostTyped /\ Journal => EventsTypeOK
  <2> SUFFICES ASSUME Bridge, Filed, HostTyped, Journal PROVE EventsTypeOK
    OBVIOUS
  <2>1. Len(outbox) <= plan.queue
    BY DEF Bridge, Queue
  <2>2. hpc \in {"feed", "move"} <=> inHand # NoEvent
    BY EventAssumption DEF Filed, Bridge, Numbered
  <2>3. ingress.last <= plan.events
    BY PlanFacts DEF HostTyped, Bridge
  <2>4. view.deals \subseteq 1..Quantity
    <3>1. dealt \in 0..Quantity /\ view.deals \subseteq 1..dealt
      BY PlanFacts DEF HostTyped, Bridge
    <3> QED
      BY <3>1, QuantityAssumption
  <2> QED
    BY <2>1, <2>2, <2>3, <2>4 DEF EventsTypeOK, Filed, Journal
<1> QED
  BY <1>1, EventsNumbered, PublishedEventsKept, JournalHolds, PTL

\* A snapshot that went through the OMS is covered by the durable fill, and no fill is
\* recorded that the broker did not make: although fills are summed from trades held in
\* memory, callbacks are lost and handlers fail (guojin_evidence.py:296).
THEOREM FillsConfirmed == EventSpec => []SnapshotConfirmsFills
<1>1. Journal => SnapshotConfirmsFills
  BY OneOrder DEF Journal, Row, SnapshotConfirmsFills
<1> QED
  BY <1>1, JournalHolds, PTL

-----------------------------------------------------------------------------
(* The view.  What the bridge remembered after each number, last_account_  *)
(* payload_digest, is no longer in any state once the event is dropped     *)
(* from the queue: the invariant says that some such history C explains    *)
(* every event that still exists.                                          *)

\* The events of a queue.
Members(q) == {q[i] : i \in 1..Len(q)}

\* The events of this session that are still somewhere.
Known == {f \in persisted : f.s = sess} \cup Members(outbox)

\* C is what the bridge remembered of the account after each of its events.
Remembered(C) ==
  /\ C \in [0..num -> Nat] /\ C[num] = lastCash
  /\ \A f \in Known : C[f.n] = CashAfter(f, C[f.n - 1])

\* A snapshot with deals has every deal an earlier event of its session told of.
Growing ==
  \A e, f \in Known :
    e.n <= f.n /\ f.t = "snapshot" /\ f.deals # {} => e.deals \subseteq f.deals

\* The view has the account row c and the deals of the events up to number m, except for
\* what the queries of its snapshot returned nothing for.
Shown(c, m) ==
  /\ view.cash = c \/ (view.cash = 0 /\ basis.cash = 0)
  /\ \A f \in Known :
       f.n <= m /\ (basis.deals # {} \/ f.n >= basis.n) => f.deals \subseteq view.deals

\* While nothing is missing, the view is the account as of the last event that arrived.
Reflects(C) ==
  basis # NoEvent /\ ~ingress.resync /\ ingress.s = sess
    => Shown(C[ingress.last], ingress.last)

\* The ingress has seen nothing yet, or a file.
Seen == \/ ingress.last = 0 /\ ingress.resync
        \/ \E f \in persisted : f.s = ingress.s /\ f.n = ingress.last

\* The invariant of the view.
View ==
  /\ Seen /\ Growing
  /\ basis # NoEvent => view.s # 0
  /\ basis # NoEvent /\ view.healthy => ~ingress.resync
  /\ \E C : Remembered(C) /\ Reflects(C)

\* Known events carry a number of this session, and a file has its number alone.
LEMMA KnownNumbers ==
  ASSUME Bridge
  PROVE  /\ \A f \in Known : f \in Envelope /\ f.n \in 1..num /\ f.deals \subseteq 1..dealt
         /\ \A e \in persisted, f \in Known : e.s = sess /\ e.n = f.n => e = f
<1>1. ASSUME NEW f \in persisted, f.s = sess
      PROVE  f \in Envelope /\ f.n \in 1..num /\ f.deals \subseteq 1..dealt
  BY <1>1 DEF Bridge, Numbered, BridgeTyped, Truthful
<1>2. ASSUME NEW i \in 1..Len(outbox)
      PROVE  outbox[i] \in Envelope /\ outbox[i].n \in 1..num /\ outbox[i].deals \subseteq 1..dealt
  BY <1>2 DEF Bridge, Queue, Emitted, Truthful
<1>3. \A f \in Known : (f \in persisted /\ f.s = sess) \/ \E i \in 1..Len(outbox) : f = outbox[i]
  BY DEF Known, Members
<1>4. ASSUME NEW e \in persisted, NEW f \in Known, e.s = sess, e.n = f.n PROVE e = f
  <2>1. CASE f \in persisted /\ f.s = sess
    BY <1>4, <2>1 DEF Bridge, Numbered
  <2>2. ASSUME NEW i \in 1..Len(outbox), f = outbox[i] PROVE FALSE
    <3>1. e.n < outbox[i].n
      BY <1>4, <2>2 DEF Bridge, Queue
    <3> QED
      BY <1>1, <1>4, <2>2, <3>1
  <2> QED
    BY <1>3, <2>1, <2>2
<1> QED
  BY <1>1, <1>2, <1>3, <1>4

\* The part of it that is needed after a step.
LEMMA KnownHere == Bridge => \A x \in Known : x.n \in 1..num
  BY KnownNumbers

\* _enqueue adds one event and loses at most others.
LEMMA EnqueuedMembers ==
  ASSUME BridgeTyped, NEW q \in Seq(Envelope), NEW e \in Envelope
  PROVE  Enqueued(q, e) \in Seq(Envelope) /\ Members(Enqueued(q, e)) \subseteq Members(q) \cup {e}
<1>1. ASSUME NEW r \in Seq(Envelope), Members(r) \subseteq Members(q)
      PROVE  Append(r, e) \in Seq(Envelope) /\ Members(Append(r, e)) \subseteq Members(q) \cup {e}
  <2>1. /\ Append(r, e) \in Seq(Envelope) /\ Len(Append(r, e)) = Len(r) + 1 /\ Len(r) \in Nat
        /\ Append(r, e)[Len(r) + 1] = e /\ \A i \in 1..Len(r) : Append(r, e)[i] = r[i]
    OBVIOUS
  <2>2. ASSUME NEW i \in 1..Len(Append(r, e)) PROVE Append(r, e)[i] \in Members(q) \cup {e}
    <3>1. i \in 1..Len(r) \/ i = Len(r) + 1
      BY <2>1
    <3>2. \A j \in 1..Len(r) : r[j] \in Members(r)
      BY DEF Members
    <3> QED
      BY <1>1, <2>1, <3>1, <3>2
  <2>3. \A x \in Members(Append(r, e)) : \E i \in 1..Len(Append(r, e)) : x = Append(r, e)[i]
    BY DEF Members
  <2> QED
    BY <2>1, <2>2, <2>3
<1>2. CASE Len(q) >= plan.queue
  <2>1. q # <<>> /\ Len(q) \in Nat
    BY <1>2, PlanFacts
  <2>2. Tail(q) \in Seq(Envelope) /\ Len(Tail(q)) = Len(q) - 1
    BY <2>1
  <2>3. \A i \in 1..Len(Tail(q)) : i + 1 \in 1..Len(q) /\ Tail(q)[i] = q[i + 1]
    BY <2>1, <2>2
  <2>4. Members(Tail(q)) \subseteq Members(q)
    BY <2>3 DEF Members
  <2> QED
    BY <1>1, <1>2, <2>2, <2>4 DEF Enqueued
<1>3. CASE ~(Len(q) >= plan.queue)
  BY <1>1, <1>3 DEF Enqueued
<1> QED
  BY <1>2, <1>3

\* flush_transport moves events from the queue to the files.
LEMMA FlushedMembers ==
  ASSUME NEW q \in Seq(Envelope), NEW k \in 0..Len(q), Flushed(q, k)
  PROVE  Members(outbox') \subseteq Members(q) /\ persisted' \subseteq persisted \cup Members(q)
<1>1. outbox' = SubSeq(q, k + 1, Len(q)) /\ persisted' = persisted \cup {q[i] : i \in 1..k}
  BY DEF Flushed
<1>2. Len(q) \in Nat /\ k \in Nat /\ k <= Len(q)
  OBVIOUS
<1>3. Len(outbox') = Len(q) - k /\ \A i \in 1..(Len(q) - k) : outbox'[i] = q[i + k]
  <2>1. \A i \in (k + 1)..Len(q) : q[i] \in Envelope
    BY <1>2
  <2> QED
    BY <1>1, <1>2, <2>1
<1>4. \A i \in 1..(Len(q) - k) : i + k \in 1..Len(q)
  BY <1>2
<1>5. 1..k \subseteq 1..Len(q)
  BY <1>2
<1> QED
  BY <1>1, <1>3, <1>4, <1>5 DEF Members

\* What one call of the bridge adds to the known events.
LEMMA HandlerMembers ==
  ASSUME Bridge, NEW n, NEW q, Handler(n, q), Emit(n, q), lastCash' \in Nat
  PROVE  /\ \A f \in Known' : f \in Known \/ (News(f, f.n) /\ f.n \in (num + 1)..num')
         /\ num' \in {num + 1, num + 2} /\ UNCHANGED <<sess, dealt>>
         /\ \A f \in Known' \ Known :
              \/ f.n = num' /\ lastCash' = CashAfter(f, lastCash)
              \/ f.n = num' - 1 /\ num' = num + 2 /\ ~Carries(f)
<1>1. num \in Nat /\ outbox \in Seq(Envelope) /\ BridgeTyped
  BY DEF Bridge, BridgeTyped, Queue
<1>2. num' = num + n /\ UNCHANGED <<sess, dealt>> /\ \E k \in 0..Len(q) : Flushed(q, k)
  BY DEF Emit, brokerVars
<1>3. n \in {1, 2} /\ Queue(q, num + n)
  BY HandlerQueue
<1>4. q \in Seq(Envelope)
  BY <1>3 DEF Queue
<1>5. Members(outbox') \subseteq Members(q) /\ persisted' \subseteq persisted \cup Members(q)
  BY <1>2, <1>4, FlushedMembers
<1>6. \A f \in Known' : f \in Known \/ f \in Members(q) \ Members(outbox)
  <2>1. Known' = {f \in persisted' : f.s = sess'} \cup Members(outbox')
    BY DEF Known, Members
  <2> QED
    BY <1>2, <1>5, <2>1 DEF Known
<1>7. CASE n = 1
  <2>1. PICK e : News(e, num + 1) /\ q = Enqueued(outbox, e) /\ lastCash' = CashAfter(e, lastCash)
    BY <1>7 DEF Handler
  <2>2. e \in Envelope /\ e.n = num + 1
    BY <2>1 DEF News, Emitted
  <2>3. Members(q) \subseteq Members(outbox) \cup {e}
    BY <1>1, <2>1, <2>2, EnqueuedMembers
  <2>4. \A f \in Known' : f \in Known \/ f = e
    BY <1>6, <2>3
  <2>5. num' = num + 1 /\ num + 1 \in (num + 1)..num'
    BY <1>1, <1>2, <1>7
  <2> QED
    BY <1>2, <2>1, <2>2, <2>4, <2>5
<1>8. CASE n = 2
  <2>1. PICK e, f : /\ News(e, num + 1) /\ News(f, num + 2) /\ q = Enqueued(Enqueued(outbox, e), f)
                    /\ ~Carries(e) /\ lastCash' = CashAfter(f, lastCash)
    BY <1>8 DEF Handler
  <2>2. e \in Envelope /\ e.n = num + 1 /\ f \in Envelope /\ f.n = num + 2
    BY <2>1 DEF News, Emitted
  <2>3. /\ Enqueued(outbox, e) \in Seq(Envelope)
        /\ Members(Enqueued(outbox, e)) \subseteq Members(outbox) \cup {e}
    BY <1>1, <2>2, EnqueuedMembers
  <2>4. Members(q) \subseteq Members(Enqueued(outbox, e)) \cup {f}
    BY <1>1, <2>1, <2>2, <2>3, EnqueuedMembers
  <2>5. \A g \in Known' : g \in Known \/ g = e \/ g = f
    BY <1>6, <2>3, <2>4
  <2>6. /\ num' = num + 2 /\ num + 1 \in (num + 1)..num' /\ num + 2 \in (num + 1)..num'
        /\ num + 1 = num' - 1
    BY <1>1, <1>2, <1>8
  <2> QED
    BY <1>2, <2>1, <2>2, <2>5, <2>6
<1> QED
  BY <1>3, <1>7, <1>8

\* The known events after a step of the bridge or the broker: their deals grow, and what was
\* remembered of the account is a longer history, or a new one for a new session.
LEMMA HistoryStep ==
  ASSUME Bridge, Growing, NEW C, Remembered(C), BridgeSide \/ BrokerMoves
  PROVE  /\ Growing' /\ sess' \in {sess, sess + 1}
         /\ sess' = sess => \A f \in Known' : f \in Known \/ f.n > num
         /\ \E D : Remembered(D)' /\ (sess' = sess => \A i \in 0..num : D[i] = C[i])
<1>1. /\ num \in Nat /\ lastCash \in Nat /\ C \in [0..num -> Nat] /\ C[num] = lastCash
      /\ \A f \in Known : C[f.n] = CashAfter(f, C[f.n - 1])
  BY DEF Bridge, BridgeTyped, Remembered
<1>2. \A f \in Known : f.n \in 1..num /\ f.deals \subseteq 1..dealt
  BY KnownNumbers
<1>3. CASE Emission
  <2>1. PICK n, q : Handler(n, q) /\ Emit(n, q)
    BY <1>3, Handlers DEF Emission
  <2>2. lastCash' \in Nat
    BY <1>3, Handlers DEF Emission
  <2>3. /\ \A f \in Known' : f \in Known \/ (News(f, f.n) /\ f.n \in (num + 1)..num')
        /\ num' \in {num + 1, num + 2} /\ UNCHANGED <<sess, dealt>>
        /\ \A f \in Known' \ Known :
             \/ f.n = num' /\ lastCash' = CashAfter(f, lastCash)
             \/ f.n = num' - 1 /\ num' = num + 2 /\ ~Carries(f)
    BY <2>1, <2>2, HandlerMembers
  <2>4. Growing'
    <3> SUFFICES ASSUME NEW e \in Known', NEW f \in Known', e.n <= f.n, f.t = "snapshot",
                        f.deals # {}
                 PROVE  e.deals \subseteq f.deals
      BY DEF Growing
    <3>1. CASE f \in Known
      <4>1. f.n \in 1..num
        BY <1>2, <3>1
      <4>2. e \in Known
        BY <1>1, <2>3, <4>1
      <4> QED
        BY <3>1, <4>2 DEF Growing
    <3>2. CASE News(f, f.n)
      <4>1. f.deals = 1..dealt
        BY <3>2 DEF News
      <4>2. e.deals \subseteq 1..dealt
        BY <1>2, <2>3 DEF News, Emitted, Truthful
      <4> QED
        BY <4>1, <4>2
    <3> QED
      BY <2>3, <3>1, <3>2
  <2>5. \A f \in Known' : f \in Known \/ f.n > num
    BY <1>1, <2>3
  <2>6. \E D : /\ D \in [0..num' -> Nat] /\ D[num'] = lastCash' /\ \A i \in 0..num : D[i] = C[i]
               /\ num' = num + 2 => D[num + 1] = lastCash
    <3> DEFINE H == [i \in 0..num' |-> IF i <= num THEN C[i] ELSE IF i = num' THEN lastCash' ELSE lastCash]
    <3>1. num' \in Nat /\ num' > num /\ num' \in 0..num' /\ \A i \in 0..num : i \in 0..num' /\ i <= num
      BY <1>1, <2>3
    <3>2. \A i \in 0..num' : i <= num => i \in 0..num
      BY <1>1, <3>1
    <3>3. H \in [0..num' -> Nat]
      BY <1>1, <2>2, <3>1, <3>2
    <3>4. H[num'] = lastCash'
      BY <1>1, <3>1
    <3>5. \A i \in 0..num : H[i] = C[i]
      BY <3>1
    <3>6. num' = num + 2 => num + 1 \in 0..num' /\ ~(num + 1 <= num) /\ num + 1 # num'
      BY <1>1
    <3>7. num' = num + 2 => H[num + 1] = lastCash
      BY <3>6
    <3> HIDE DEF H
    <3> QED
      BY <3>3, <3>4, <3>5, <3>7
  <2> PICK D : /\ D \in [0..num' -> Nat] /\ D[num'] = lastCash' /\ \A i \in 0..num : D[i] = C[i]
               /\ num' = num + 2 => D[num + 1] = lastCash
    BY <2>6
  <2>7. ASSUME NEW f \in Known' PROVE D[f.n] = CashAfter(f, D[f.n - 1])
    <3>1. CASE f \in Known
      <4>1. f.n \in 0..num /\ f.n - 1 \in 0..num
        BY <1>1, <1>2, <3>1
      <4> QED
        BY <1>1, <3>1, <4>1
    <3>2. CASE f.n = num' /\ lastCash' = CashAfter(f, lastCash)
      <4>1. CASE num' = num + 1
        <5>1. num' - 1 = num /\ num \in 0..num
          BY <1>1, <4>1
        <5>2. D[num' - 1] = lastCash
          BY <1>1, <5>1
        <5> QED
          BY <3>2, <5>2
      <4>2. CASE num' = num + 2
        <5>1. num' - 1 = num + 1
          BY <1>1, <4>2
        <5>2. D[num' - 1] = lastCash
          BY <4>2, <5>1
        <5> QED
          BY <3>2, <5>2
      <4> QED
        BY <2>3, <4>1, <4>2
    <3>3. CASE f.n = num' - 1 /\ num' = num + 2 /\ ~Carries(f)
      <4>1. f.n = num + 1 /\ f.n - 1 = num /\ num \in 0..num
        BY <1>1, <3>3
      <4> QED
        BY <1>1, <3>3, <4>1 DEF CashAfter
    <3> QED
      BY <2>3, <3>1, <3>2, <3>3
  <2>8. Remembered(D)'
    BY <2>7 DEF Remembered, CashAfter, Carries
  <2> QED
    BY <2>3, <2>4, <2>5, <2>8
<1>4. ASSUME UNCHANGED <<sess, num, lastCash>>, Known' \subseteq Known
      PROVE  /\ Growing' /\ sess' \in {sess, sess + 1}
             /\ sess' = sess => \A f \in Known' : f \in Known \/ f.n > num
             /\ \E D : Remembered(D)' /\ (sess' = sess => \A i \in 0..num : D[i] = C[i])
  <2>1. Growing'
    BY <1>4 DEF Growing
  <2>2. Remembered(C)'
    BY <1>4 DEF Remembered, CashAfter, Carries
  <2> QED
    BY <1>4, <2>1, <2>2
<1>5. CASE Flush
  <2>1. UNCHANGED <<sess, num, lastCash>> /\ Flushed(outbox, Len(outbox))
    BY <1>5 DEF Flush
  <2>2. outbox \in Seq(Envelope) /\ Len(outbox) \in 0..Len(outbox)
    BY DEF Bridge, Queue
  <2>3. Members(outbox') \subseteq Members(outbox) /\ persisted' \subseteq persisted \cup Members(outbox)
    BY <2>1, <2>2, FlushedMembers
  <2>4. Known' = {f \in persisted' : f.s = sess'} \cup Members(outbox')
    BY DEF Known, Members
  <2>5. Known' \subseteq Known
    BY <2>1, <2>3, <2>4 DEF Known
  <2> QED
    BY <1>4, <2>1, <2>5
<1>6. CASE Unload \/ BrokerMoves
  <2>1. UNCHANGED <<sess, num, lastCash, persisted>> /\ (outbox' = outbox \/ outbox' = <<>>)
    BY <1>6 DEF Unload, BrokerMoves, bridgeMem
  <2>2. Known' = {f \in persisted' : f.s = sess'} \cup Members(outbox')
    BY DEF Known, Members
  <2>3. Members(<<>>) = {}
    BY DEF Members
  <2>4. Known' \subseteq Known
    BY <2>1, <2>2, <2>3 DEF Known
  <2> QED
    BY <1>4, <2>1, <2>4
<1>7. CASE Load
  <2>1. sess' = sess + 1 /\ num' = 0 /\ lastCash' = 0 /\ outbox' = <<>> /\ persisted' = persisted
    BY <1>7 DEF Load
  <2>2. sess \in Nat /\ \A f \in persisted : f.s \in 1..sess
    BY DEF Bridge, Numbered, BridgeTyped
  <2>3. Known' = {}
    <3>1. Known' = {f \in persisted' : f.s = sess'} \cup Members(outbox')
      BY DEF Known, Members
    <3>2. Members(<<>>) = {}
      BY DEF Members
    <3> QED
      BY <2>1, <2>2, <3>1, <3>2
  <2> DEFINE D == [i \in 0..0 |-> 0]
  <2>4. D \in [0..0 -> Nat] /\ D[0] = 0
    OBVIOUS
  <2> HIDE DEF D
  <2>5. Remembered(D)' /\ Growing' /\ sess' # sess
    BY <2>1, <2>2, <2>3, <2>4 DEF Remembered, Growing
  <2> QED
    BY <2>1, <2>5
<1> QED
  BY <1>3, <1>5, <1>6, <1>7 DEF BridgeSide, Emission

\* One event through ingress and the read model: a gap, a failed query or a failed handler
\* takes the view's promise away, a clean snapshot gives it back (receiver.py:61-80).
LEMMA TakeView ==
  ASSUME Bridge, HostTyped, View, NEW e \in persisted, NEW r, Take(e, r),
         UNCHANGED <<sess, num, lastCash, outbox, persisted>>
  PROVE  View'
<1>1. e \in Envelope /\ e.s \in 1..sess /\ e.n \in Nat \ {0} /\ sess \in Nat
  BY DEF Bridge, Numbered, BridgeTyped
<1>2. Known' = Known
  BY DEF Known, Members
<1>3. Growing'
  BY <1>2 DEF View, Growing
<1>4. PICK C : Remembered(C) /\ Reflects(C)
  BY DEF View
<1>5. Remembered(C)'
  BY <1>2, <1>4 DEF Remembered, CashAfter, Carries
<1>6. CASE Duplicate(e) /\ ingress' = Base(e) /\ UNCHANGED <<view, basis>>
  <2>1. Base(e).last # 0
    BY <1>1, <1>6 DEF Duplicate
  <2>2. ingress' = ingress
    BY <1>6, <2>1 DEF Base, Fresh
  <2>3. Reflects(C)'
    BY <1>2, <1>4, <1>6, <2>2 DEF Reflects, Shown
  <2>4. Seen'
    BY <2>2 DEF View, Seen
  <2> QED
    BY <1>3, <1>5, <1>6, <2>2, <2>3, <2>4 DEF View
<1>7. ASSUME ingress' = Advanced(e)
      PROVE  Seen' /\ ingress'.s = e.s /\ ingress'.last = e.n /\ ingress'.resync = Advanced(e).resync
  BY <1>7 DEF Advanced, Seen
<1>8. CASE RaiseEarly(e)
  <2>1. ingress' = Advanced(e) /\ basis' = NoEvent
    BY <1>8 DEF RaiseEarly
  <2> QED
    BY <1>3, <1>5, <1>7, <2>1 DEF View, Reflects
<1>9. CASE Handle(e)
  <2>1. /\ ingress' = Advanced(e) /\ view' = Applied(e)
        /\ basis' = IF CleanSnapshot(e) THEN e ELSE IF e.t = "snapshot" THEN NoEvent ELSE basis
    BY <1>9 DEF Handle
  <2>2. CASE CleanSnapshot(e)
    <3>1. /\ view'.s = e.s /\ view'.cash = e.cash /\ view'.deals = e.deals
          /\ view'.healthy => ~ingress'.resync
      BY <2>1, <2>2 DEF Applied, CleanSnapshot
    <3>2. basis' = e
      BY <2>1, <2>2
    <3>3. ASSUME e.s = sess
          PROVE  /\ e.cash = C[e.n] \/ e.cash = 0
                 /\ \A f \in Known : f.n <= e.n /\ (e.deals # {} \/ f.n >= e.n)
                                       => f.deals \subseteq e.deals
      <4>1. e \in Known
        BY <3>3 DEF Known
      <4>2. e.cash # 0 => C[e.n] = e.cash
        BY <1>4, <2>2, <4>1 DEF Remembered, CashAfter, Carries, CleanSnapshot
      <4>3. \A f \in Known : f.n \in Nat /\ (f.n = e.n => f = e)
        BY <3>3, KnownNumbers
      <4> QED
        BY <1>1, <2>2, <4>1, <4>2, <4>3 DEF View, Growing, CleanSnapshot
    <3>4. Reflects(C)'
      BY <1>2, <1>7, <2>1, <3>1, <3>2, <3>3 DEF Reflects, Shown
    <3> QED
      BY <1>1, <1>3, <1>5, <1>7, <2>1, <3>1, <3>4 DEF View
  <2>3. CASE ~CleanSnapshot(e) /\ basis # NoEvent /\ e.t # "snapshot"
    <3>1. view.s # 0 /\ view # NoView /\ basis' = basis
      BY <2>1, <2>3 DEF View, NoView
    <3>2. /\ view'.s = view.s /\ view'.cash = (IF e.t = "account" THEN e.cash ELSE view.cash)
          /\ view'.deals = view.deals \cup e.deals /\ view'.healthy = ~Advanced(e).resync
      BY <2>1, <2>3, <3>1 DEF Applied, HostTyped
    <3>3. ASSUME ~Advanced(e).resync, e.s = sess
          PROVE  /\ view'.cash = C[e.n] \/ (view'.cash = 0 /\ basis.cash = 0)
                 /\ \A f \in Known : f.n <= e.n /\ (basis.deals # {} \/ f.n >= basis.n)
                                       => f.deals \subseteq view'.deals
      <4>1. ~Base(e).resync /\ (Base(e).last = 0 \/ e.n = Base(e).last + 1)
        BY <2>3, <3>3 DEF Advanced
      <4>2. Base(e) = ingress /\ ingress.s = e.s
        BY <4>1 DEF Base, Fresh
      <4>3. ingress.last \in Nat /\ ingress.last # 0
        <5>1. ingress.last # 0
          BY <4>1, <4>2 DEF View, Seen, Bridge, Numbered
        <5> QED
          BY <5>1, PlanFacts DEF HostTyped, Bridge
      <4>4. e.n = ingress.last + 1 /\ e.n - 1 = ingress.last
        BY <1>1, <4>1, <4>2, <4>3
      <4>5. Shown(C[ingress.last], ingress.last)
        BY <1>4, <2>3, <3>3, <4>1, <4>2 DEF Reflects
      <4>6. e \in Known
        BY <3>3 DEF Known
      <4>7. C[e.n] = CashAfter(e, C[ingress.last])
        BY <1>4, <4>4, <4>6 DEF Remembered
      <4>8. view'.cash = C[e.n] \/ (view'.cash = 0 /\ basis.cash = 0)
        BY <2>3, <3>2, <4>5, <4>7 DEF CashAfter, Carries, Shown
      <4>9. ASSUME NEW f \in Known, f.n <= e.n, basis.deals # {} \/ f.n >= basis.n
            PROVE  f.deals \subseteq view'.deals
        <5>1. f.n \in Nat
          BY KnownNumbers
        <5>2. f.n <= ingress.last \/ f.n = e.n
          BY <4>3, <4>4, <4>9, <5>1
        <5>3. f.n = e.n => f = e
          BY <3>3, <4>9, KnownNumbers
        <5> QED
          BY <3>2, <4>5, <4>9, <5>2, <5>3 DEF Shown
      <4> QED
        BY <4>8, <4>9
    <3>4. Reflects(C)'
      BY <1>2, <1>7, <2>1, <3>1, <3>3 DEF Reflects, Shown
    <3> QED
      BY <1>3, <1>5, <1>7, <2>1, <3>1, <3>2, <3>4 DEF View
  <2>4. CASE basis' = NoEvent
    BY <1>3, <1>5, <1>7, <2>1, <2>4 DEF View, Reflects
  <2> QED
    BY <2>1, <2>2, <2>3, <2>4
<1> QED
  BY <1>6, <1>8, <1>9 DEF Take

\* The view's promise survives every step.
LEMMA ViewStep ==
  ASSUME Bridge, Filed, HostTyped, View, [EventNext]_eventVars
  PROVE  View'
<1>1. PICK C : Remembered(C) /\ Reflects(C)
  BY DEF View
<1>2. CASE BridgeSide \/ BrokerMoves
  <2>1. UNCHANGED <<ingress, view, basis>> /\ persisted \subseteq persisted'
    BY <1>2, BridgeFiles
  <2>2. Seen'
    BY <2>1 DEF View, Seen
  <2>3. /\ Growing' /\ sess' \in {sess, sess + 1}
        /\ sess' = sess => \A f \in Known' : f \in Known \/ f.n > num
        /\ \E D : Remembered(D)' /\ (sess' = sess => \A i \in 0..num : D[i] = C[i])
    BY <1>1, <1>2, HistoryStep DEF View
  <2>4. PICK D : Remembered(D)' /\ (sess' = sess => \A i \in 0..num : D[i] = C[i])
    BY <2>3
  <2>5. ASSUME basis' # NoEvent, ~ingress'.resync, ingress'.s = sess'
        PROVE  /\ view'.cash = D[ingress'.last] \/ (view'.cash = 0 /\ basis'.cash = 0)
               /\ \A f \in Known' : f.n <= ingress'.last /\ (basis'.deals # {} \/ f.n >= basis'.n)
                                      => f.deals \subseteq view'.deals
    <3>1. PICK g \in persisted : g.s = ingress.s /\ g.n = ingress.last
      BY <2>1, <2>5 DEF View, Seen
    <3>2. sess' = sess /\ ingress.s = sess
      BY <2>1, <2>3, <2>5, <3>1 DEF Bridge, Numbered, BridgeTyped
    <3>3. ingress.last \in 0..num /\ num \in Nat
      BY <3>1, <3>2 DEF Bridge, Numbered, BridgeTyped
    <3>4. Shown(C[ingress.last], ingress.last)
      BY <1>1, <2>1, <2>5, <3>2 DEF Reflects
    <3>5. ASSUME NEW f \in Known', f.n <= ingress'.last, basis'.deals # {} \/ f.n >= basis'.n
          PROVE  f.deals \subseteq view'.deals
      <4>1. CASE f \in Known
        BY <2>1, <3>4, <3>5, <4>1 DEF Shown
      <4>2. CASE f \notin Known
        <5>1. f.n > num /\ f.n <= ingress.last
          BY <2>1, <2>3, <3>2, <3>5, <4>2
        <5>2. f.n \in Int
          <6>1. Bridge'
            BY BridgeStep
          <6>2. (Bridge => \A x \in Known : x.n \in 1..num)'
            BY KnownHere, PTL
          <6> QED
            BY <6>1, <6>2
        <5> QED
          BY <3>3, <5>1, <5>2
      <4> QED
        BY <4>1, <4>2
    <3> QED
      BY <2>1, <2>4, <3>2, <3>3, <3>4, <3>5 DEF Shown
  <2>6. Reflects(D)'
    BY <2>5 DEF Reflects, Shown
  <2> QED
    BY <2>1, <2>2, <2>3, <2>4, <2>6 DEF View
<1>3. ASSUME UNCHANGED <<sess, num, lastCash, outbox, persisted, ingress, view, basis>>
      PROVE  View'
  <2>1. Known' = Known
    BY <1>3 DEF Known, Members
  <2>2. Growing' /\ Seen'
    BY <1>3, <2>1 DEF View, Growing, Seen
  <2>3. Remembered(C)' /\ Reflects(C)'
    BY <1>1, <1>3, <2>1 DEF Remembered, Reflects, Shown, CashAfter, Carries
  <2> QED
    BY <1>3, <2>2, <2>3 DEF View
<1>4. HostSide \/ HostDies => UNCHANGED <<sess, num, lastCash, outbox, persisted>>
  BY HostQuiet
<1>5. CASE HostStart
  <2>1. UNCHANGED <<sess, num, lastCash, outbox, persisted>>
    BY <1>4, <1>5 DEF HostSide
  <2>2. ingress' = Fresh /\ basis' = NoEvent
    BY <1>5 DEF HostStart
  <2>3. Known' = Known
    BY <2>1 DEF Known, Members
  <2>4. Growing' /\ Remembered(C)'
    BY <1>1, <2>1, <2>3 DEF View, Growing, Remembered, CashAfter, Carries
  <2>5. Seen'
    BY <2>2 DEF Seen, Fresh
  <2> QED
    BY <2>2, <2>4, <2>5 DEF View, Reflects
<1>6. CASE Replay
  <2>1. CASE todo = {}
    <3>1. UNCHANGED <<ingress, view, basis>>
      BY <1>6, <2>1 DEF Replay
    <3> QED
      BY <1>3, <1>4, <1>6, <3>1 DEF HostSide
  <2>2. CASE todo # {}
    <3>1. PICK e \in todo : Take(e, todo \ {e})
      BY <1>6, <2>2 DEF Replay
    <3>2. e \in persisted
      BY <3>1 DEF Filed
    <3> QED
      BY <1>4, <1>6, <3>1, <3>2, TakeView DEF HostSide
  <2> QED
    BY <2>1, <2>2
<1>7. ASSUME NEW e \in inbox, Poll(e) PROVE View'
  <2>1. Take(e, {}) /\ e \in persisted
    BY <1>7 DEF Poll, Filed
  <2> QED
    BY <1>4, <1>7, <2>1, TakeView DEF HostSide
<1>8. CASE Feed \/ Move \/ CommitArchive \/ DeleteSource
  <2>1. UNCHANGED <<ingress, view, basis>>
    BY <1>8 DEF Feed, Move, CommitArchive, DeleteSource, archiveRest
  <2> QED
    BY <1>3, <1>4, <1>8, <2>1 DEF HostSide
<1>9. ASSUME NEW e, SetAside(e) \/ RolloverExit(e), HostSide PROVE View'
  <2>1. UNCHANGED <<ingress, view, basis>>
    BY <1>9 DEF SetAside, RolloverExit
  <2> QED
    BY <1>3, <1>4, <1>9, <2>1
<1>10. ASSUME NEW d, WriteArchive(d) \/ RecoverDay(d), HostSide PROVE View'
  <2>1. UNCHANGED <<ingress, view, basis>>
    BY <1>10 DEF WriteArchive, RecoverDay, archiveRest
  <2> QED
    BY <1>3, <1>4, <1>10, <2>1
<1>11. CASE HostDies
  <2>1. UNCHANGED <<ingress, view, basis>>
    BY <1>11 DEF HostDies
  <2> QED
    BY <1>3, <1>4, <1>11, <2>1
<1>12. CASE UNCHANGED eventVars
  <2>1. UNCHANGED <<sess, num, lastCash, outbox, persisted, ingress, view, basis>>
    BY <1>12 DEF eventVars, bridgeMem, hostMem
  <2> QED
    BY <1>3, <2>1
<1>13. CASE HostSide
  BY <1>5, <1>6, <1>7, <1>8, <1>9, <1>10, <1>13 DEF HostSide
<1> QED
  BY <1>2, <1>11, <1>12, <1>13 DEF EventNext

\* A healthy view that has taken in everything shows the account row the bridge saw last and
\* every deal it reported, whatever the queue dropped, the disk refused, the terminal or the
\* host lost when they died; short of it is only what a query of the view's own snapshot
\* returned no rows for (V05:481, V05:643, V05:1276, receiver.py:61-80).
THEOREM HealthyViews == EventSpec => []HealthyViewComplete
<1>1. EventInit => View
  <2> SUFFICES ASSUME EventInit PROVE View
    OBVIOUS
  <2>1. /\ num = 0 /\ lastCash = 0 /\ outbox = <<>> /\ persisted = {} /\ ingress = Fresh
        /\ basis = NoEvent
    BY DEF EventInit
  <2>2. Known = {}
    BY <2>1 DEF Known, Members
  <2> DEFINE C == [i \in 0..0 |-> 0]
  <2>3. C \in [0..0 -> Nat] /\ C[0] = 0
    OBVIOUS
  <2> HIDE DEF C
  <2>4. Remembered(C) /\ Growing
    BY <2>1, <2>2, <2>3 DEF Remembered, Growing
  <2>5. Seen
    BY <2>1 DEF Seen, Fresh
  <2>6. basis = NoEvent
    BY <2>1
  <2> QED
    BY <2>4, <2>5, <2>6 DEF View, Reflects
<1>2. Bridge /\ View => HealthyViewComplete
  <2> SUFFICES ASSUME Bridge, View, view.healthy, basis # NoEvent, ingress.s = sess,
                      ingress.last = num
               PROVE  /\ view.cash = lastCash \/ (view.cash = 0 /\ basis.cash = 0)
                      /\ \A e \in persisted :
                           e.s = sess /\ (basis.deals # {} \/ e.n >= basis.n)
                             => e.deals \subseteq view.deals
    BY DEF HealthyViewComplete, CaughtUp
  <2>1. PICK C : Remembered(C) /\ Reflects(C)
    BY DEF View
  <2>2. Shown(C[num], num)
    BY <2>1 DEF View, Reflects
  <2>3. C[num] = lastCash
    BY <2>1 DEF Remembered
  <2>4. num \in Nat /\ \A f \in Known : f.n \in 1..num
    BY KnownNumbers DEF Bridge, BridgeTyped
  <2> QED
    BY <2>2, <2>3, <2>4 DEF Known, Shown
<1> QED
  BY <1>1, <1>2, EventsNumbered, PublishedEventsKept, JournalHolds, ViewStep, PTL DEF EventSpec
=============================================================================
