-------------------------- MODULE OmsRecoveryProofs -------------------------
(***************************************************************************)
(* OmsCore, second part: what a session that still has its lease knows     *)
(* about the rows, what the rows say about the broker, and what recover()  *)
(* leaves behind, for any number of orders, sessions and broker facts and  *)
(* any order quantity.                                                     *)
(***************************************************************************)
EXTENDS OmsCoreProofs

(***************************************************************************)
(* The invariant, in layers: each is inductive given the ones before it.   *)
(***************************************************************************)

\* A session that may still write: it has the row, and either the lease has not run
\* out or it is at the heartbeat that can renew it.
Active(s) ==
  /\ holder = s
  /\ pc[s] \notin {"off", "closed"}
  /\ lease = "live" \/ pc[s] = "next"

\* recover() has a candidate in hand.
InHand(s) == op[s] = "recover" /\ pc[s] \in {"visiting", "answered", "ingested"}

\* What a thread's position says about its locals, whoever has the lease.
Positioned(s) ==
  /\ pc[s] \in {"off", "closed", "idle"} => op[s] = "none"
  /\ op[s] # "recover" => todo[s] = {}
  /\ InHand(s) => cur[s] \notin todo[s]
  /\ op[s] = "recover" /\ pc[s] = "ingested" => CancelUnresolved(s)
  /\ op[s] \in {"submit", "cancel"} => s \in reconciled

Positions == \A s \in Session : Positioned(s)

\* The fill the broker can have in each of its states.
FillFits(st, filled) ==
  /\ st \in {"NONE", "SENT", "ACKNOWLEDGED", "REJECTED"} => filled = 0
  /\ st = "PARTIALLY_FILLED" => filled > 0 /\ filled < Quantity
  /\ st = "FILLED" => filled = Quantity
  /\ st = "CANCELLED" => filled < Quantity

\* A published fact was true when it was published, and a final one still is.
FactTrue(f) ==
  /\ broker[f.order].st \in BrokerStatus
  /\ f.filled <= broker[f.order].filled
  /\ f.status \in BrokerTerminal
       => broker[f.order].st = f.status /\ f.filled = broker[f.order].filled
  /\ f.status = "PARTIALLY_FILLED" => f.filled > 0

\* The broker acts only on orders it was sent and does not contradict itself; a query
\* answer in hand is one of its facts.
Book ==
  /\ \A o \in Order : /\ broker[o].st # "NONE" => submits[o] = 1
                      /\ FillFits(broker[o].st, broker[o].filled)
  /\ \A f \in emitted : FactTrue(f)
  /\ \A s \in Session : pc[s] = "answered" /\ reply[s] # NoReply
                          => reply[s] \in emitted /\ reply[s].order = cur[s]

\* A key carries a fact the broker published, and its event id names the order.
KeyNamed(k) ==
  /\ [order |-> k.order, status |-> k.status, filled |-> k.filled] \in emitted
  /\ k.bid = k.order
  /\ \/ \E s \in Session, kind \in {"submit", "cancel", "recover"} :
          k.eid = <<s, kind, k.order>>
     \/ k.eid = <<"callback", k.order, k.status, k.filled>>

KeysNamed == \A k \in keys : KeyNamed(k)

\* What the columns of one row say about each other.
Sound(row) ==
  /\ row.status \in Unsent => row.submit = 0 /\ row.cancel = 0 /\ row.bid = NoId /\ row.filled = 0
  /\ row.status = "SUBMITTING" => row.submit = 1
  /\ row.status = "CANCEL_PENDING" => row.cancel = 1
  /\ row.resolved = 1 => row.cancel = 1

\* The row says of order o only what the broker reported.
TrueAt(row, o) ==
  /\ row.filled <= broker[o].filled
  /\ row.status \in BrokerTerminal
       => broker[o].st = row.status /\ row.filled = broker[o].filled
  /\ row.bid # NoId => row.bid = o /\ broker[o].st \in BrokerStatus

Rows ==
  /\ \A o \in Order : Sound(orders[o]) /\ TrueAt(orders[o], o)
  /\ \A s \in Session : \A o \in Order : Sound(snap[s][o])

\* The status the order in hand must have while its session is inside submit or cancel.
Expected(where, kind, status) ==
  /\ where = "created" => status = "CREATED"
  /\ where = "authorized" => status = "RISK_ACCEPTED"
  /\ where \in {"reserved", "armed", "returned", "failed"}
       => status = IF kind = "submit" THEN "SUBMITTING" ELSE "CANCEL_PENDING"
  /\ where = "unknown" => status = "UNKNOWN"
  /\ where = "reconciling" => status = "RECONCILING"
  /\ where = "answered" /\ kind # "recover" => status = "RECONCILING"

SameFlags(row, old) ==
  row.submit = old.submit /\ row.cancel = old.cancel /\ row.resolved = old.resolved

\* recover()'s notes on the candidate in hand are what the row says.
HandTracked(s) ==
  /\ SameFlags(orders[cur[s]], snap[s][cur[s]])
  /\ pc[s] \in {"visiting", "answered"} => orders[cur[s]].status = seen[s]
  /\ pc[s] = "visiting" => RecoveryCandidate(orders[cur[s]])
  /\ pc[s] = "visiting" /\ seen[s] \in {"CREATED", "RISK_ACCEPTED", "SUBMITTING"}
       => snap[s][cur[s]].status = seen[s]
  /\ pc[s] = "answered" => \/ seen[s] = "RECONCILING"
                           \/ seen[s] = "MANUAL_REVIEW" /\ CancelUnresolved(s)

\* A session that may still write sees the rows as they are.
Tracked(s) ==
  /\ op[s] \in {"submit", "cancel"} => /\ Expected(pc[s], op[s], orders[cur[s]].status)
                                       /\ op[s] = "cancel" => orders[cur[s]].cancel = 1
  /\ op[s] = "cancel" /\ pc[s] = "ingested" => orders[cur[s]].status = seen[s]
  /\ InHand(s) => HandTracked(s)
  /\ \A o \in todo[s] : snap[s][o] = orders[o] /\ RecoveryCandidate(orders[o])

Tracking == \A s \in Session : Active(s) => Tracked(s)

\* This session's own writes are the only reason for an order to be ambiguous.
Mine(s, o) == RecoveryCandidate(orders[o]) => writer[o] = s

\* What recovery has behind it, and what a reconciled session can rely on.
Settled(s) ==
  /\ s \in reconciled => \A o \in Order : Mine(s, o)
  /\ op[s] = "recover"
       => \A o \in Order \ todo[s] : ~(InHand(s) /\ o = cur[s]) => Mine(s, o)
  /\ \A k \in keys : \A o \in Order :
       k.eid = <<s, "recover", o>>
         => Mine(s, o) \/ (InHand(s) /\ pc[s] = "ingested" /\ cur[s] = o)

Settling == \A s \in Session : Active(s) => Settled(s)

\* With one recover() per session every query gets an event id of its own.
FreshKey(s, k) ==
  \A o \in Order :
    /\ k.eid = <<s, "submit", o>> => ~(op[s] = "submit" /\ cur[s] = o)
    /\ k.eid = <<s, "cancel", o>> => /\ orders[o].cancel = 1
                                     /\ op[s] = "cancel" /\ cur[s] = o => pc[s] = "ingested"
    /\ k.eid = <<s, "recover", o>> => /\ recoveries[s] = 1
                                      /\ o \notin todo[s]
                                      /\ InHand(s) /\ cur[s] = o => pc[s] = "ingested"

CandidateStatus == {"CREATED", "RISK_ACCEPTED", "SUBMITTING", "CANCEL_PENDING", "UNKNOWN",
                    "RECONCILING"}

\* ... and everything recovery has behind it is unambiguous.
Cleared(s) ==
  op[s] = "recover" =>
    /\ \A o \in Order \ todo[s] :
         ~(InHand(s) /\ o = cur[s]) => ~RecoveryCandidate(orders[o])
    /\ pc[s] = "ingested" => orders[cur[s]].status \notin CandidateStatus

Clean ==
  /\ NoInternalFault
  /\ \A k \in keys : k.accepted = 1
  /\ \A s \in Session : \A k \in keys : FreshKey(s, k)
  /\ \A s \in Session : /\ op[s] = "recover" => recoveries[s] = 1
                        /\ pc[s] = "visiting" => ~ImpossibleRow(s)
                        /\ Active(s) => Cleared(s)

(***************************************************************************)
(* What a step does to the locals.                                         *)
(***************************************************************************)

\* The steps of session s.
SessionStep(s) ==
  \/ Start(s) \/ Close(s) \/ Crash(s) \/ Renew(s) \/ StartRecovery(s) \/ Step(s)
  \/ QueryFails(s)
  \/ \E o \in Order : CreateIntent(s, o) \/ PrepareCancel(s, o)
  \/ \E f \in emitted : Callback(s, f)

BrokerStep == \E o \in Order : BrokerAnswers(o) \/ BrokerFills(o) \/ BrokerCancels(o)

SameLocals(q) ==
  /\ pc'[q] = pc[q] /\ op'[q] = op[q] /\ cur'[q] = cur[q] /\ seen'[q] = seen[q]
  /\ todo'[q] = todo[q] /\ snap'[q] = snap[q] /\ reply'[q] = reply[q]
  /\ recoveries'[q] = recoveries[q]

\* A step of the system is one session's, the broker's or the clock's.
LEMMA NextCases ==
  [Next]_vars <=> \/ \E s \in Session : SessionStep(s)
                  \/ BrokerStep \/ Expire \/ UNCHANGED vars
  BY DEF Next, SessionStep, BrokerStep

\* Leaving an operation forgets everything about it.
LEMMA DoneEffect ==
  ASSUME Locals, NEW s \in Session, NEW where, Done(s, where)
  PROVE  /\ pc'[s] = where /\ op'[s] = "none" /\ cur'[s] = NoOrder /\ seen'[s] = "ABSENT"
         /\ todo'[s] = {} /\ snap'[s] = BlankSnap /\ reply'[s] = NoReply
         /\ recoveries' = recoveries
         /\ \A q \in Session \ {s} : SameLocals(q)
  BY DEF Locals, Done, SameLocals

\* Moving on changes the position and the tracked status only.
LEMMA GotoEffect ==
  ASSUME Locals, NEW s \in Session, NEW where, NEW status, Goto(s, where, status)
  PROVE  /\ pc'[s] = where /\ seen'[s] = status
         /\ UNCHANGED <<op, cur, todo, snap, reply, recoveries>>
         /\ \A q \in Session \ {s} : SameLocals(q)
  BY DEF Locals, Goto, SameLocals

\* A transaction on a row needs the lease, and then the thread moves on or returns.
LEMMA WriteShape ==
  ASSUME NEW s \in Session, NEW target, NEW resolve, NEW where,
         Write(s, target, resolve, where)
  PROVE  /\ Held(s)
         /\ Done(s, "idle") \/ (where # "idle" /\ Goto(s, where, target))
         /\ UNCHANGED <<keys, holder, lease, reconciled, broker, emitted, submits, cancels>>
  BY DEF Write, Guard, Continue, leaseVars, brokerVars

\* Every step of an operation that has begun, as one of a few shapes.
LEMMA StepShapes ==
  ASSUME NEW s \in Session, Step(s) \/ QueryFails(s)
  PROVE  \/ Done(s, "idle") \/ Query(s) \/ Visit(s)
         \/ \E where \in Pc \ {"off", "closed", "idle", "answered"} : \E status :
              Goto(s, where, status)
<1>1. ASSUME NEW target, NEW resolve, NEW where \in Pc \ {"off", "closed", "answered"},
             Write(s, target, resolve, where)
      PROVE  \/ Done(s, "idle")
             \/ \E w \in Pc \ {"off", "closed", "idle", "answered"} : \E status :
                  Goto(s, w, status)
  BY <1>1, WriteShape
<1>2. CASE RecordRiskDecision(s) \/ PersistUnknown(s) \/ BeginReconciling(s) \/ ResolveCancel(s)
           \/ RecoveryResolvesCancel(s) \/ CancelAlreadyTerminal(s)
  BY <1>1, <1>2 DEF RecordRiskDecision, PersistUnknown, BeginReconciling, ResolveCancel,
                    RecoveryResolvesCancel, CancelAlreadyTerminal, Pc
<1>3. CASE AbortOrphan(s) \/ Classify(s)
  BY <1>1, <1>3 DEF AbortOrphan, Classify, RecoveryFails, Pc
<1>4. CASE PrepareSubmit(s) \/ AssertBeforeCall(s) \/ CallDriver(s) \/ ApplyAnswer(s)
  BY <1>4 DEF PrepareSubmit, AssertBeforeCall, CallDriver, ApplyAnswer, Pc
<1>5. CASE ApplyRecoveryAnswer(s)
  BY <1>1, <1>5 DEF ApplyRecoveryAnswer, Pc
<1>6. CASE FinishRecovery(s) \/ Fenced(s) \/ QueryFails(s)
  BY <1>6 DEF FinishRecovery, Fenced, QueryFails
<1> QED
  BY <1>2, <1>3, <1>4, <1>5, <1>6 DEF Step

\* A session's step leaves the locals of the others alone.
LEMMA OthersKept ==
  ASSUME OmsInv, NEW s \in Session, SessionStep(s)
  PROVE  \A q \in Session \ {s} : SameLocals(q)
<1>0. Locals
  BY DEF OmsInv, Types
<1>1. CASE Start(s) \/ Renew(s) \/ StartRecovery(s) \/ Query(s) \/ Visit(s)
  BY <1>0, <1>1 DEF Start, Renew, StartRecovery, Query, Visit, progress, SameLocals, Locals
<1>2. CASE Close(s) \/ Crash(s)
  BY <1>0, <1>2, DoneEffect DEF Close, Crash
<1>3. CASE Step(s) \/ QueryFails(s)
  BY <1>0, <1>1, <1>3, StepShapes, DoneEffect, GotoEffect
<1>4. CASE \E o \in Order : CreateIntent(s, o) \/ PrepareCancel(s, o)
  BY <1>0, <1>4 DEF CreateIntent, PrepareCancel, SameLocals, Locals
<1>5. CASE \E f \in emitted : Callback(s, f)
  BY <1>0, <1>5 DEF Callback, SameLocals, Locals
<1> QED
  BY <1>1, <1>2, <1>3, <1>4, <1>5 DEF SessionStep

(***************************************************************************)
(* Layer 1: the positions.                                                 *)
(***************************************************************************)

\* Only close(), a crash and the end of recover() touch _reconciled, each its own.
LEMMA ReconciledMoves ==
  ASSUME NEW s \in Session, SessionStep(s)
  PROVE  \/ reconciled' = reconciled
         \/ reconciled' = reconciled \ {s} /\ pc'= [pc EXCEPT ![s] = "closed"]
                                           /\ (Close(s) \/ Crash(s))
         \/ reconciled' = reconciled \cup {s} /\ FinishRecovery(s)
<1>1. CASE Close(s) \/ Crash(s)
  BY <1>1 DEF Close, Crash, Done
<1>2. CASE Start(s) \/ Renew(s) \/ StartRecovery(s) \/ QueryFails(s)
           \/ \E o \in Order : CreateIntent(s, o) \/ PrepareCancel(s, o)
  BY <1>2 DEF Start, Renew, StartRecovery, QueryFails, CreateIntent, PrepareCancel, progress
<1>3. CASE \E f \in emitted : Callback(s, f)
  BY <1>3 DEF Callback, Ingest
<1>4. CASE Step(s)
  BY <1>4, WriteShape
     DEF Step, RecordRiskDecision, PrepareSubmit, AssertBeforeCall, CallDriver,
         PersistUnknown, BeginReconciling, Query, ApplyAnswer, ResolveCancel, Visit,
         AbortOrphan, Classify, CancelAlreadyTerminal, ApplyRecoveryAnswer,
         RecoveryResolvesCancel, FinishRecovery, Fenced, Ingest, RecoveryFails
<1> QED
  BY <1>1, <1>2, <1>3, <1>4 DEF SessionStep

\* The thread that moves stays where its position allows (service.py:176-473).
LEMMA PositionKept ==
  ASSUME OmsInv, NEW s \in Session, Positioned(s), SessionStep(s)
  PROVE  Positioned(s)'
<1>0. Locals
  BY DEF OmsInv, Types
<1>1. ASSUME NEW where \in {"idle", "closed"}, Done(s, where)
      PROVE  Positioned(s)'
  BY <1>0, <1>1, DoneEffect DEF Positioned, InHand
<1>2. ASSUME NEW where \in Pc \ {"off", "closed", "idle"}, NEW status,
             Goto(s, where, status), reconciled' = reconciled,
             op[s] = "recover" /\ where # "next" => pc[s] \in {"visiting", "answered"},
             op[s] = "recover" /\ where = "ingested" => CancelUnresolved(s)
      PROVE  Positioned(s)'
  BY <1>0, <1>2, GotoEffect DEF Positioned, InHand, CancelUnresolved
<1>3. ASSUME NEW target, NEW resolve, NEW where \in Pc \ {"off", "closed", "ingested"},
             Write(s, target, resolve, where),
             op[s] = "recover" /\ where # "next" => pc[s] \in {"visiting", "answered"}
      PROVE  Positioned(s)'
  <2>1. reconciled' = reconciled
    BY <1>3, WriteShape
  <2> QED
    BY <1>1, <1>2, <1>3, <2>1, WriteShape
<1>4. CASE Start(s) \/ Renew(s) \/ \E f \in emitted : Callback(s, f)
  BY <1>0, <1>4 DEF Start, Renew, Callback, Ingest, progress, Positioned, InHand,
                    CancelUnresolved, Locals
<1>5. CASE Close(s) \/ Crash(s) \/ Fenced(s) \/ QueryFails(s) \/ FinishRecovery(s)
  BY <1>1, <1>5 DEF Close, Crash, Fenced, QueryFails, FinishRecovery
<1>6. CASE StartRecovery(s)
  BY <1>0, <1>6 DEF StartRecovery, Positioned, InHand, Locals
<1>7. CASE \E o \in Order : CreateIntent(s, o) \/ PrepareCancel(s, o)
  BY <1>0, <1>7 DEF CreateIntent, PrepareCancel, Ready, Positioned, InHand, Locals
<1>8. CASE Query(s)
  BY <1>0, <1>8 DEF Query, AtQuery, Positioned, InHand, CancelUnresolved, Locals, Fits
<1>9. CASE Visit(s)
  BY <1>0, <1>9 DEF Visit, Positioned, InHand, Locals, Fits
<1>10. CASE RecordRiskDecision(s) \/ PersistUnknown(s) \/ BeginReconciling(s)
            \/ ResolveCancel(s) \/ RecoveryResolvesCancel(s) \/ CancelAlreadyTerminal(s)
  <2>1. op[s] = "recover" => pc[s] \notin {"created", "returned", "failed", "unknown"}
    BY <1>0 DEF Locals, Fits
  <2> QED
    BY <1>3, <1>10, <2>1 DEF RecordRiskDecision, PersistUnknown, BeginReconciling,
       ResolveCancel, RecoveryResolvesCancel, CancelAlreadyTerminal, Pc
<1>11. CASE AbortOrphan(s) \/ Classify(s)
  BY <1>1, <1>3, <1>11 DEF AbortOrphan, Classify, RecoveryFails, Pc
<1>12. CASE PrepareSubmit(s) \/ AssertBeforeCall(s) \/ CallDriver(s)
  <2>1. op[s] # "recover" /\ reconciled' = reconciled
    BY <1>0, <1>12 DEF PrepareSubmit, AssertBeforeCall, CallDriver, Locals, Fits
  <2>2. \/ Done(s, "idle")
        \/ \E where \in {"reserved", "armed", "returned", "failed"} : \E status :
              Goto(s, where, status)
    BY <1>12 DEF PrepareSubmit, AssertBeforeCall, CallDriver
  <2> QED
    BY <1>1, <1>2, <2>1, <2>2 DEF Pc
<1>13. CASE ApplyAnswer(s)
  <2>1. op[s] # "recover" /\ reconciled' = reconciled
    BY <1>13 DEF ApplyAnswer, Ingest
  <2>2. Done(s, "idle") \/ \E status : Goto(s, "ingested", status)
    BY <1>13 DEF ApplyAnswer
  <2> QED
    BY <1>1, <1>2, <2>1, <2>2 DEF Pc
<1>14. CASE ApplyRecoveryAnswer(s)
  <2>1. CASE reply[s] = NoReply
    BY <1>3, <1>14, <2>1 DEF ApplyRecoveryAnswer, Pc
  <2>2. CASE reply[s] # NoReply
    <3>1. reconciled' = reconciled /\ pc[s] = "answered"
      BY <1>14, <2>2 DEF ApplyRecoveryAnswer, Ingest
    <3>2. \/ Done(s, "idle") \/ Goto(s, "next", seen[s])
          \/ CancelUnresolved(s) /\ Goto(s, "ingested", seen[s])
      BY <1>14, <2>2 DEF ApplyRecoveryAnswer
    <3> QED
      BY <1>1, <1>2, <3>1, <3>2 DEF Pc
  <2> QED
    BY <2>1, <2>2
<1> QED
  BY <1>4, <1>5, <1>6, <1>7, <1>8, <1>9, <1>10, <1>11, <1>12, <1>13, <1>14
     DEF SessionStep, Step

\* Positions is inductive.
LEMMA PositionsStep == OmsInv /\ Positions /\ [Next]_vars => Positions'
<1> SUFFICES ASSUME OmsInv, Positions, [Next]_vars PROVE Positions'
  OBVIOUS
<1>1. ASSUME NEW s \in Session, SessionStep(s) PROVE Positions'
  <2>1. Positioned(s)'
    BY <1>1, PositionKept DEF Positions
  <2>2. ASSUME NEW q \in Session \ {s} PROVE Positioned(q)'
    <3>1. SameLocals(q)
      BY <1>1, OthersKept
    <3>2. q \in reconciled' <=> q \in reconciled
      BY <1>1, ReconciledMoves
    <3> QED
      BY <3>1, <3>2 DEF Positions, Positioned, SameLocals, InHand, CancelUnresolved
  <2> QED
    BY <2>1, <2>2 DEF Positions
<1>2. CASE BrokerStep \/ Expire \/ UNCHANGED vars
  <2>1. UNCHANGED progress
    BY <1>2 DEF BrokerStep, BrokerAnswers, BrokerFills, BrokerCancels, Publish, Expire, vars,
                progress
  <2> QED
    BY <2>1 DEF progress, Positions, Positioned, InHand, CancelUnresolved
<1> QED
  BY <1>1, <1>2, NextCases

(***************************************************************************)
(* Layer 2: the broker's book, and the keys.                               *)
(***************************************************************************)

\* Only the driver call of a session reaches the broker.
LEMMA BrokerKept ==
  ASSUME NEW s \in Session, SessionStep(s)
  PROVE  CallDriver(s) \/ UNCHANGED brokerVars
<1>1. CASE Start(s) \/ Close(s) \/ Crash(s) \/ Renew(s) \/ StartRecovery(s) \/ QueryFails(s)
           \/ \E o \in Order : CreateIntent(s, o) \/ PrepareCancel(s, o)
  BY <1>1 DEF Start, Close, Crash, Renew, StartRecovery, QueryFails, CreateIntent,
              PrepareCancel, brokerVars
<1>2. CASE \E f \in emitted : Callback(s, f)
  BY <1>2 DEF Callback, Ingest
<1>3. CASE Step(s)
  BY <1>3, WriteShape
     DEF Step, RecordRiskDecision, PrepareSubmit, AssertBeforeCall, PersistUnknown,
         BeginReconciling, Query, ApplyAnswer, ResolveCancel, Visit, AbortOrphan, Classify,
         CancelAlreadyTerminal, ApplyRecoveryAnswer, RecoveryResolvesCancel, FinishRecovery,
         Fenced, Ingest, RecoveryFails, brokerVars
<1> QED
  BY <1>1, <1>2, <1>3 DEF SessionStep

\* A session arrives at "answered" by its query alone.
LEMMA AnsweredBy ==
  ASSUME OmsInv, NEW s \in Session, SessionStep(s), pc'[s] = "answered"
  PROVE  \/ Query(s)
         \/ pc[s] = "answered" /\ cur'[s] = cur[s] /\ reply'[s] = reply[s]
<1>0. Locals
  BY DEF OmsInv, Types
<1>1. CASE Start(s) \/ StartRecovery(s) \/ Visit(s)
           \/ \E o \in Order : CreateIntent(s, o) \/ PrepareCancel(s, o)
  BY <1>0, <1>1 DEF Start, StartRecovery, Visit, CreateIntent, PrepareCancel, Locals
<1>2. CASE Close(s) \/ Crash(s)
  BY <1>0, <1>2, DoneEffect DEF Close, Crash
<1>3. CASE Renew(s) \/ \E f \in emitted : Callback(s, f)
  BY <1>3 DEF Renew, Callback, progress
<1>4. CASE Step(s) \/ QueryFails(s)
  BY <1>0, <1>1, <1>4, StepShapes, DoneEffect, GotoEffect
<1> QED
  BY <1>1, <1>2, <1>3, <1>4 DEF SessionStep

\* A session's step keeps the book: the one driver call finds the order unsent at the
\* broker, because the reservation makes it the first (service.py:353-356).
LEMMA BookSession ==
  ASSUME OmsInv, Book, NEW s \in Session, SessionStep(s)
  PROVE  Book'
<1>0. Locals /\ BrokerBook /\ Reservations
  BY DEF OmsInv, Types
<1>1. emitted' = emitted
  BY BrokerKept DEF brokerVars, CallDriver
<1>2. ASSUME NEW q \in Session, pc'[q] = "answered", reply'[q] # NoReply
      PROVE  reply'[q] \in emitted' /\ reply'[q].order = cur'[q]
  <2>1. CASE q # s
    <3>1. SameLocals(q)
      BY <2>1, OthersKept
    <3> QED
      BY <1>1, <1>2, <3>1 DEF SameLocals, Book
  <2>2. CASE q = s /\ Query(s)
    BY <1>0, <1>1, <1>2, <2>2 DEF Query, Locals
  <2>3. CASE q = s /\ ~Query(s)
    BY <1>1, <1>2, <2>3, AnsweredBy DEF Book
  <2> QED
    BY <2>1, <2>2, <2>3
<1>3. /\ \A o \in Order : /\ broker'[o].st # "NONE" => submits'[o] = 1
                          /\ FillFits(broker'[o].st, broker'[o].filled)
      /\ \A f \in emitted' : FactTrue(f)'
  <2>1. CASE UNCHANGED brokerVars
    BY <2>1 DEF brokerVars, Book, FactTrue
  <2>2. CASE CallDriver(s) /\ op[s] = "submit"
    <3> DEFINE c == cur[s]
    <3>1. c \in Order /\ submits[c] = 0
      BY <1>0, <2>2 DEF CallDriver, Locals, Fits, Reservations, Calling
    <3>2. broker[c].st = "NONE"
      BY <3>1 DEF Book
    <3>3. /\ submits' = [submits EXCEPT ![c] = submits[c] + 1]
          /\ broker' = [broker EXCEPT ![c] =
                          [broker[c] EXCEPT !.st = IF broker[c].st = "NONE" THEN "SENT"
                                                   ELSE broker[c].st]]
      BY <2>2 DEF CallDriver
    <3> HIDE DEF c
    <3>4. /\ submits'[c] = 1 /\ broker'[c].st = "SENT" /\ broker'[c].filled = broker[c].filled
          /\ \A o \in Order \ {c} : submits'[o] = submits[o] /\ broker'[o] = broker[o]
      BY <1>0, <3>1, <3>2, <3>3 DEF BrokerBook
    <3>5. \A f \in emitted : f.order \in Order /\ f.order # c
      <4>1. "NONE" \notin BrokerStatus
        BY DEF BrokerStatus, BrokerTerminal
      <4> QED
        BY <1>0, <3>2, <4>1 DEF Book, FactTrue, BrokerBook, Published
    <3>6. FillFits(broker'[c].st, broker'[c].filled)
      BY <3>1, <3>2, <3>4 DEF Book, FillFits
    <3>7. \A f \in emitted' : FactTrue(f)'
      BY <1>1, <3>4, <3>5 DEF Book, FactTrue
    <3> QED
      BY <3>1, <3>4, <3>6, <3>7 DEF Book
  <2>3. CASE CallDriver(s) /\ op[s] # "submit"
    BY <2>3 DEF CallDriver, Book, FactTrue
  <2> QED
    BY <2>1, <2>2, <2>3, BrokerKept
<1> QED
  BY <1>2, <1>3 DEF Book

\* The broker's own steps keep the book (external).
LEMMA BookBroker ==
  ASSUME OmsInv, Book, BrokerStep
  PROVE  Book' /\ emitted \subseteq emitted'
<1>0. BrokerBook
  BY DEF OmsInv, Types
<1>1. PICK o \in Order : BrokerAnswers(o) \/ BrokerFills(o) \/ BrokerCancels(o)
  BY DEF BrokerStep
<1>2. /\ broker[o].filled \in 0..Quantity /\ FillFits(broker[o].st, broker[o].filled)
      /\ broker[o].st \in {"SENT", "ACKNOWLEDGED", "PARTIALLY_FILLED"}
  BY <1>0, <1>1 DEF BrokerBook, Book, BrokerAnswers, BrokerFills, BrokerCancels
<1>3. \E st \in BrokerStatus, n \in 0..Quantity :
        /\ Publish(o, st, n) /\ FillFits(st, n) /\ broker[o].filled <= n
  <2>1. CASE BrokerAnswers(o)
    <3>1. broker[o].filled = 0
      BY <1>2, <2>1 DEF BrokerAnswers, FillFits
    <3>2. PICK st \in {"ACKNOWLEDGED", "REJECTED"} : Publish(o, st, 0)
      BY <2>1 DEF BrokerAnswers
    <3>3. FillFits(st, 0) /\ st \in BrokerStatus /\ 0 \in 0..Quantity
      BY QuantityAssumption DEF FillFits, BrokerStatus, BrokerTerminal
    <3> QED
      BY <3>1, <3>2, <3>3
  <2>2. CASE BrokerFills(o)
    <3>1. PICK n \in (broker[o].filled + 1)..Quantity :
             Publish(o, IF n = Quantity THEN "FILLED" ELSE "PARTIALLY_FILLED", n)
      BY <2>2 DEF BrokerFills
    <3>2. n \in 0..Quantity /\ n > 0 /\ broker[o].filled <= n
      BY <1>2, <3>1, QuantityAssumption
    <3>3. CASE n = Quantity
      BY <3>1, <3>2, <3>3 DEF FillFits, BrokerStatus, BrokerTerminal
    <3>4. CASE n # Quantity
      <4>1. n < Quantity
        BY <3>2, <3>4, QuantityAssumption
      <4>2. Publish(o, "PARTIALLY_FILLED", n) /\ FillFits("PARTIALLY_FILLED", n)
            /\ "PARTIALLY_FILLED" \in BrokerStatus
        BY <3>1, <3>2, <3>4, <4>1 DEF FillFits, BrokerStatus
      <4> QED
        BY <3>2, <4>2
    <3> QED
      BY <3>3, <3>4
  <2>3. CASE BrokerCancels(o)
    <3>1. broker[o].filled < Quantity
      BY <1>2, <2>3, QuantityAssumption DEF BrokerCancels, FillFits
    <3>2. Publish(o, "CANCELLED", broker[o].filled) /\ FillFits("CANCELLED", broker[o].filled)
          /\ "CANCELLED" \in BrokerStatus
      BY <2>3, <3>1 DEF BrokerCancels, FillFits, BrokerStatus, BrokerTerminal
    <3> QED
      BY <1>2, <3>2
  <2> QED
    BY <1>1, <2>1, <2>2, <2>3
<1>4. PICK st \in BrokerStatus, n \in 0..Quantity :
        /\ Publish(o, st, n) /\ FillFits(st, n) /\ broker[o].filled <= n
  BY <1>3
<1>5. /\ broker' = [broker EXCEPT ![o] = [st |-> st, filled |-> n]]
      /\ emitted' = emitted \cup {[order |-> o, status |-> st, filled |-> n]}
      /\ UNCHANGED <<submits, pc, cur, reply>>
  BY <1>4 DEF Publish, progress
<1>6. /\ broker'[o].st = st /\ broker'[o].filled = n
      /\ \A p \in Order \ {o} : broker'[p] = broker[p]
  BY <1>0, <1>5 DEF BrokerBook
<1>7. submits[o] = 1 /\ broker[o].st \notin BrokerTerminal
  BY <1>2 DEF Book, BrokerTerminal
<1>8. ASSUME NEW f \in emitted' PROVE FactTrue(f)'
  <2>1. CASE f = [order |-> o, status |-> st, filled |-> n]
    BY <1>4, <1>6, <2>1 DEF FactTrue, FillFits
  <2>2. CASE f \in emitted
    <3>1. f \in Published /\ FactTrue(f)
      BY <1>0, <2>2 DEF BrokerBook, Book
    <3>2. CASE f.order # o
      BY <1>6, <3>1, <3>2 DEF FactTrue, Published
    <3>3. CASE f.order = o
      <4>1. f.filled <= n
        BY <1>2, <1>4, <3>1, <3>3, QuantityAssumption DEF FactTrue, Published
      <4> QED
        BY <1>6, <1>7, <3>1, <3>3, <4>1 DEF FactTrue
    <3> QED
      BY <3>2, <3>3
  <2> QED
    BY <1>5, <2>1, <2>2
<1>9. \A p \in Order : /\ broker'[p].st # "NONE" => submits'[p] = 1
                       /\ FillFits(broker'[p].st, broker'[p].filled)
  BY <1>4, <1>5, <1>6, <1>7 DEF Book
<1>10. \A q \in Session : pc'[q] = "answered" /\ reply'[q] # NoReply
                          => reply'[q] \in emitted' /\ reply'[q].order = cur'[q]
  BY <1>5 DEF Book
<1> QED
  BY <1>5, <1>8, <1>9, <1>10 DEF Book

\* The book is inductive.
LEMMA BookStep == OmsInv /\ Book /\ [Next]_vars => Book' /\ emitted \subseteq emitted'
<1> SUFFICES ASSUME OmsInv, Book, [Next]_vars PROVE Book' /\ emitted \subseteq emitted'
  OBVIOUS
<1>1. ASSUME NEW s \in Session, SessionStep(s) PROVE Book' /\ emitted \subseteq emitted'
  BY <1>1, BookSession, BrokerKept DEF brokerVars, CallDriver
<1>2. CASE Expire \/ UNCHANGED vars
  BY <1>2 DEF Expire, vars, progress, brokerVars, Book, FactTrue
<1> QED
  BY <1>1, <1>2, BookBroker, NextCases

\* What a session builds from an answer, or a caller from a callback, carries a published
\* fact under an event id that names the order (service.py:132-174).
LEMMA EvidenceNamed ==
  ASSUME OmsInv, Book
  PROVE  /\ \A s \in Session : pc[s] = "answered" /\ reply[s] # NoReply
                                => KeyNamed(QueryEvidence(s))
         /\ \A f \in emitted : KeyNamed(CallbackEvidence(f))
<1>1. ASSUME NEW s \in Session, pc[s] = "answered", reply[s] # NoReply
      PROVE  KeyNamed(QueryEvidence(s))
  <2>1. cur[s] \in Order /\ op[s] \in {"submit", "cancel", "recover"}
    BY <1>1 DEF OmsInv, Types, Locals, Fits
  <2>2. reply[s] \in Published /\ reply[s] \in emitted /\ reply[s].order = cur[s]
    BY <1>1 DEF Book, OmsInv, Types, BrokerBook
  <2>3. reply[s] = [order |-> cur[s], status |-> reply[s].status, filled |-> reply[s].filled]
    BY <2>2 DEF Published
  <2> QED
    BY <2>1, <2>2, <2>3 DEF QueryEvidence, KeyNamed
<1>2. ASSUME NEW f \in emitted PROVE KeyNamed(CallbackEvidence(f))
  <2>1. f \in Published
    BY DEF OmsInv, Types, BrokerBook
  <2>2. f = [order |-> f.order, status |-> f.status, filled |-> f.filled]
    BY <2>1 DEF Published
  <2> QED
    BY <2>2 DEF CallbackEvidence, KeyNamed
<1> QED
  BY <1>1, <1>2

\* The keys table changes by ingest() alone (evidence.py:298-326).
LEMMA KeysMoves ==
  ASSUME OmsInv, Book, NEW s \in Session, SessionStep(s)
  PROVE  \/ keys' = keys
         \/ \E e \in Fact0 : Ingest(s, e) /\ KeyNamed(e)
<1>1. CASE Start(s) \/ Close(s) \/ Crash(s) \/ Renew(s) \/ StartRecovery(s) \/ QueryFails(s)
           \/ \E o \in Order : CreateIntent(s, o) \/ PrepareCancel(s, o)
  BY <1>1 DEF Start, Close, Crash, Renew, StartRecovery, QueryFails, CreateIntent,
              PrepareCancel, durable
<1>2. CASE \E f \in emitted : Callback(s, f)
  BY <1>2, EvidenceNamed, EvidenceTypes DEF Callback
<1>3. CASE ApplyAnswer(s) \/ ApplyRecoveryAnswer(s)
  <2>1. keys' = keys \/ (pc[s] = "answered" /\ reply[s] # NoReply /\ Ingest(s, QueryEvidence(s)))
    BY <1>3, WriteShape DEF ApplyAnswer, ApplyRecoveryAnswer, durable
  <2> QED
    BY <2>1, EvidenceNamed, EvidenceTypes
<1>4. CASE Step(s)
  BY <1>3, <1>4, WriteShape
     DEF Step, RecordRiskDecision, PrepareSubmit, AssertBeforeCall, CallDriver, PersistUnknown,
         BeginReconciling, Query, ResolveCancel, Visit, AbortOrphan, Classify,
         CancelAlreadyTerminal, RecoveryResolvesCancel, FinishRecovery,
         Fenced, RecoveryFails, durable
<1> QED
  BY <1>1, <1>2, <1>3, <1>4 DEF SessionStep

\* KeysNamed is inductive.
LEMMA KeysStep == OmsInv /\ Book /\ KeysNamed /\ [Next]_vars => KeysNamed'
<1> SUFFICES ASSUME OmsInv, Book, KeysNamed, [Next]_vars PROVE KeysNamed'
  OBVIOUS
<1>1. emitted \subseteq emitted'
  BY BookStep
<1>2. \A k \in keys : KeyNamed(k)'
  BY <1>1 DEF KeysNamed, KeyNamed
<1>3. ASSUME NEW s \in Session, NEW e \in Fact0, Ingest(s, e), KeyNamed(e) PROVE KeysNamed'
  <2>1. ASSUME NEW a \in {0, 1} PROVE KeyNamed(WithAccepted(e, a))'
    BY <1>1, <1>3 DEF KeyNamed, WithAccepted
  <2>2. keys' \subseteq keys \cup {WithAccepted(e, 0), WithAccepted(e, 1)}
    BY <1>3 DEF Ingest, IngestKeys
  <2> QED
    BY <1>2, <2>1, <2>2 DEF KeysNamed
<1>4. ASSUME NEW s \in Session, SessionStep(s) PROVE KeysNamed'
  BY <1>2, <1>3, <1>4, KeysMoves DEF KeysNamed
<1>5. CASE BrokerStep \/ Expire \/ UNCHANGED vars
  <2>1. keys' = keys
    BY <1>5 DEF BrokerStep, BrokerAnswers, BrokerFills, BrokerCancels, Publish, Expire, vars,
                durable
  <2> QED
    BY <1>2, <2>1 DEF KeysNamed
<1> QED
  BY <1>4, <1>5, NextCases

(***************************************************************************)
(* Layer 3: the rows, and what an active session knows of them.            *)
(***************************************************************************)

\* A transition keeps a row sound if it does not invent a reservation or settle a
\* cancel that was never asked for.
LEMMA TransitionSound ==
  ASSUME NEW row \in Row, Sound(row), NEW target \in Status \cup {"ABSENT"},
         NEW resolve \in BOOLEAN,
         target = "SUBMITTING" => row.status = target,
         target = "CANCEL_PENDING" => row.cancel = 1,
         resolve => row.cancel = 1
  PROVE  Sound(TransitionRow(row, target, resolve))
<1> DEFINE t == TransitionRow(row, target, resolve)
<1>1. /\ t.submit = row.submit /\ t.cancel = row.cancel /\ t.status \in {row.status, target}
      /\ row.status \notin Unsent => t.status \notin Unsent
  BY TransitionRowFacts
<1>2. t.bid = row.bid /\ t.filled = row.filled /\ (t.resolved = row.resolved \/ row.cancel = 1)
  BY TransitionRowParts
<1> HIDE DEF t
<1>3. Sound(t)
  BY <1>1, <1>2 DEF Sound
<1> QED
  BY <1>3 DEF t

\* Evidence under one event id is about one order.
LEMMA KeyOrder ==
  ASSUME NEW k, NEW e, KeyNamed(k), KeyNamed(e), k.eid = e.eid
  PROVE  k.order = e.order
<1>1. CASE k.eid = <<"callback", k.order, k.status, k.filled>>
           /\ e.eid = <<"callback", e.order, e.status, e.filled>>
  <2>1. \A b, c, f, h, i, j :
          <<"callback", b, c, f>> = <<"callback", h, i, j>> => b = h
    OBVIOUS
  <2>2. <<"callback", k.order, k.status, k.filled>>
          = <<"callback", e.order, e.status, e.filled>>
    BY <1>1, Zenon
  <2> QED
    BY <2>1, <2>2, Zenon
<1>2. ASSUME NEW s, NEW kind, k.eid = <<s, kind, k.order>>,
             NEW t, NEW kind2, e.eid = <<t, kind2, e.order>>
      PROVE  k.order = e.order
  <2>1. \A a, b, c, f, g, h : <<a, b, c>> = <<f, g, h>> => c = h
    OBVIOUS
  <2> QED
    BY <1>2, <2>1, Zenon
<1>3. \A a, b, c, d, f, g, h : <<a, b, c>> # <<d, f, g, h>>
  OBVIOUS
<1> QED
  BY <1>1, <1>2, <1>3 DEF KeyNamed

\* Broker evidence is only ever about an order the broker was sent.
LEMMA EvidenceSent ==
  ASSUME OmsInv, Book, NEW e \in Fact0, KeyNamed(e)
  PROVE  /\ e.order \in Order /\ e.status \in BrokerStatus /\ e.filled \in 0..Quantity
         /\ e.bid = e.order /\ e.bid \in BrokerId /\ e.bid # NoId
         /\ FactTrue([order |-> e.order, status |-> e.status, filled |-> e.filled])
         /\ broker[e.order].filled \in 0..Quantity
         /\ FillFits(broker[e.order].st, broker[e.order].filled)
         /\ orders[e.order].status \notin Unsent
         /\ orders[e.order] \in Row
<1>1. /\ e.order \in Order /\ e.status \in BrokerStatus /\ e.filled \in 0..Quantity
      /\ e.bid = e.order
  BY DEF Fact0, KeyNamed
<1>2. e.bid \in BrokerId /\ e.bid # NoId
  BY <1>1, OmsAssumption
<1>3. FactTrue([order |-> e.order, status |-> e.status, filled |-> e.filled])
  BY DEF KeyNamed, Book
<1>4. broker[e.order].st \in BrokerStatus
  BY <1>3 DEF FactTrue
<1>5. broker[e.order].st # "NONE"
  BY <1>4 DEF BrokerStatus, BrokerTerminal
<1>6. submits[e.order] = 1
  BY <1>1, <1>5 DEF Book
<1>7. orders[e.order].status \notin Unsent
  BY <1>1, <1>6 DEF OmsInv, Reservations, Unsent
<1>8. orders[e.order] \in Row /\ broker[e.order].filled \in 0..Quantity
      /\ FillFits(broker[e.order].st, broker[e.order].filled)
  BY <1>1 DEF OmsInv, Types, Tables, BrokerBook, Book
<1> QED
  BY <1>1, <1>2, <1>3, <1>7, <1>8

\* The row of an order, as a step may change it: row r becomes n.
RowMoved(r, n) ==
  /\ n.filled >= r.filled
  /\ n.submit >= r.submit
  /\ n.cancel >= r.cancel
  /\ n.resolved >= r.resolved
  /\ r.bid # NoId => n.bid = r.bid
  /\ r.status \in Terminal => n.status \in {r.status, "MANUAL_REVIEW"}
  /\ r.status # "ABSENT" => n.status # "ABSENT"

\* What ingesting a fact may make of the row it is about.
GoodRow(r, n, o) ==
  /\ n \in Row /\ Sound(n) /\ TrueAt(n, o) /\ RowMoved(r, n) /\ SameFlags(n, r)
  /\ n.status \notin Unsent

\* Sending a row to review invents nothing.
LEMMA ReviewGood ==
  ASSUME NEW r \in Row, Sound(r), NEW o \in Order, TrueAt(r, o), r.status \notin Unsent,
         NEW g \in 0..Quantity, broker[o].filled \in 0..Quantity, g <= broker[o].filled
  PROVE  GoodRow(r, ReviewRow(r, g), o)
<1> DEFINE n == ReviewRow(r, g)
<1>1. /\ n \in Row /\ n.submit = r.submit /\ n.cancel = r.cancel /\ n.resolved = r.resolved
      /\ n.status = "MANUAL_REVIEW" /\ n.bid = r.bid /\ n.filled = Larger(r.filled, g)
  BY ReviewRowFacts
<1> HIDE DEF n
<1>2. /\ r.filled \in 0..Quantity /\ r.submit \in {0, 1} /\ r.cancel \in {0, 1}
      /\ r.resolved \in {0, 1}
  BY DEF Row
<1>3. n.filled <= broker[o].filled /\ n.filled >= r.filled
  BY <1>1, <1>2, QuantityAssumption DEF Larger, TrueAt
<1>4. n.status \notin Unsent \cup BrokerTerminal
      /\ n.status \notin {"SUBMITTING", "CANCEL_PENDING", "ABSENT"}
  BY <1>1 DEF Unsent, PreSubmit, BrokerTerminal
<1>5. Sound(n)
  BY <1>1, <1>4 DEF Sound
<1>6. TrueAt(n, o)
  BY <1>1, <1>3, <1>4 DEF TrueAt
<1>7. RowMoved(r, n) /\ SameFlags(n, r)
  BY <1>1, <1>2, <1>3, <1>4 DEF RowMoved, SameFlags
<1>8. GoodRow(r, n, o)
  BY <1>1, <1>4, <1>5, <1>6, <1>7 DEF GoodRow
<1> QED
  BY <1>8 DEF n

\* Merging a true fact invents nothing: the merged fill is one the broker reported, and
\* a status derived from it (a full fill) is the broker's own (repository.py:432-587).
LEMMA MergeGood ==
  ASSUME NEW e \in Fact0, e.bid = e.order, e.bid \in BrokerId, e.bid # NoId, NEW r \in Row,
         Sound(r), TrueAt(r, e.order), r.status \notin Unsent,
         FactTrue([order |-> e.order, status |-> e.status, filled |-> e.filled]),
         broker[e.order].filled \in 0..Quantity,
         FillFits(broker[e.order].st, broker[e.order].filled)
  PROVE  GoodRow(r, MergedRow(r, e), e.order)
<1> DEFINE n == MergedRow(r, e)
           fill == Larger(r.filled, e.filled)
           o == e.order
<1>0. e.status \in BrokerStatus /\ e.filled \in 0..Quantity /\ e.bid \in BrokerId \cup {NoId}
  BY DEF Fact0
<1>1. /\ n \in Row /\ n.submit = r.submit /\ n.cancel = r.cancel /\ n.resolved = r.resolved
      /\ n.bid = IF r.bid = NoId THEN e.bid ELSE r.bid
      /\ n.status = Aggregated(r.status, Normalized(e.status, fill))
      /\ n.status \in {r.status} \cup BrokerStatus /\ n.filled = fill
  BY <1>0, MergedRowFacts
<1> HIDE DEF n
<1>2. /\ r.filled \in 0..Quantity /\ r.submit \in {0, 1} /\ r.cancel \in {0, 1}
      /\ r.resolved \in {0, 1}
  BY DEF Row
<1>3. /\ broker[o].st \in BrokerStatus /\ e.filled <= broker[o].filled
      /\ e.status \in BrokerTerminal => broker[o].st = e.status /\ e.filled = broker[o].filled
  BY DEF FactTrue
<1>4. fill <= broker[o].filled /\ fill >= r.filled /\ fill >= e.filled /\ fill \in 0..Quantity
  BY <1>0, <1>2, <1>3, QuantityAssumption DEF Larger, TrueAt
<1>5. fill = Quantity => broker[o].st = "FILLED" /\ broker[o].filled = Quantity
  BY <1>3, <1>4, QuantityAssumption DEF FillFits, BrokerStatus, BrokerTerminal
<1> HIDE DEF fill
<1>6. n.status \in BrokerTerminal => broker[o].st = n.status /\ fill = broker[o].filled
  <2>1. CASE r.status \in BrokerTerminal \cup {"MANUAL_REVIEW"}
    <3>1. n.status = r.status
      BY <1>1, <2>1 DEF Aggregated
    <3> QED
      BY <1>2, <1>4, <3>1, QuantityAssumption DEF TrueAt, BrokerTerminal
  <2>2. CASE r.status \notin BrokerTerminal \cup {"MANUAL_REVIEW"}
    <3>1. n.status = r.status \/ n.status = Normalized(e.status, fill)
      BY <1>1 DEF Aggregated
    <3>2. \/ Normalized(e.status, fill) = e.status
          \/ Normalized(e.status, fill) = "PARTIALLY_FILLED"
          \/ Normalized(e.status, fill) = "FILLED" /\ fill = Quantity
      BY DEF Normalized
    <3>3. CASE Normalized(e.status, fill) = e.status
      BY <1>0, <1>3, <1>4, <2>2, <3>1, <3>3, QuantityAssumption
    <3>4. CASE Normalized(e.status, fill) = "PARTIALLY_FILLED"
      BY <2>2, <3>1, <3>4 DEF BrokerTerminal
    <3>5. CASE Normalized(e.status, fill) = "FILLED" /\ fill = Quantity
      BY <1>5, <2>2, <3>1, <3>5
    <3> QED
      BY <3>2, <3>3, <3>4, <3>5
  <2> QED
    BY <2>1, <2>2
<1>7. n.bid = o
  BY <1>1 DEF TrueAt
<1>8. TrueAt(n, o)
  BY <1>1, <1>3, <1>4, <1>6, <1>7 DEF TrueAt
<1>9. /\ n.status \notin Unsent
      /\ n.status \in {"SUBMITTING", "CANCEL_PENDING"} => n.status = r.status
  BY <1>1 DEF Unsent, PreSubmit, BrokerStatus, BrokerTerminal
<1>10. Sound(n)
  BY <1>1, <1>9 DEF Sound
<1>11. r.status \in Terminal => n.status = r.status
  <2>1. r.status \in Terminal => r.status \in BrokerTerminal \cup {"MANUAL_REVIEW"}
    BY DEF Terminal, BrokerTerminal, Unsent, PreSubmit
  <2> QED
    BY <1>1, <2>1 DEF Aggregated
<1>12. RowMoved(r, n) /\ SameFlags(n, r)
  BY <1>1, <1>2, <1>4, <1>9, <1>11 DEF RowMoved, SameFlags, Unsent
<1>13. GoodRow(r, n, o)
  BY <1>1, <1>8, <1>9, <1>10, <1>12 DEF GoodRow
<1> QED
  BY <1>13 DEF n

\* Ingesting evidence about an order changes no other row, and that row only in ways
\* the broker vouches for (evidence.py:58-226).
LEMMA IngestEffect ==
  ASSUME OmsInv, Book, KeysNamed, Rows, NEW e \in Fact0, KeyNamed(e)
  PROVE  /\ \A o \in Order \ {e.order} : IngestRows(orders, keys, e)[o] = orders[o]
         /\ GoodRow(orders[e.order], IngestRows(orders, keys, e)[e.order], e.order)
<1> DEFINE c == e.order
           r == orders[c]
           rows == IngestRows(orders, keys, e)
           Goal == /\ \A o \in Order \ {c} : rows[o] = orders[o]
                   /\ GoodRow(r, rows[c], c)
<1>0. orders \in [Order -> Row]
  BY DEF OmsInv, Types, Tables
<1>1. /\ c \in Order /\ e.filled \in 0..Quantity /\ r \in Row /\ r.status \notin Unsent
      /\ broker[c].filled \in 0..Quantity /\ e.filled <= broker[c].filled
  BY EvidenceSent DEF FactTrue
<1>2. Sound(r) /\ TrueAt(r, c) /\ r.filled \in 0..Quantity /\ r.filled <= broker[c].filled
  BY <1>1 DEF Rows, TrueAt, Row
<1>3. GoodRow(r, MergedRow(r, e), c)
  BY <1>1, <1>2, EvidenceSent, MergeGood
<1>4. GoodRow(r, ReviewRow(r, e.filled), c) /\ GoodRow(r, ReviewRow(r, r.filled), c)
  BY <1>1, <1>2, ReviewGood
<1>5. GoodRow(r, r, c)
  <2>1. /\ r.filled >= r.filled /\ r.submit >= r.submit /\ r.cancel >= r.cancel
        /\ r.resolved >= r.resolved
    BY <1>1, QuantityAssumption DEF Row
  <2> QED
    BY <1>1, <1>2, <2>1 DEF GoodRow, RowMoved, SameFlags
<1>6. \A o \in Order : (\E k \in keys : k.eid = e.eid /\ k.order = o) => o = c
  BY KeyOrder DEF KeysNamed
<1> HIDE DEF c, r
<1>7. \/ rows = orders
      \/ rows = [orders EXCEPT ![c] = MergedRow(r, e)]
      \/ \E g \in {e.filled, r.filled} : rows = [orders EXCEPT ![c] = ReviewRow(r, g)]
      \/ rows = [o \in Order |->
                  IF o = c \/ \E k \in keys : k.eid = e.eid /\ k.order = o
                  THEN ReviewRow(orders[o], orders[o].filled) ELSE orders[o]]
  BY DEF IngestRows, c, r
<1> HIDE DEF rows
<1>8. ASSUME rows = orders PROVE Goal
  BY <1>1, <1>5, <1>8 DEF r
<1>9. ASSUME rows = [orders EXCEPT ![c] = MergedRow(r, e)] PROVE Goal
  BY <1>0, <1>1, <1>3, <1>9
<1>10. ASSUME NEW g \in {e.filled, r.filled}, rows = [orders EXCEPT ![c] = ReviewRow(r, g)]
       PROVE  Goal
  BY <1>0, <1>1, <1>4, <1>10
<1>11. ASSUME rows = [o \in Order |->
                  IF o = c \/ \E k \in keys : k.eid = e.eid /\ k.order = o
                  THEN ReviewRow(orders[o], orders[o].filled) ELSE orders[o]]
       PROVE  Goal
  BY <1>1, <1>4, <1>6, <1>11 DEF r
<1>12. Goal
  BY <1>7, <1>8, <1>9, <1>10, <1>11
<1> QED
  BY <1>12 DEF rows, c, r

\* A transition request on the order in hand that the session may make.
Sane(s, target, resolve) ==
  /\ target = "SUBMITTING" => orders[cur[s]].status = target
  /\ target \in BrokerTerminal => orders[cur[s]].status = target
  /\ target = "CANCEL_PENDING" => orders[cur[s]].cancel = 1
  /\ resolve => orders[cur[s]].cancel = 1

\* A transition changes the row in hand, or the operation ends.
LEMMA WriteEffect ==
  ASSUME OmsInv, NEW s \in Session, NEW target \in Status \cup {"ABSENT"},
         NEW resolve \in BOOLEAN, NEW where, cur[s] \in Order,
         Write(s, target, resolve, where)
  PROVE  /\ \A o \in Order \ {cur[s]} : orders'[o] = orders[o]
         /\ \/ /\ orders'[cur[s]] = TransitionRow(orders[cur[s]], target, resolve)
               /\ Legal(orders[cur[s]].status, target)
               /\ Continue(s, where, target)
               /\ faults' = faults
            \/ /\ orders'[cur[s]] = orders[cur[s]]
               /\ ~Legal(orders[cur[s]].status, target)
               /\ Done(s, "idle")
<1>1. orders \in [Order -> Row]
  BY DEF OmsInv, Types, Tables
<1>2. CASE Legal(orders[cur[s]].status, target)
  <2>1. /\ orders' = [orders EXCEPT ![cur[s]] = TransitionRow(orders[cur[s]], target, resolve)]
        /\ Continue(s, where, target) /\ faults' = faults
    BY <1>2 DEF Write
  <2> QED
    BY <1>1, <1>2, <2>1
<1>3. CASE ~Legal(orders[cur[s]].status, target)
  BY <1>3 DEF Write
<1> QED
  BY <1>2, <1>3

\* The fields of a row that say how it may move and what it says of the broker.
LEMMA TransitionGood ==
  ASSUME NEW row \in Row, Sound(row), NEW o, TrueAt(row, o),
         NEW target \in Status, NEW resolve \in BOOLEAN,
         target = "SUBMITTING" => row.status = target,
         target \in BrokerTerminal => row.status = target,
         target = "CANCEL_PENDING" => row.cancel = 1,
         resolve => row.cancel = 1
  PROVE  LET t == TransitionRow(row, target, resolve)
         IN  t \in Row /\ Sound(t) /\ TrueAt(t, o) /\ RowMoved(row, t)
<1> DEFINE t == TransitionRow(row, target, resolve)
<1>1. /\ t \in Row /\ t.submit = row.submit /\ t.cancel = row.cancel
      /\ t.status \in {row.status, target}
  BY TransitionRowFacts
<1>2. /\ t.bid = row.bid /\ t.filled = row.filled /\ (t.resolved = row.resolved \/ t.resolved = 1)
      /\ row.status \in Terminal => t.status = row.status
  BY TransitionRowParts DEF Moves
<1>3. Sound(t)
  BY TransitionSound
<1>4. row.submit \in {0, 1} /\ row.cancel \in {0, 1} /\ row.resolved \in {0, 1}
      /\ row.filled \in 0..Quantity
  BY DEF Row
<1>5. "ABSENT" \notin Status
  BY DEF Status, PreSubmit, BrokerStatus, BrokerTerminal
<1> HIDE DEF t
<1>6. TrueAt(t, o)
  BY <1>1, <1>2 DEF TrueAt
<1>7. RowMoved(row, t)
  BY <1>1, <1>2, <1>4, <1>5, QuantityAssumption DEF RowMoved
<1>8. t \in Row /\ Sound(t) /\ TrueAt(t, o) /\ RowMoved(row, t)
  BY <1>1, <1>3, <1>6, <1>7
<1> QED
  BY <1>8 DEF t

\* Everything about the threads, the broker and the keys.
Base == OmsInv /\ Positions /\ Book /\ KeysNamed

\* What a step may do to the row of order o.
GoodStep(o) ==
  Sound(orders'[o]) /\ TrueAt(orders'[o], o) /\ RowMoved(orders[o], orders'[o])

\* The rows stay as they are.
LEMMA StillGood ==
  ASSUME OmsInv, Rows, orders' = orders
  PROVE  \A o \in Order : GoodStep(o)
<1> SUFFICES ASSUME NEW o \in Order PROVE GoodStep(o)
  OBVIOUS
<1>1. /\ orders[o].filled \in 0..Quantity /\ orders[o].submit \in {0, 1}
      /\ orders[o].cancel \in {0, 1} /\ orders[o].resolved \in {0, 1}
  BY DEF OmsInv, Types, Tables, Row
<1>2. /\ orders[o].filled >= orders[o].filled /\ orders[o].submit >= orders[o].submit
      /\ orders[o].cancel >= orders[o].cancel /\ orders[o].resolved >= orders[o].resolved
  BY <1>1, QuantityAssumption
<1> QED
  BY <1>2 DEF Rows, GoodStep, RowMoved

\* One row changes, and well.
LEMMA OneGoodRow ==
  ASSUME OmsInv, Rows, NEW c \in Order,
         \A o \in Order \ {c} : orders'[o] = orders[o],
         GoodStep(c)
  PROVE  \A o \in Order : GoodStep(o)
<1>1. ASSUME NEW o \in Order, o # c PROVE GoodStep(o)
  <2>1. /\ orders[o].filled \in 0..Quantity /\ orders[o].submit \in {0, 1}
        /\ orders[o].cancel \in {0, 1} /\ orders[o].resolved \in {0, 1}
    BY DEF OmsInv, Types, Tables, Row
  <2>2. /\ orders[o].filled >= orders[o].filled /\ orders[o].submit >= orders[o].submit
        /\ orders[o].cancel >= orders[o].cancel /\ orders[o].resolved >= orders[o].resolved
    BY <2>1, QuantityAssumption
  <2>3. orders'[o] = orders[o]
    BY <1>1
  <2> QED
    BY <2>2, <2>3 DEF Rows, GoodStep, RowMoved
<1> QED
  BY <1>1

\* A sane request changes the rows well.
LEMMA WriteGood ==
  ASSUME OmsInv, Rows, NEW s \in Session, NEW target \in Status, NEW resolve \in BOOLEAN,
         NEW where, cur[s] \in Order, Write(s, target, resolve, where),
         Sane(s, target, resolve)
  PROVE  \A o \in Order : GoodStep(o)
<1> DEFINE c == cur[s]
<1>1. /\ \A o \in Order \ {c} : orders'[o] = orders[o]
      /\ orders'[c] = orders[c] \/ orders'[c] = TransitionRow(orders[c], target, resolve)
  BY WriteEffect
<1>2. c \in Order /\ orders[c] \in Row /\ Sound(orders[c]) /\ TrueAt(orders[c], c)
  BY DEF OmsInv, Types, Tables, Rows
<1>3. CASE orders'[c] = orders[c]
  <2>1. orders' = orders
    <3>1. orders \in [Order -> Row] /\ orders' \in [Order -> Row]
      <4>1. \/ orders' = orders
            \/ orders' = [orders EXCEPT ![c] = TransitionRow(orders[c], target, resolve)]
        BY DEF Write
      <4>2. TransitionRow(orders[c], target, resolve) \in Row
        BY <1>2, TransitionRowFacts
      <4> QED
        BY <1>2, <4>1, <4>2 DEF OmsInv, Types, Tables
    <3> QED
      BY <1>1, <1>3, <3>1
  <2> QED
    BY <2>1, StillGood
<1>4. CASE orders'[c] = TransitionRow(orders[c], target, resolve)
  <2>1. /\ target = "SUBMITTING" => orders[c].status = target
        /\ target \in BrokerTerminal => orders[c].status = target
        /\ target = "CANCEL_PENDING" => orders[c].cancel = 1
        /\ resolve => orders[c].cancel = 1
    BY DEF Sane
  <2>2. GoodStep(c)
    <3> HIDE DEF c
    <3>1. LET t == TransitionRow(orders[c], target, resolve)
          IN  t \in Row /\ Sound(t) /\ TrueAt(t, c) /\ RowMoved(orders[c], t)
      BY <1>2, <2>1, TransitionGood
    <3> QED
      BY <1>4, <3>1 DEF GoodStep
  <2> QED
    BY <1>1, <1>2, <2>2, OneGoodRow
<1> QED
  BY <1>1, <1>3, <1>4

\* A holder's requests are sane: it knows the row it asks about.
LEMMA SaneRequests ==
  ASSUME Base, Rows, NEW s \in Session, Tracked(s), Held(s)
  PROVE  /\ pc[s] = "ingested" /\ op[s] = "cancel" => Sane(s, seen[s], TRUE)
         /\ pc[s] = "ingested" /\ op[s] = "recover" => Sane(s, orders[cur[s]].status, TRUE)
         /\ pc[s] = "visiting" /\ CancelUnresolved(s)
              => Sane(s, seen[s], TRUE) /\ Sane(s, "CANCEL_PENDING", FALSE)
         /\ pc[s] = "answered" /\ op[s] = "recover"
              => Sane(s, "MANUAL_REVIEW", CancelUnresolved(s))
         /\ \A t \in Status \ (BrokerTerminal \cup {"SUBMITTING", "CANCEL_PENDING"}) :
              Sane(s, t, FALSE)
<1>0. Locals /\ Tables
  BY DEF Base, OmsInv, Types
<1>1. CASE pc[s] = "ingested" /\ op[s] = "cancel"
  <2>1. orders[cur[s]].cancel = 1 /\ orders[cur[s]].status = seen[s]
    BY <1>1 DEF Tracked
  <2> QED
    BY <1>1, <2>1 DEF Sane, BrokerTerminal
<1>2. CASE ~(pc[s] = "ingested" /\ op[s] = "cancel")
  <2>1. pc[s] \in {"ingested", "visiting", "answered"} /\ op[s] = "recover"
          => SameFlags(orders[cur[s]], snap[s][cur[s]]) /\ cur[s] \in Order
    BY <1>0 DEF Tracked, HandTracked, InHand, Locals, Fits
  <2>2. ASSUME pc[s] = "ingested", op[s] = "recover"
        PROVE  Sane(s, orders[cur[s]].status, TRUE)
    <3>1. orders[cur[s]].cancel = 1
      BY <2>1, <2>2 DEF Base, Positions, Positioned, CancelUnresolved, SameFlags
    <3> QED
      BY <3>1 DEF Sane
  <2>3. ASSUME pc[s] = "visiting", CancelUnresolved(s)
        PROVE  Sane(s, seen[s], TRUE) /\ Sane(s, "CANCEL_PENDING", FALSE)
    <3>1. op[s] = "recover"
      BY <1>0, <2>3 DEF Locals, Fits
    <3>2. orders[cur[s]].cancel = 1
      BY <2>1, <2>3, <3>1 DEF CancelUnresolved, SameFlags
    <3>3. orders[cur[s]].status = seen[s]
      BY <2>3, <3>1 DEF Tracked, HandTracked, InHand
    <3> QED
      BY <3>2, <3>3 DEF Sane, BrokerTerminal
  <2>4. ASSUME pc[s] = "answered", op[s] = "recover"
        PROVE  Sane(s, "MANUAL_REVIEW", CancelUnresolved(s))
    <3>1. CancelUnresolved(s) => orders[cur[s]].cancel = 1
      BY <2>1, <2>4 DEF CancelUnresolved, SameFlags
    <3> QED
      BY <3>1 DEF Sane, BrokerTerminal
  <2>5. \A t \in Status \ (BrokerTerminal \cup {"SUBMITTING", "CANCEL_PENDING"}) :
          Sane(s, t, FALSE)
    BY DEF Sane
  <2> QED
    BY <1>2, <2>2, <2>3, <2>4, <2>5
<1> QED
  BY <1>1, <1>2

\* A session that holds the lease is active wherever it writes.
LEMMA HolderTracked ==
  ASSUME Tracking, NEW s \in Session, Held(s), pc[s] \notin {"off", "closed"}
  PROVE  Active(s) /\ Tracked(s)
  BY DEF Tracking, Active, Held

\* create_intent and the two reservations change the row well (repository.py:91-254).
LEMMA CommandGood ==
  ASSUME Base, Rows, NEW s \in Session, NEW o \in Order,
         CreateIntent(s, o) \/ PrepareCancel(s, o) \/ PrepareSubmit(s)
  PROVE  \A p \in Order : GoodStep(p)
<1>0. OmsInv /\ Locals /\ orders \in [Order -> Row]
  BY DEF Base, OmsInv, Types, Tables
<1>1. CASE CreateIntent(s, o)
  <2> DEFINE n == [AbsentRow EXCEPT !.status = "CREATED"]
  <2>1. /\ n.status = "CREATED" /\ n.bid = NoId /\ n.filled = 0
        /\ n.submit = 0 /\ n.cancel = 0 /\ n.resolved = 0
    BY DEF AbsentRow
  <2> HIDE DEF n
  <2>2. orders' = [orders EXCEPT ![o] = n] /\ orders[o].status = "ABSENT"
    BY <1>1 DEF CreateIntent, n
  <2>3. orders'[o] = n /\ \A p \in Order \ {o} : orders'[p] = orders[p]
    BY <1>0, <2>2
  <2>4. /\ orders[o].submit = 0 /\ orders[o].cancel = 0 /\ orders[o].resolved = 0
        /\ orders[o].filled = 0 /\ orders[o].bid = NoId
    <3>1. Sound(orders[o]) /\ orders[o].resolved \in {0, 1}
      BY <1>0 DEF Rows, Row
    <3> QED
      BY <2>2, <3>1 DEF Sound, Unsent
  <2>5. broker[o].filled \in 0..Quantity
    BY <1>0 DEF OmsInv, Types, BrokerBook
  <2>6. Sound(n) /\ TrueAt(n, o) /\ RowMoved(orders[o], n)
    BY <2>1, <2>2, <2>4, <2>5, QuantityAssumption
       DEF Sound, Unsent, TrueAt, BrokerTerminal, RowMoved, Terminal
  <2> QED
    BY <1>0, <2>3, <2>6, OneGoodRow DEF GoodStep
<1>2. CASE PrepareCancel(s, o)
  <2>1. /\ orders' = [orders EXCEPT ![o].status = "CANCEL_PENDING", ![o].cancel = 1,
                                    ![o].resolved = 0]
        /\ orders[o].cancel = 0 /\ orders[o] \in Row
        /\ Moves(orders[o].status, "CANCEL_PENDING")
    BY <1>0, <1>2 DEF PrepareCancel, CanReserve
  <2>2. /\ orders'[o].status = "CANCEL_PENDING" /\ orders'[o].cancel = 1
        /\ orders'[o].resolved = 0
        /\ orders'[o].submit = orders[o].submit /\ orders'[o].filled = orders[o].filled
        /\ orders'[o].bid = orders[o].bid
        /\ \A p \in Order \ {o} : orders'[p] = orders[p]
    BY <1>0, <2>1 DEF Row
  <2>3. /\ Sound(orders[o]) /\ TrueAt(orders[o], o) /\ orders[o].resolved \in {0, 1}
        /\ orders[o].submit \in {0, 1} /\ orders[o].filled \in 0..Quantity
    BY <2>1 DEF Rows, Row
  <2>4. orders[o].resolved = 0
    BY <2>1, <2>3 DEF Sound
  <2>5. Sound(orders'[o])
    BY <2>2, <2>3 DEF Sound, Unsent, PreSubmit
  <2>6. TrueAt(orders'[o], o)
    BY <2>2, <2>3 DEF TrueAt, BrokerTerminal
  <2>7. RowMoved(orders[o], orders'[o])
    BY <2>1, <2>2, <2>3, <2>4, QuantityAssumption DEF RowMoved, Moves
  <2> QED
    BY <1>0, <2>2, <2>5, <2>6, <2>7, OneGoodRow DEF GoodStep
<1>3. CASE PrepareSubmit(s) /\ orders' = orders
  BY <1>0, <1>3, StillGood
<1>4. CASE PrepareSubmit(s) /\ orders' # orders
  <2> DEFINE c == cur[s]
  <2>0. c \in Order
    BY <1>0, <1>4 DEF PrepareSubmit, Locals, Fits
  <2>1. /\ orders' = [orders EXCEPT ![c].status = "SUBMITTING", ![c].submit = 1]
        /\ orders[c].submit = 0 /\ Moves(orders[c].status, "SUBMITTING")
    BY <1>4 DEF PrepareSubmit, CanReserve
  <2> HIDE DEF c
  <2>2. orders[c] \in Row /\ Sound(orders[c]) /\ TrueAt(orders[c], c)
    BY <1>0, <2>0 DEF Rows
  <2>3. /\ orders'[c].status = "SUBMITTING" /\ orders'[c].submit = 1
        /\ orders'[c].resolved = orders[c].resolved
        /\ orders'[c].cancel = orders[c].cancel /\ orders'[c].filled = orders[c].filled
        /\ orders'[c].bid = orders[c].bid
        /\ \A p \in Order \ {c} : orders'[p] = orders[p]
    BY <1>0, <2>0, <2>1, <2>2 DEF Row
  <2>4. /\ orders[c].resolved \in {0, 1}
        /\ orders[c].cancel \in {0, 1} /\ orders[c].filled \in 0..Quantity
    BY <2>2 DEF Row
  <2>5. Sound(orders'[c])
    BY <2>2, <2>3 DEF Sound, Unsent, PreSubmit
  <2>6. TrueAt(orders'[c], c)
    BY <2>2, <2>3 DEF TrueAt, BrokerTerminal
  <2>7. RowMoved(orders[c], orders'[c])
    BY <2>1, <2>3, <2>4, QuantityAssumption DEF RowMoved, Moves
  <2> QED
    BY <1>0, <2>0, <2>3, <2>5, <2>6, <2>7, OneGoodRow DEF GoodStep
<1> QED
  BY <1>1, <1>2, <1>3, <1>4

\* Ingesting changes the row well.
LEMMA IngestGood ==
  ASSUME Base, Rows, NEW s \in Session, NEW e \in Fact0, KeyNamed(e), Ingest(s, e)
  PROVE  \A o \in Order : GoodStep(o)
<1>1. OmsInv /\ Book /\ KeysNamed /\ orders' = IngestRows(orders, keys, e)
  BY DEF Base, Ingest
<1>2. /\ \A o \in Order \ {e.order} : orders'[o] = orders[o]
      /\ GoodRow(orders[e.order], orders'[e.order], e.order)
  BY <1>1, IngestEffect
<1>3. e.order \in Order
  BY DEF Fact0
<1> QED
  BY <1>1, <1>2, <1>3, OneGoodRow DEF GoodStep, GoodRow

\* Every step of a session changes every row well: it takes nothing back, and says
\* nothing of the broker that the broker did not (service.py:129-473).
LEMMA SessionGood ==
  ASSUME Base, Rows, Tracking, NEW s \in Session, SessionStep(s)
  PROVE  \A o \in Order : GoodStep(o)
<1>0. OmsInv /\ Locals /\ Tables
  BY DEF Base, OmsInv, Types
<1>1. CASE orders' = orders
  BY <1>0, <1>1, StillGood
<1>2. CASE Start(s) \/ Close(s) \/ Crash(s) \/ Renew(s) \/ StartRecovery(s) \/ QueryFails(s)
           \/ Query(s) \/ Visit(s) \/ FinishRecovery(s) \/ Fenced(s) \/ AssertBeforeCall(s)
           \/ CallDriver(s)
  BY <1>1, <1>2 DEF Start, Close, Crash, Renew, StartRecovery, QueryFails, Query, Visit,
       FinishRecovery, Fenced, AssertBeforeCall, CallDriver, durable
<1>3. CASE \E o \in Order : CreateIntent(s, o) \/ PrepareCancel(s, o)
  BY <1>3, CommandGood
<1>4. CASE PrepareSubmit(s)
  <2>1. cur[s] \in Order
    BY <1>0, <1>4 DEF PrepareSubmit, Locals, Fits
  <2> QED
    BY <1>4, <2>1, CommandGood
<1>5. CASE \E f \in emitted : Callback(s, f)
  BY <1>5, EvidenceNamed, EvidenceTypes, IngestGood DEF Callback, Base
<1>6. CASE RecordRiskDecision(s) \/ PersistUnknown(s) \/ BeginReconciling(s)
  <2>1. PICK target \in {"RISK_ACCEPTED", "RISK_REJECTED", "UNKNOWN", "RECONCILING"},
             where \in Pc : Write(s, target, FALSE, where)
    BY <1>6 DEF RecordRiskDecision, PersistUnknown, BeginReconciling, Pc
  <2>2. cur[s] \in Order /\ pc[s] \notin {"off", "closed"}
    BY <1>0, <1>6 DEF RecordRiskDecision, PersistUnknown, BeginReconciling, Locals, Fits
  <2>3. Held(s)
    BY <2>1, WriteShape
  <2>4. target \in Status \ (BrokerTerminal \cup {"SUBMITTING", "CANCEL_PENDING"})
    BY DEF Status, PreSubmit, BrokerTerminal
  <2>5. Sane(s, target, FALSE)
    BY <2>2, <2>3, <2>4, SaneRequests, HolderTracked
  <2> QED
    BY <1>0, <2>1, <2>2, <2>4, <2>5, WriteGood
<1>7. CASE AbortOrphan(s) \/ Classify(s)
  <2>1. cur[s] \in Order /\ pc[s] = "visiting"
    BY <1>0, <1>7 DEF AbortOrphan, Classify, Locals, Fits
  <2>2. \/ orders' = orders
        \/ \E target \in {"ABORTED", "UNKNOWN", "RECONCILING"}, where \in Pc :
              Write(s, target, FALSE, where)
        \/ CancelUnresolved(s) /\ Write(s, "CANCEL_PENDING", FALSE, "visiting")
    BY <1>7 DEF AbortOrphan, Classify, RecoveryFails, durable, Pc
  <2>3. ASSUME NEW target \in {"ABORTED", "UNKNOWN", "RECONCILING"}, NEW where \in Pc,
               Write(s, target, FALSE, where)
        PROVE  \A o \in Order : GoodStep(o)
    <3>1. Held(s)
      BY <2>3, WriteShape
    <3>2. target \in Status \ (BrokerTerminal \cup {"SUBMITTING", "CANCEL_PENDING"})
      BY DEF Status, PreSubmit, BrokerTerminal
    <3>3. Sane(s, target, FALSE)
      BY <2>1, <3>1, <3>2, SaneRequests, HolderTracked
    <3> QED
      BY <1>0, <2>1, <2>3, <3>2, <3>3, WriteGood
  <2>4. ASSUME CancelUnresolved(s), Write(s, "CANCEL_PENDING", FALSE, "visiting")
        PROVE  \A o \in Order : GoodStep(o)
    <3>1. Held(s)
      BY <2>4, WriteShape
    <3>2. Sane(s, "CANCEL_PENDING", FALSE)
      BY <2>1, <2>4, <3>1, SaneRequests, HolderTracked
    <3>3. "CANCEL_PENDING" \in Status
      BY DEF Status
    <3> QED
      BY <1>0, <2>1, <2>4, <3>2, <3>3, WriteGood
  <2> QED
    BY <1>1, <2>2, <2>3, <2>4
<1>8. CASE ResolveCancel(s) \/ CancelAlreadyTerminal(s)
  <2>1. /\ cur[s] \in Order /\ \E where : Write(s, seen[s], TRUE, where)
        /\ \/ pc[s] = "ingested" /\ op[s] = "cancel"
           \/ pc[s] = "visiting" /\ CancelUnresolved(s)
    BY <1>0, <1>8 DEF ResolveCancel, CancelAlreadyTerminal, Locals, Fits
  <2>2. PICK where : Write(s, seen[s], TRUE, where)
    BY <2>1
  <2>3. Held(s) /\ pc[s] \notin {"off", "closed"}
    BY <2>1, <2>2, WriteShape
  <2>4. Sane(s, seen[s], TRUE)
    BY <2>1, <2>3, SaneRequests, HolderTracked
  <2>5. seen[s] \in Status
    <3>1. orders[cur[s]].status = seen[s] /\ orders[cur[s]].cancel = 1
      <4>1. Tracked(s) /\ (op[s] = "recover" => SameFlags(orders[cur[s]], snap[s][cur[s]]))
        BY <1>0, <2>1, <2>3, HolderTracked DEF Tracked, InHand, HandTracked
      <4>2. pc[s] = "visiting" => op[s] = "recover"
        BY <1>0 DEF Locals, Fits
      <4> QED
        BY <2>1, <4>1, <4>2 DEF Tracked, InHand, HandTracked, SameFlags, CancelUnresolved
    <3>2. orders[cur[s]].status \in Status
      BY <1>0, <2>1, <3>1 DEF Rows, Sound, Unsent, Tables, Row
    <3> QED
      BY <3>1, <3>2
  <2> QED
    BY <1>0, <2>1, <2>2, <2>4, <2>5, WriteGood
<1>9. CASE RecoveryResolvesCancel(s)
  <2>1. /\ cur[s] \in Order /\ pc[s] = "ingested" /\ op[s] = "recover"
        /\ Write(s, orders[cur[s]].status, TRUE, "next")
    BY <1>0, <1>9 DEF RecoveryResolvesCancel, Locals, Fits
  <2>2. Held(s)
    BY <2>1, WriteShape
  <2>3. Sane(s, orders[cur[s]].status, TRUE)
    BY <2>1, <2>2, SaneRequests, HolderTracked
  <2>4. orders[cur[s]].status \in Status
    <3>1. orders[cur[s]].cancel = 1
      BY <2>3 DEF Sane
    <3> QED
      BY <1>0, <2>1, <3>1 DEF Rows, Sound, Unsent, Tables, Row
  <2> QED
    BY <1>0, <2>1, <2>3, <2>4, WriteGood
<1>10. CASE ApplyAnswer(s) \/ ApplyRecoveryAnswer(s)
  <2>0. pc[s] = "answered" /\ cur[s] \in Order
    BY <1>0, <1>10 DEF ApplyAnswer, ApplyRecoveryAnswer, Locals, Fits
  <2>1. CASE reply[s] # NoReply
    <3>1. QueryEvidence(s) \in Fact0 /\ KeyNamed(QueryEvidence(s))
      BY <1>0, <2>0, <2>1, EvidenceTypes, EvidenceNamed DEF Base
    <3>2. Ingest(s, QueryEvidence(s))
      BY <1>10, <2>1 DEF ApplyAnswer, ApplyRecoveryAnswer
    <3> QED
      BY <3>1, <3>2, IngestGood
  <2>2. CASE reply[s] = NoReply /\ op[s] # "recover"
    BY <1>1, <1>10, <2>2 DEF ApplyAnswer, ApplyRecoveryAnswer, durable
  <2>3. CASE reply[s] = NoReply /\ op[s] = "recover"
    <3>1. Write(s, "MANUAL_REVIEW", CancelUnresolved(s), "next")
      BY <1>10, <2>3 DEF ApplyAnswer, ApplyRecoveryAnswer
    <3>2. Held(s)
      BY <3>1, WriteShape
    <3>3. Sane(s, "MANUAL_REVIEW", CancelUnresolved(s)) /\ CancelUnresolved(s) \in BOOLEAN
      BY <2>0, <2>3, <3>2, SaneRequests, HolderTracked DEF CancelUnresolved
    <3>4. "MANUAL_REVIEW" \in Status
      BY DEF Status
    <3> QED
      BY <1>0, <2>0, <3>1, <3>3, <3>4, WriteGood
  <2> QED
    BY <2>1, <2>2, <2>3
<1> QED
  BY <1>2, <1>3, <1>4, <1>5, <1>6, <1>7, <1>8, <1>9, <1>10 DEF SessionStep, Step

\* The empty row is sound.
LEMMA BlankSound == \A o \in Order : Sound(BlankSnap[o])
  BY DEF BlankSnap, AbsentRow, Sound

\* What recover() read stays sound: it is a copy of the rows.
LEMMA SnapSound ==
  ASSUME OmsInv, Rows, NEW s \in Session, SessionStep(s)
  PROVE  \A q \in Session : \A o \in Order : Sound(snap'[q][o])
<1>0. Locals
  BY DEF OmsInv, Types
<1>1. ASSUME NEW q \in Session \ {s}, NEW o \in Order PROVE Sound(snap'[q][o])
  BY <1>1, OthersKept DEF SameLocals, Rows
<1>2. snap'[s] \in {snap[s], BlankSnap, orders}
  <2>1. CASE Start(s) \/ Renew(s) \/ StartRecovery(s) \/ Query(s) \/ Visit(s)
             \/ \E o \in Order : CreateIntent(s, o) \/ PrepareCancel(s, o)
    BY <1>0, <2>1 DEF Start, Renew, StartRecovery, Query, Visit, CreateIntent, PrepareCancel,
                      progress, Locals
  <2>2. CASE Close(s) \/ Crash(s)
    BY <1>0, <2>2, DoneEffect DEF Close, Crash
  <2>3. CASE \E f \in emitted : Callback(s, f)
    BY <2>3 DEF Callback
  <2>4. CASE Step(s) \/ QueryFails(s)
    BY <1>0, <2>1, <2>4, StepShapes, DoneEffect, GotoEffect
  <2> QED
    BY <2>1, <2>2, <2>3, <2>4 DEF SessionStep
<1>3. ASSUME NEW o \in Order PROVE Sound(snap'[s][o])
  BY <1>2, BlankSound DEF Rows
<1> QED
  BY <1>1, <1>3

\* The rows stay sound and true.
LEMMA RowsStep == Base /\ Rows /\ Tracking /\ [Next]_vars => Rows'
<1> SUFFICES ASSUME Base, Rows, Tracking, [Next]_vars PROVE Rows'
  OBVIOUS
<1>0. OmsInv /\ Book /\ Book' /\ Locals /\ BrokerBook /\ Tables
  BY BookStep DEF Base, OmsInv, Types
<1>1. ASSUME NEW s \in Session, SessionStep(s) PROVE Rows'
  <2>1. \A o \in Order : Sound(orders'[o]) /\ TrueAt(orders'[o], o)
    BY <1>1, SessionGood DEF GoodStep
  <2>2. \A o \in Order : TrueAt(orders[o], o)'
    <3>1. CASE UNCHANGED brokerVars
      BY <2>1, <3>1 DEF TrueAt, brokerVars
    <3>2. CASE CallDriver(s) /\ op[s] # "submit"
      BY <2>1, <3>2 DEF TrueAt, CallDriver
    <3>3. CASE CallDriver(s) /\ op[s] = "submit"
      <4> DEFINE c == cur[s]
      <4>1. c \in Order /\ broker' = [broker EXCEPT ![c] =
                              [broker[c] EXCEPT !.st = IF broker[c].st = "NONE" THEN "SENT"
                                                       ELSE broker[c].st]]
        BY <1>0, <3>3 DEF CallDriver, Locals, Fits
      <4> HIDE DEF c
      <4>2. \A o \in Order : /\ broker'[o].filled = broker[o].filled
                             /\ broker[o].st # "NONE" => broker'[o].st = broker[o].st
        BY <1>0, <4>1 DEF BrokerBook
      <4>3. "NONE" \notin BrokerStatus /\ "NONE" \notin BrokerTerminal
        BY DEF BrokerStatus, BrokerTerminal
      <4> QED
        BY <2>1, <4>2, <4>3 DEF TrueAt
    <3> QED
      BY <1>1, <3>1, <3>2, <3>3, BrokerKept
  <2> QED
    BY <1>0, <1>1, <2>1, <2>2, SnapSound DEF Rows
<1>2. CASE BrokerStep
  <2>1. PICK p \in Order : BrokerAnswers(p) \/ BrokerFills(p) \/ BrokerCancels(p)
    BY <1>2 DEF BrokerStep
  <2>2. /\ broker[p].filled \in 0..Quantity /\ FillFits(broker[p].st, broker[p].filled)
        /\ broker[p].st \in {"SENT", "ACKNOWLEDGED", "PARTIALLY_FILLED"}
    BY <1>0, <2>1 DEF BrokerBook, Book, BrokerAnswers, BrokerFills, BrokerCancels
  <2>3. \E st \in BrokerStatus, n \in 0..Quantity : Publish(p, st, n) /\ broker[p].filled <= n
    <3>1. CASE BrokerAnswers(p)
      <4>1. broker[p].filled = 0
        BY <2>2, <3>1 DEF BrokerAnswers, FillFits
      <4>2. \E st \in {"ACKNOWLEDGED", "REJECTED"} : Publish(p, st, 0)
        BY <3>1 DEF BrokerAnswers
      <4> QED
        BY <4>1, <4>2, QuantityAssumption DEF BrokerStatus, BrokerTerminal
    <3>2. CASE BrokerFills(p)
      BY <2>2, <3>2, QuantityAssumption DEF BrokerFills, BrokerStatus, BrokerTerminal
    <3>3. CASE BrokerCancels(p)
      BY <2>2, <3>3 DEF BrokerCancels, BrokerStatus, BrokerTerminal
    <3> QED
      BY <2>1, <3>1, <3>2, <3>3
  <2>4. PICK st \in BrokerStatus, n \in 0..Quantity : Publish(p, st, n) /\ broker[p].filled <= n
    BY <2>3
  <2>5. /\ broker' = [broker EXCEPT ![p] = [st |-> st, filled |-> n]]
        /\ UNCHANGED <<orders, snap>>
    BY <2>4 DEF Publish, durable, progress
  <2>6. /\ broker'[p].st = st /\ broker'[p].filled = n
        /\ \A o \in Order \ {p} : broker'[o] = broker[o]
    BY <1>0, <2>5 DEF BrokerBook
  <2>7. TrueAt(orders[p], p)'
    <3>1. TrueAt(orders[p], p) /\ orders[p].filled \in 0..Quantity
      BY <1>0 DEF Rows, Tables, Row
    <3>2. orders[p].status \notin BrokerTerminal
      BY <2>2, <3>1 DEF TrueAt, BrokerTerminal
    <3>3. orders[p].filled <= n
      BY <2>2, <2>4, <3>1, QuantityAssumption DEF TrueAt
    <3> QED
      BY <2>5, <2>6, <3>1, <3>2, <3>3 DEF TrueAt
  <2>8. \A o \in Order \ {p} : TrueAt(orders[o], o)'
    BY <2>5, <2>6 DEF Rows, TrueAt
  <2> QED
    BY <2>5, <2>7, <2>8 DEF Rows
<1>3. CASE Expire \/ UNCHANGED vars
  <2>1. UNCHANGED <<orders, snap, broker>>
    BY <1>3 DEF Expire, vars, durable, progress, brokerVars
  <2> QED
    BY <2>1 DEF Rows, TrueAt
<1> QED
  BY <1>1, <1>2, <1>3, NextCases

\* Whoever changes a row holds the lease (service.py:89-93).
LEMMA WritersHold ==
  ASSUME NEW s \in Session, SessionStep(s)
  PROVE  Held(s) \/ UNCHANGED <<orders, keys, writer>>
<1>1. CASE Start(s) \/ Close(s) \/ Crash(s) \/ Renew(s) \/ StartRecovery(s) \/ QueryFails(s)
           \/ \E o \in Order : CreateIntent(s, o) \/ PrepareCancel(s, o)
  BY <1>1 DEF Start, Close, Crash, Renew, StartRecovery, QueryFails, CreateIntent,
              PrepareCancel, Guard, durable
<1>2. CASE \E f \in emitted : Callback(s, f)
  BY <1>2 DEF Callback, Ingest, Guard
<1>3. CASE Step(s)
  BY <1>3, WriteShape
     DEF Step, RecordRiskDecision, PrepareSubmit, AssertBeforeCall, CallDriver, PersistUnknown,
         BeginReconciling, Query, ApplyAnswer, ResolveCancel, Visit, AbortOrphan, Classify,
         CancelAlreadyTerminal, ApplyRecoveryAnswer, RecoveryResolvesCancel, FinishRecovery,
         Fenced, Ingest, RecoveryFails, Guard, durable
<1> QED
  BY <1>1, <1>2, <1>3 DEF SessionStep

\* The lease moves by acquire(), release() and the heartbeat (leader.py:54-200).
LEMMA LeaseMoves ==
  ASSUME NEW s \in Session, SessionStep(s)
  PROVE  Start(s) \/ Close(s) \/ Renew(s) \/ UNCHANGED <<holder, lease>>
<1>1. CASE Crash(s) \/ StartRecovery(s) \/ QueryFails(s)
           \/ \E o \in Order : CreateIntent(s, o) \/ PrepareCancel(s, o)
  BY <1>1 DEF Crash, StartRecovery, QueryFails, CreateIntent, PrepareCancel, leaseVars
<1>2. CASE \E f \in emitted : Callback(s, f)
  BY <1>2 DEF Callback, Ingest, leaseVars
<1>3. CASE Step(s)
  BY <1>3, WriteShape
     DEF Step, RecordRiskDecision, PrepareSubmit, AssertBeforeCall, CallDriver, PersistUnknown,
         BeginReconciling, Query, ApplyAnswer, ResolveCancel, Visit, AbortOrphan, Classify,
         CancelAlreadyTerminal, ApplyRecoveryAnswer, RecoveryResolvesCancel, FinishRecovery,
         Fenced, Ingest, RecoveryFails, leaseVars
<1> QED
  BY <1>1, <1>2, <1>3 DEF SessionStep

\* A session arrives at the top of recover()'s loop with the lease in hand.
LEMMA NextByHolder ==
  ASSUME OmsInv, NEW s \in Session, SessionStep(s), pc'[s] = "next"
  PROVE  Held(s) \/ (pc[s] = "next" /\ UNCHANGED <<holder, pc>>)
<1>0. Locals
  BY DEF OmsInv, Types
<1>1. CASE Start(s) \/ Query(s) \/ Visit(s) \/ StartRecovery(s) \/ Renew(s)
           \/ \E o \in Order : CreateIntent(s, o) \/ PrepareCancel(s, o)
  BY <1>0, <1>1 DEF Start, Query, Visit, StartRecovery, Renew, CreateIntent, PrepareCancel,
                    Guard, progress, Locals
<1>2. CASE Close(s) \/ Crash(s) \/ Fenced(s) \/ QueryFails(s) \/ FinishRecovery(s)
  BY <1>0, <1>2, DoneEffect DEF Close, Crash, Fenced, QueryFails, FinishRecovery
<1>3. CASE \E f \in emitted : Callback(s, f)
  BY <1>3 DEF Callback, Ingest, Guard
<1>4. CASE PrepareSubmit(s) \/ AssertBeforeCall(s) \/ ApplyAnswer(s)
           \/ ApplyRecoveryAnswer(s)
  BY <1>4, WriteShape DEF PrepareSubmit, AssertBeforeCall, ApplyAnswer, ApplyRecoveryAnswer,
       Ingest, Guard
<1>6. CASE CallDriver(s)
  BY <1>0, <1>6, GotoEffect DEF CallDriver
<1>7. CASE AbortOrphan(s) \/ Classify(s)
  <2>1. CASE RecoveryFails(s)
    BY <1>0, <2>1, DoneEffect DEF RecoveryFails
  <2> QED
    BY <1>7, <2>1, WriteShape DEF AbortOrphan, Classify
<1>5. CASE RecordRiskDecision(s) \/ PersistUnknown(s) \/ BeginReconciling(s)
           \/ ResolveCancel(s) \/ RecoveryResolvesCancel(s) \/ CancelAlreadyTerminal(s)
  BY <1>5, WriteShape DEF RecordRiskDecision, PersistUnknown, BeginReconciling,
       ResolveCancel, RecoveryResolvesCancel, CancelAlreadyTerminal
<1> QED
  BY <1>1, <1>2, <1>3, <1>4, <1>5, <1>6, <1>7 DEF SessionStep, Step

\* A session that is no longer active never is again: only the first acquire() makes
\* a session active (leader.py:54-142).
LEMMA ActiveMoves ==
  ASSUME OmsInv, NEW s \in Session, SessionStep(s)
  PROVE  /\ \A q \in Session \ {s} : Active(q)' => Active(q)
         /\ Active(s)' => Active(s) \/ Start(s)
<1>0. Locals /\ LeaseOK
  BY DEF OmsInv, Types
<1>1. ASSUME NEW q \in Session \ {s}, Active(q)' PROVE Active(q)
  <2>1. SameLocals(q)
    BY OthersKept
  <2>2. Start(s) \/ Renew(s) => holder' = s
    BY DEF Start, Renew
  <2>3. ~Start(s) /\ ~Renew(s)
    BY <1>1, <2>2 DEF Active
  <2>4. Close(s) => holder' = NoSession \/ UNCHANGED <<holder, lease>>
    BY DEF Close, leaseVars
  <2>5. UNCHANGED <<holder, lease>>
    BY <1>1, <2>3, <2>4, LeaseMoves, OmsAssumption DEF Active
  <2> QED
    BY <1>1, <2>1, <2>5 DEF Active, SameLocals
<1>2. ASSUME Active(s)', ~Start(s) PROVE Active(s)
  <2>1. pc[s] \notin {"off", "closed"}
    BY <1>2 DEF SessionStep, Step, Close, Crash, Renew, StartRecovery, QueryFails, AtQuery,
         CreateIntent, PrepareCancel, Ready, Callback, RecordRiskDecision, PrepareSubmit,
         AssertBeforeCall, CallDriver, PersistUnknown, BeginReconciling, Query, ApplyAnswer,
         ResolveCancel, Visit, AbortOrphan, Classify, CancelAlreadyTerminal,
         ApplyRecoveryAnswer, RecoveryResolvesCancel, FinishRecovery, Fenced
  <2>2. CASE Close(s)
    BY <1>0, <1>2, <2>2, DoneEffect DEF Close, Active
  <2>3. CASE Renew(s)
    BY <2>3 DEF Renew, Active
  <2>4. CASE UNCHANGED <<holder, lease>>
    <3>1. CASE pc'[s] = "next"
      BY <1>2, <2>1, <2>4, <3>1, NextByHolder DEF Active, Held
    <3>2. CASE pc'[s] # "next"
      BY <1>2, <2>1, <2>4, <3>2 DEF Active
    <3> QED
      BY <3>1, <3>2
  <2> QED
    BY <1>2, <2>2, <2>3, <2>4, LeaseMoves
<1> QED
  BY <1>1, <1>2

\* Nothing to track outside an operation.
LEMMA IdleTracked ==
  ASSUME NEW s \in Session, op'[s] = "none", todo'[s] = {}
  PROVE  Tracked(s)'
  BY DEF Tracked, InHand

\* Back at the top of recover()'s loop.
LEMMA NextTracked ==
  ASSUME OmsInv, NEW s \in Session, Tracked(s), op[s] = "recover", NEW status,
         Goto(s, "next", status), \A o \in todo[s] : orders'[o] = orders[o]
  PROVE  Tracked(s)'
<1>1. /\ pc'[s] = "next" /\ UNCHANGED <<op, cur, todo, snap>>
  BY GotoEffect DEF OmsInv, Types
<1> QED
  BY <1>1 DEF Tracked, InHand

\* A request made inside submit or cancel leaves the row where the next step expects it.
LEMMA CommandTracked ==
  ASSUME Base, NEW s \in Session, Tracked(s), op[s] \in {"submit", "cancel"},
         pc[s] \in {"created", "authorized", "returned", "failed", "unknown"},
         NEW target \in Status, NEW where \in Pc, Write(s, target, FALSE, where),
         where # "idle" => /\ Moves(orders[cur[s]].status, target)
                           /\ Expected(where, op[s], target) /\ where # "ingested"
  PROVE  Tracked(s)'
<1>0. OmsInv /\ Locals /\ orders \in [Order -> Row] /\ cur[s] \in Order /\ todo[s] = {}
  BY DEF Base, OmsInv, Types, Tables, Locals, Fits, Positions, Positioned
<1>1. CASE Done(s, "idle")
  BY <1>0, <1>1, DoneEffect, IdleTracked
<1>2. CASE where # "idle" /\ Goto(s, where, target) /\ ~Done(s, "idle")
  <2>1. pc'[s] = where /\ UNCHANGED <<op, cur, todo, snap>>
    BY <1>0, <1>2, GotoEffect
  <2>2. orders'[cur[s]] = TransitionRow(orders[cur[s]], target, FALSE)
    BY <1>0, <1>2, WriteEffect
  <2>3. /\ orders'[cur[s]].status = target /\ orders'[cur[s]].cancel = orders[cur[s]].cancel
    <3>1. orders[cur[s]] \in Row
      BY <1>0
    <3>2. orders'[cur[s]] = [orders[cur[s]] EXCEPT !.status = target]
      BY <1>2, <2>2, <3>1, MovedRow
    <3> QED
      BY <3>1, <3>2 DEF Row
  <2> QED
    BY <1>0, <1>2, <2>1, <2>3 DEF Tracked, InHand
<1> QED
  BY <1>1, <1>2, WriteShape

\* One of recovery's requests walks the row in hand on, and recovery notes it.
LEMMA WalkTracked ==
  ASSUME Base, NEW s \in Session, Tracked(s), pc[s] = "visiting",
         NEW target \in {"UNKNOWN", "RECONCILING", "CANCEL_PENDING"},
         Write(s, target, FALSE, "visiting"), Moves(orders[cur[s]].status, target)
  PROVE  Tracked(s)'
<1>0. /\ OmsInv /\ Locals /\ orders \in [Order -> Row] /\ cur[s] \in Order
      /\ op[s] = "recover" /\ target \in Status /\ InHand(s)
  BY DEF Base, OmsInv, Types, Tables, Locals, Fits, Status, InHand
<1>1. CASE Done(s, "idle")
  BY <1>0, <1>1, DoneEffect, IdleTracked
<1>2. CASE Goto(s, "visiting", target) /\ ~Done(s, "idle")
  <2> DEFINE c == cur[s]
  <2>1. pc'[s] = "visiting" /\ seen'[s] = target /\ UNCHANGED <<op, cur, todo, snap>>
    BY <1>0, <1>2, GotoEffect
  <2>2. /\ orders'[c] = TransitionRow(orders[c], target, FALSE)
        /\ \A o \in Order \ {c} : orders'[o] = orders[o]
    BY <1>0, <1>2, WriteEffect
  <2>3. orders[c] \in Row
    BY <1>0
  <2> HIDE DEF c
  <2>4. /\ orders'[c].status = target /\ orders'[c].cancel = orders[c].cancel
        /\ orders'[c].submit = orders[c].submit /\ orders'[c].resolved = orders[c].resolved
    <3>1. orders'[c] = [orders[c] EXCEPT !.status = target]
      BY <2>2, <2>3, MovedRow DEF c
    <3> QED
      BY <2>3, <3>1 DEF Row
  <2>5. cur[s] = c /\ SameFlags(orders[c], snap[s][c])
    BY <1>0 DEF c, Tracked, HandTracked
  <2>6. HandTracked(s)'
    BY <2>1, <2>4, <2>5 DEF HandTracked, SameFlags, RecoveryCandidate
  <2>7. \A o \in todo'[s] : orders'[o] = orders[o]
    BY <1>0, <2>1, <2>2, <2>5 DEF Base, Positions, Positioned, Locals
  <2> QED
    BY <1>0, <2>1, <2>6, <2>7 DEF Tracked, InHand
<1> QED
  BY <1>1, <1>2, WriteShape

\* Recovery's last request on the row in hand.
LEMMA SettleTracked ==
  ASSUME Base, NEW s \in Session, Tracked(s), InHand(s), NEW target \in Status \cup {"ABSENT"},
         NEW resolve \in BOOLEAN, Write(s, target, resolve, "next")
  PROVE  Tracked(s)'
<1>0. OmsInv /\ Locals /\ cur[s] \in Order /\ op[s] = "recover" /\ cur[s] \notin todo[s]
      /\ todo[s] \subseteq Order
  BY DEF Base, OmsInv, Types, Locals, Fits, InHand, Positions, Positioned
<1>1. \A o \in todo[s] : orders'[o] = orders[o]
  BY <1>0, WriteEffect
<1>2. CASE Done(s, "idle")
  BY <1>0, <1>2, DoneEffect, IdleTracked
<1>3. CASE Goto(s, "next", target)
  BY <1>0, <1>1, <1>3, NextTracked
<1> QED
  BY <1>2, <1>3, WriteShape

\* The statuses the requests of submit, cancel and recovery start from.
LEMMA Walks ==
  /\ Moves("CREATED", "RISK_ACCEPTED") /\ Moves("SUBMITTING", "UNKNOWN")
  /\ Moves("CANCEL_PENDING", "UNKNOWN") /\ Moves("UNKNOWN", "RECONCILING")
  /\ Moves("ACKNOWLEDGED", "CANCEL_PENDING") /\ Moves("PARTIALLY_FILLED", "CANCEL_PENDING")
  /\ Moves("RECONCILING", "MANUAL_REVIEW")
  /\ Moves("CREATED", "ABORTED") /\ Moves("RISK_ACCEPTED", "ABORTED")
  /\ Moves("RISK_ACCEPTED", "SUBMITTING") /\ Moves("CREATED", "RISK_REJECTED")
  BY DEF Moves, Allowed, Terminal, BrokerStatus

\* Starting an operation, or a step of submit or cancel (service.py:339-473).
LEMMA OperationTracked ==
  ASSUME Base, Rows, NEW s \in Session, Tracked(s),
         \/ RecordRiskDecision(s) \/ PrepareSubmit(s) \/ AssertBeforeCall(s) \/ CallDriver(s)
         \/ PersistUnknown(s) \/ BeginReconciling(s) \/ ResolveCancel(s)
         \/ \E o \in Order : CreateIntent(s, o) \/ PrepareCancel(s, o)
  PROVE  Tracked(s)'
<1>0. OmsInv /\ Locals /\ orders \in [Order -> Row] /\ Positioned(s)
  BY DEF Base, OmsInv, Types, Tables, Positions
<1>1. CASE RecordRiskDecision(s)
  <2>1. pc[s] = "created" /\ op[s] = "submit" /\ orders[cur[s]].status = "CREATED"
    BY <1>0, <1>1 DEF RecordRiskDecision, Locals, Fits, Tracked, Expected
  <2>2. \/ Write(s, "RISK_ACCEPTED", FALSE, "authorized")
        \/ Write(s, "RISK_REJECTED", FALSE, "idle")
    BY <1>1 DEF RecordRiskDecision
  <2>3. /\ "RISK_ACCEPTED" \in Status /\ "RISK_REJECTED" \in Status
        /\ "authorized" \in Pc /\ "idle" \in Pc /\ Expected("authorized", op[s], "RISK_ACCEPTED")
    BY DEF Status, PreSubmit, Pc, Expected
  <2> QED
    BY <2>1, <2>2, <2>3, Walks, CommandTracked
<1>2. CASE PersistUnknown(s)
  <2>1. /\ pc[s] \in {"returned", "failed"} /\ op[s] \in {"submit", "cancel"}
        /\ orders[cur[s]].status \in {"SUBMITTING", "CANCEL_PENDING"}
    BY <1>0, <1>2 DEF PersistUnknown, Locals, Fits, Tracked, Expected
  <2>2. Write(s, "UNKNOWN", FALSE, "idle") \/ Write(s, "UNKNOWN", FALSE, "unknown")
    BY <1>2 DEF PersistUnknown
  <2>3. /\ "UNKNOWN" \in Status /\ "unknown" \in Pc /\ "idle" \in Pc
        /\ Expected("unknown", op[s], "UNKNOWN")
    BY DEF Status, Pc, Expected
  <2> QED
    BY <2>1, <2>2, <2>3, Walks, CommandTracked
<1>3. CASE BeginReconciling(s)
  <2>1. /\ pc[s] = "unknown" /\ op[s] \in {"submit", "cancel"}
        /\ orders[cur[s]].status = "UNKNOWN"
    BY <1>0, <1>3 DEF BeginReconciling, Locals, Fits, Tracked, Expected
  <2>2. Write(s, "RECONCILING", FALSE, "reconciling")
    BY <1>3 DEF BeginReconciling
  <2>3. /\ "RECONCILING" \in Status /\ "reconciling" \in Pc
        /\ Expected("reconciling", op[s], "RECONCILING")
    BY DEF Status, Pc, Expected
  <2> QED
    BY <2>1, <2>2, <2>3, Walks, CommandTracked
<1>4. CASE ResolveCancel(s)
  <2>1. Done(s, "idle")
    BY <1>4 DEF ResolveCancel, Write, Continue
  <2> QED
    BY <1>0, <2>1, DoneEffect, IdleTracked
<1>5. CASE AssertBeforeCall(s) \/ CallDriver(s)
  <2>1. PICK where \in {"armed", "returned", "failed"} : Goto(s, where, seen[s])
    BY <1>5 DEF AssertBeforeCall, CallDriver
  <2>2. pc'[s] = where /\ UNCHANGED <<op, cur, todo, snap>>
    BY <1>0, <2>1, GotoEffect
  <2>3. orders' = orders /\ pc[s] \in {"reserved", "armed"} /\ op[s] \in {"submit", "cancel"}
    BY <1>0, <1>5 DEF AssertBeforeCall, CallDriver, durable, Locals, Fits
  <2> QED
    BY <2>2, <2>3 DEF Tracked, Expected, InHand
<1>6. CASE PrepareSubmit(s)
  <2>1. CASE Done(s, "idle")
    BY <1>0, <2>1, DoneEffect, IdleTracked
  <2>2. CASE ~Done(s, "idle")
    <3>1. /\ orders' = [orders EXCEPT ![cur[s]].status = "SUBMITTING", ![cur[s]].submit = 1]
          /\ Goto(s, "reserved", "SUBMITTING") /\ op[s] = "submit" /\ cur[s] \in Order
      BY <1>0, <1>6, <2>2 DEF PrepareSubmit, Locals, Fits
    <3>2. pc'[s] = "reserved" /\ UNCHANGED <<op, cur, todo, snap>>
      BY <1>0, <3>1, GotoEffect
    <3>3. orders'[cur[s]].status = "SUBMITTING"
      BY <1>0, <3>1 DEF Row
    <3> QED
      BY <1>0, <3>1, <3>2, <3>3 DEF Tracked, Expected, InHand, Positioned
  <2> QED
    BY <2>1, <2>2
<1>7. ASSUME NEW o \in Order, CreateIntent(s, o) PROVE Tracked(s)'
  <2>1. /\ pc'[s] = "created" /\ op'[s] = "submit" /\ cur'[s] = o /\ todo'[s] = {}
    BY <1>0, <1>7 DEF CreateIntent, Ready, Positioned, Locals
  <2>2. orders'[o].status = "CREATED"
    BY <1>0, <1>7 DEF CreateIntent, AbsentRow
  <2> QED
    BY <2>1, <2>2 DEF Tracked, Expected, InHand
<1>8. ASSUME NEW o \in Order, PrepareCancel(s, o) PROVE Tracked(s)'
  <2>1. /\ pc'[s] = "reserved" /\ op'[s] = "cancel" /\ cur'[s] = o /\ todo'[s] = {}
    BY <1>0, <1>8 DEF PrepareCancel, Ready, Positioned, Locals
  <2>2. orders'[o].status = "CANCEL_PENDING" /\ orders'[o].cancel = 1
    <3>1. orders' = [orders EXCEPT ![o].status = "CANCEL_PENDING", ![o].cancel = 1,
                                   ![o].resolved = 0]
      BY <1>8 DEF PrepareCancel
    <3>2. orders[o] \in Row
      BY <1>0
    <3> QED
      BY <1>0, <3>1, <3>2 DEF Row
  <2> QED
    BY <2>1, <2>2 DEF Tracked, Expected, InHand
<1> QED
  BY <1>1, <1>2, <1>3, <1>4, <1>5, <1>6, <1>7, <1>8

\* recover() and its loop (service.py:176-302).
LEMMA RecoveryTracked ==
  ASSUME Base, Rows, NEW s \in Session, Tracked(s),
         \/ StartRecovery(s) \/ Visit(s) \/ Query(s) \/ AbortOrphan(s) \/ Classify(s)
         \/ CancelAlreadyTerminal(s) \/ RecoveryResolvesCancel(s)
  PROVE  Tracked(s)'
<1>0. OmsInv /\ Locals /\ orders \in [Order -> Row] /\ Positioned(s)
  BY DEF Base, OmsInv, Types, Tables, Positions
<1>1. CASE StartRecovery(s)
  <2>1. /\ pc'[s] = "next" /\ op'[s] = "recover" /\ snap'[s] = orders /\ orders' = orders
        /\ todo'[s] = {o \in Order : RecoveryCandidate(orders[o])}
    BY <1>0, <1>1 DEF StartRecovery, Locals, durable
  <2> QED
    BY <2>1 DEF Tracked, InHand
<1>2. CASE Visit(s)
  <2>1. PICK o \in todo[s] : /\ cur' = [cur EXCEPT ![s] = o]
                             /\ seen' = [seen EXCEPT ![s] = snap[s][o].status]
                             /\ todo' = [todo EXCEPT ![s] = @ \ {o}]
    BY <1>2 DEF Visit
  <2>2. /\ cur'[s] = o /\ seen'[s] = snap[s][o].status /\ todo'[s] = todo[s] \ {o}
        /\ pc'[s] = "visiting" /\ op'[s] = "recover" /\ snap' = snap /\ orders' = orders
    BY <1>0, <1>2, <2>1 DEF Visit, Locals, Fits, durable
  <2>3. snap[s][o] = orders[o] /\ RecoveryCandidate(orders[o])
    BY DEF Tracked
  <2>4. HandTracked(s)'
    BY <2>2, <2>3 DEF HandTracked, SameFlags
  <2> QED
    BY <2>2, <2>4 DEF Tracked, InHand
<1>3. CASE Query(s)
  <2>1. /\ pc'[s] = "answered" /\ UNCHANGED <<op, cur, seen, todo, snap, orders>> /\ AtQuery(s)
    BY <1>0, <1>3 DEF Query, Locals, durable
  <2>2. CASE pc[s] = "reconciling"
    <3>1. op[s] \in {"submit", "cancel"}
      BY <1>0, <2>2 DEF Locals, Fits
    <3> QED
      BY <2>1, <2>2, <3>1 DEF Tracked, Expected, InHand
  <2>3. CASE pc[s] = "visiting"
    <3>1. op[s] = "recover" /\ HandTracked(s)
      BY <1>0, <2>3 DEF Locals, Fits, Tracked, InHand
    <3>2. \/ seen[s] = "RECONCILING"
          \/ seen[s] = "MANUAL_REVIEW" /\ CancelUnresolved(s)
      BY <2>1, <2>3, <3>1 DEF AtQuery, HandTracked, RecoveryCandidate, CancelUnresolved,
                              SameFlags
    <3>3. HandTracked(s)'
      BY <2>1, <2>3, <3>1, <3>2 DEF HandTracked, CancelUnresolved
    <3> QED
      BY <2>1, <3>1, <3>3 DEF Tracked, InHand
  <2> QED
    BY <2>1, <2>2, <2>3 DEF AtQuery
<1>4. CASE AbortOrphan(s)
  <2>1. InHand(s)
    BY <1>0, <1>4 DEF AbortOrphan, InHand, Locals, Fits
  <2>2. CASE RecoveryFails(s)
    BY <1>0, <2>2, DoneEffect, IdleTracked DEF RecoveryFails
  <2>3. CASE Write(s, "ABORTED", FALSE, "next")
    BY <2>1, <2>3, SettleTracked DEF Status, PreSubmit
  <2> QED
    BY <1>4, <2>2, <2>3 DEF AbortOrphan
<1>5. CASE Classify(s)
  <2>1. /\ pc[s] = "visiting" /\ orders[cur[s]].status = seen[s]
    BY <1>0, <1>5 DEF Classify, InHand, Locals, Fits, Tracked, HandTracked
  <2>2. CASE RecoveryFails(s)
    BY <1>0, <2>2, DoneEffect, IdleTracked DEF RecoveryFails
  <2>3. CASE seen[s] \in {"SUBMITTING", "CANCEL_PENDING"} /\ Write(s, "UNKNOWN", FALSE, "visiting")
    BY <2>1, <2>3, Walks, WalkTracked
  <2>4. CASE seen[s] \in {"ACKNOWLEDGED", "PARTIALLY_FILLED"}
             /\ Write(s, "CANCEL_PENDING", FALSE, "visiting")
    BY <2>1, <2>4, Walks, WalkTracked
  <2>5. CASE seen[s] = "UNKNOWN" /\ Write(s, "RECONCILING", FALSE, "visiting")
    BY <2>1, <2>5, Walks, WalkTracked
  <2> QED
    BY <1>5, <2>2, <2>3, <2>4, <2>5 DEF Classify
<1>6. CASE CancelAlreadyTerminal(s)
  <2>1. InHand(s) /\ Write(s, seen[s], TRUE, "next") /\ seen[s] \in Status \cup {"ABSENT"}
    BY <1>0, <1>6 DEF CancelAlreadyTerminal, InHand, Locals, Fits
  <2> QED
    BY <2>1, SettleTracked
<1>7. CASE RecoveryResolvesCancel(s)
  <2>1. /\ InHand(s) /\ cur[s] \in Order /\ Write(s, orders[cur[s]].status, TRUE, "next")
    BY <1>0, <1>7 DEF RecoveryResolvesCancel, InHand, Locals, Fits
  <2>2. orders[cur[s]].status \in Status \cup {"ABSENT"}
    BY <1>0, <2>1 DEF Row
  <2> QED
    BY <2>1, <2>2, SettleTracked
<1> QED
  BY <1>1, <1>2, <1>3, <1>4, <1>5, <1>6, <1>7

\* The answers and the callbacks (service.py:129-132, 277-297, 397-409, 458-465).
LEMMA EvidenceTracked ==
  ASSUME Base, Rows, NEW s \in Session, Tracked(s),
         \/ ApplyAnswer(s) \/ ApplyRecoveryAnswer(s) \/ \E f \in emitted : Callback(s, f)
  PROVE  Tracked(s)'
<1>0. OmsInv /\ Locals /\ orders \in [Order -> Row] /\ Positioned(s) /\ Book /\ KeysNamed
  BY DEF Base, OmsInv, Types, Tables, Positions
<1>1. CASE \E f \in emitted : Callback(s, f)
  BY <1>0, <1>1, IdleTracked DEF Callback, Positioned
<1>2. CASE Done(s, "idle")
  BY <1>0, <1>2, DoneEffect, IdleTracked
<1>3. CASE (ApplyAnswer(s) \/ ApplyRecoveryAnswer(s)) /\ reply[s] # NoReply /\ ~Done(s, "idle")
  <2>1. pc[s] = "answered" /\ cur[s] \in Order /\ op[s] \in {"submit", "cancel", "recover"}
    BY <1>0, <1>3 DEF ApplyAnswer, ApplyRecoveryAnswer, Locals, Fits
  <2>2. /\ Ingest(s, QueryEvidence(s))
        /\ QueryEvidence(s) \in Fact0 /\ KeyNamed(QueryEvidence(s))
        /\ QueryEvidence(s).order = cur[s]
    BY <1>0, <1>3, <2>1, EvidenceTypes, EvidenceNamed
       DEF ApplyAnswer, ApplyRecoveryAnswer, QueryEvidence
  <2>3. /\ \A o \in Order \ {cur[s]} : orders'[o] = orders[o]
        /\ GoodRow(orders[cur[s]], orders'[cur[s]], cur[s])
    BY <1>0, <2>2, IngestEffect DEF Ingest
  <2>4. SameFlags(orders'[cur[s]], orders[cur[s]])
    BY <2>3 DEF GoodRow
  <2>5. CASE op[s] # "recover"
    <3>1. Goto(s, "ingested", orders'[cur[s]].status) /\ op[s] = "cancel"
      BY <1>3, <2>1, <2>5 DEF ApplyAnswer, ApplyRecoveryAnswer
    <3>2. /\ pc'[s] = "ingested" /\ seen'[s] = orders'[cur[s]].status
          /\ UNCHANGED <<op, cur, todo, snap>>
      BY <1>0, <3>1, GotoEffect
    <3> QED
      BY <1>0, <2>4, <3>1, <3>2 DEF Tracked, Expected, InHand, SameFlags, Positioned
  <2>6. CASE op[s] = "recover"
    <3>1. InHand(s) /\ cur[s] \notin todo[s] /\ todo[s] \subseteq Order
      BY <1>0, <2>1, <2>6 DEF InHand, Positioned, Locals
    <3>2. \A o \in todo[s] : orders'[o] = orders[o]
      BY <2>3, <3>1
    <3>3. Goto(s, "next", seen[s]) \/ Goto(s, "ingested", seen[s])
      BY <1>3, <2>6 DEF ApplyAnswer, ApplyRecoveryAnswer
    <3>4. CASE Goto(s, "ingested", seen[s])
      <4>1. pc'[s] = "ingested" /\ UNCHANGED <<op, cur, todo, snap>>
        BY <1>0, <3>4, GotoEffect
      <4>2. HandTracked(s)'
        BY <2>4, <3>1, <4>1 DEF Tracked, HandTracked, SameFlags
      <4> QED
        BY <2>6, <3>2, <4>1, <4>2 DEF Tracked, InHand
    <3> QED
      BY <1>0, <2>6, <3>2, <3>3, <3>4, NextTracked
  <2> QED
    BY <2>5, <2>6
<1>4. CASE (ApplyAnswer(s) \/ ApplyRecoveryAnswer(s)) /\ reply[s] = NoReply /\ ~Done(s, "idle")
  <2>1. /\ InHand(s) /\ Write(s, "MANUAL_REVIEW", CancelUnresolved(s), "next")
        /\ CancelUnresolved(s) \in BOOLEAN
    BY <1>4 DEF ApplyAnswer, ApplyRecoveryAnswer, InHand, CancelUnresolved
  <2> QED
    BY <2>1, SettleTracked DEF Status
<1> QED
  BY <1>1, <1>2, <1>3, <1>4

\* An active session keeps seeing the rows as they are: what it reads before one of its
\* own transactions is still there in the next (service.py:176-473).
LEMMA TrackingStep == Base /\ Rows /\ Tracking /\ [Next]_vars => Tracking'
<1> SUFFICES ASSUME Base, Rows, Tracking, [Next]_vars PROVE Tracking'
  OBVIOUS
<1>0. OmsInv /\ Locals /\ Positions
  BY DEF Base, OmsInv, Types
<1>1. ASSUME NEW s \in Session, SessionStep(s), NEW q \in Session, Active(q)'
      PROVE  Tracked(q)'
  <2>1. CASE q # s
    <3>1. Active(q) /\ SameLocals(q)
      BY <1>0, <1>1, <2>1, ActiveMoves, OthersKept
    <3>2. holder = q
      BY <3>1 DEF Active
    <3>3. orders' = orders
      BY <1>1, <2>1, <3>2, WritersHold DEF Held
    <3>4. Tracked(q)
      BY <3>1 DEF Tracking
    <3> QED
      BY <3>1, <3>3, <3>4 DEF SameLocals, Tracked, HandTracked, InHand, CancelUnresolved
  <2>2. CASE q = s /\ Start(s)
    <3>1. op'[s] = "none" /\ todo'[s] = {}
      BY <1>0, <2>2 DEF Start, Positions, Positioned
    <3> QED
      BY <2>2, <3>1, IdleTracked
  <2>3. CASE q = s /\ ~Start(s)
    <3>1. Tracked(s)
      BY <1>0, <1>1, <2>3, ActiveMoves DEF Tracking
    <3>2. CASE Close(s) \/ Crash(s) \/ Fenced(s) \/ QueryFails(s) \/ FinishRecovery(s)
      <4>1. \E where : Done(s, where)
        BY <3>2 DEF Close, Crash, Fenced, QueryFails, FinishRecovery
      <4> QED
        BY <1>0, <2>3, <4>1, DoneEffect, IdleTracked
    <3>3. CASE Renew(s)
      BY <2>3, <3>1, <3>3 DEF Renew, durable, progress, Tracked, HandTracked, InHand,
                              CancelUnresolved
    <3> QED
      BY <1>1, <2>3, <3>1, <3>2, <3>3, OperationTracked, RecoveryTracked, EvidenceTracked
         DEF SessionStep, Step
  <2> QED
    BY <2>1, <2>2, <2>3
<1>2. CASE BrokerStep \/ Expire \/ UNCHANGED vars
  <2>1. UNCHANGED <<orders, pc, op, cur, seen, todo, snap, holder>> /\ (lease' = lease \/ lease = "live")
    BY <1>2 DEF BrokerStep, BrokerAnswers, BrokerFills, BrokerCancels, Publish, Expire, vars,
                durable, progress, leaseVars
  <2>2. ASSUME NEW q \in Session, Active(q)' PROVE Tracked(q)'
    <3>1. Active(q)
      BY <2>1, <2>2 DEF Active
    <3>2. Tracked(q)
      BY <3>1 DEF Tracking
    <3> QED
      BY <2>1, <3>2 DEF Tracked, HandTracked, InHand, CancelUnresolved
  <2> QED
    BY <2>2 DEF Tracking
<1> QED
  BY <1>1, <1>2, NextCases DEF Tracking

Knowledge == Base /\ Rows /\ Tracking

\* The empty database and idle sessions satisfy the invariant.
LEMMA KnowledgeInit == Init => Knowledge
<1> SUFFICES ASSUME Init PROVE Knowledge
  OBVIOUS
<1>1. Base
  <2>1. OmsInv
    BY InitInv
  <2>2. Positions
    BY DEF Init, Positions, Positioned, InHand
  <2>3. Book
    BY DEF Init, Book, FillFits
  <2>4. KeysNamed
    BY DEF Init, KeysNamed
  <2> QED
    BY <2>1, <2>2, <2>3, <2>4 DEF Base
<1>2. Rows
  BY BlankSound, QuantityAssumption DEF Init, Rows, BlankSnap, Sound, TrueAt, AbsentRow, BrokerTerminal
<1>3. Tracking
  BY DEF Init, Tracking, Active
<1> QED
  BY <1>1, <1>2, <1>3 DEF Knowledge

\* Every step preserves it.
LEMMA KnowledgeStep == Knowledge /\ [Next]_vars => Knowledge'
<1> SUFFICES ASSUME Knowledge, [Next]_vars PROVE Knowledge'
  OBVIOUS
<1>1. Base'
  BY NextInv, PositionsStep, BookStep, KeysStep DEF Knowledge, Base
<1> QED
  BY <1>1, RowsStep, TrackingStep DEF Knowledge

\* What sessions know, what rows and keys say and what the broker published agree in
\* every reachable state.
THEOREM KnowledgeHolds == Spec => []Knowledge
  BY KnowledgeInit, KnowledgeStep, PTL DEF Spec

\* The OMS never believes more than the broker reported, whatever answers come late,
\* callbacks repeat or calls are lost: no invented fill, no terminal status the broker
\* does not have (service.py:357-385, 420-448; repository.py:432-587).
THEOREM NothingInvented == Spec => []BrokerTruth
<1>1. Knowledge => BrokerTruth
  BY DEF Knowledge, Rows, TrueAt, BrokerTruth
<1> QED
  BY <1>1, KnowledgeHolds, PTL

\* While a session holds the lease, the rows recover() read at its start are what the
\* database says about every candidate it has yet to visit (service.py:178-302).
THEOREM SnapshotNeverStale == Spec => []SnapshotCurrent
<1>1. Knowledge => SnapshotCurrent
  <2> SUFFICES ASSUME Knowledge, NEW s \in Session, Held(s), NEW o \in todo[s]
               PROVE  snap[s][o] = orders[o]
    BY DEF SnapshotCurrent
  <2>1. pc[s] \notin {"off", "closed"}
    BY DEF Knowledge, Base, Positions, Positioned
  <2>2. Tracked(s)
    BY <2>1, HolderTracked DEF Knowledge
  <2> QED
    BY <2>2 DEF Tracked
<1> QED
  BY <1>1, KnowledgeHolds, PTL

\* A row never goes back, whoever writes it: fills and reservations only grow, a broker id
\* is never replaced, a closed order is only ever reopened for manual review
\* (repository.py:178-254, 295-318, 432-618).
THEOREM RowsNeverGoBack == Spec => LifecycleMonotone
<1>1. Knowledge /\ [Next]_vars
        => \/ \A o \in Order : RowMoved(orders[o], orders'[o])
           \/ UNCHANGED vars
  <2> SUFFICES ASSUME Knowledge, [Next]_vars, ~UNCHANGED vars
               PROVE  \A o \in Order : RowMoved(orders[o], orders'[o])
    OBVIOUS
  <2>1. ASSUME NEW s \in Session, SessionStep(s)
        PROVE  \A o \in Order : RowMoved(orders[o], orders'[o])
    BY <2>1, SessionGood DEF Knowledge, GoodStep
  <2>2. CASE BrokerStep \/ Expire
    <3>1. orders' = orders
      BY <2>2 DEF BrokerStep, BrokerAnswers, BrokerFills, BrokerCancels, Publish, Expire,
                  durable
    <3> QED
      BY <3>1, StillGood DEF Knowledge, Base, GoodStep
  <2> QED
    BY <2>1, <2>2, NextCases
<1>2. Knowledge /\ [Next]_vars
        => [\A o \in Order :
             /\ orders'[o].filled >= orders[o].filled
             /\ orders'[o].submit >= orders[o].submit
             /\ orders'[o].cancel >= orders[o].cancel
             /\ orders'[o].resolved >= orders[o].resolved
             /\ orders[o].bid # NoId => orders'[o].bid = orders[o].bid
             /\ orders[o].status \in Terminal
                  => orders'[o].status \in {orders[o].status, "MANUAL_REVIEW"}
             /\ orders[o].status # "ABSENT" => orders'[o].status # "ABSENT"]_vars
  BY <1>1 DEF RowMoved
<1> QED
  BY <1>2, KnowledgeHolds, PTL DEF Spec, LifecycleMonotone

(***************************************************************************)
(* Layer 4: what recovery leaves behind.                                   *)
(***************************************************************************)

\* A fact of a broker that does not contradict itself never conflicts with a row that
\* says only what the broker reported (repository.py:432-587).
LEMMA MergeOk ==
  ASSUME Base, Rows, NEW e \in Fact0, KeyNamed(e)
  PROVE  MergeOutcome(orders[e.order], e) = "ok" /\ ~Overfilled(e.filled)
<1> DEFINE o == e.order
           r == orders[o]
           fill == Larger(r.filled, e.filled)
<1>0. /\ o \in Order /\ e.status \in BrokerStatus /\ e.filled \in 0..Quantity /\ e.bid = o
      /\ FactTrue([order |-> o, status |-> e.status, filled |-> e.filled])
      /\ broker[o].filled \in 0..Quantity
      /\ FillFits(broker[o].st, broker[o].filled) /\ r \in Row
  BY EvidenceSent DEF Base
<1>1. TrueAt(r, o) /\ r.filled \in 0..Quantity
  BY <1>0 DEF Rows, Row
<1>2. /\ broker[o].st \in BrokerStatus /\ e.filled <= broker[o].filled
      /\ e.status \in BrokerTerminal => broker[o].st = e.status /\ e.filled = broker[o].filled
      /\ e.status = "PARTIALLY_FILLED" => e.filled > 0
  BY <1>0 DEF FactTrue
<1>3. /\ fill <= broker[o].filled /\ fill >= r.filled /\ fill >= e.filled
      /\ fill \in 0..Quantity
  BY <1>0, <1>1, <1>2, QuantityAssumption DEF Larger, TrueAt
<1>4. fill = Quantity => broker[o].st = "FILLED"
  BY <1>0, <1>2, <1>3, QuantityAssumption DEF FillFits, BrokerStatus, BrokerTerminal
<1> HIDE DEF r, o, fill
<1>5. ~(e.bid # NoId /\ r.bid \notin {NoId, e.bid})
  BY <1>0, <1>1 DEF TrueAt
<1>6. ~TerminalClash(r.status, e.status)
  BY <1>1, <1>2 DEF TerminalClash, TrueAt
<1>7. ~Overfilled(e.filled)
  BY <1>0, QuantityAssumption DEF Overfilled
<1>8. ~FillContradicts(e.status, fill)
  <2>1. e.status = "FILLED" => fill = Quantity
    BY <1>0, <1>2, <1>3, QuantityAssumption DEF FillFits, BrokerTerminal
  <2>2. e.status = "REJECTED" => fill = 0
    BY <1>0, <1>2, <1>3, QuantityAssumption DEF FillFits, BrokerTerminal
  <2>3. e.status = "CANCELLED" => fill # Quantity
    BY <1>2, <1>4 DEF BrokerTerminal
  <2>4. e.status = "PARTIALLY_FILLED" => fill # 0
    BY <1>0, <1>2, <1>3, QuantityAssumption
  <2> QED
    BY <2>1, <2>2, <2>3, <2>4 DEF FillContradicts
<1>9. ~TerminalClash(r.status, Normalized(e.status, fill))
  <2>1. \/ Normalized(e.status, fill) = e.status
        \/ Normalized(e.status, fill) = "PARTIALLY_FILLED"
        \/ Normalized(e.status, fill) = "FILLED" /\ fill = Quantity
    BY DEF Normalized
  <2>2. CASE Normalized(e.status, fill) = e.status
    BY <1>6, <2>2
  <2>3. CASE Normalized(e.status, fill) = "PARTIALLY_FILLED"
    BY <2>3 DEF TerminalClash, BrokerTerminal
  <2>4. CASE Normalized(e.status, fill) = "FILLED" /\ fill = Quantity
    BY <1>1, <1>4, <2>4 DEF TerminalClash, TrueAt
  <2> QED
    BY <2>1, <2>2, <2>3, <2>4
<1>10. ~(r.status \in {"CANCELLED", "REJECTED"} /\ fill > r.filled)
  BY <1>0, <1>1, <1>3, QuantityAssumption DEF TrueAt, BrokerTerminal
<1>11. MergeOutcome(r, e) = "ok"
  BY <1>5, <1>6, <1>7, <1>8, <1>9, <1>10 DEF MergeOutcome, fill
<1> QED
  BY <1>7, <1>11 DEF r, o

\* Every transaction stamps what it changes.
LEMMA Stamped ==
  ASSUME NEW s \in Session, SessionStep(s)
  PROVE  UNCHANGED <<orders, writer>> \/ Stamp(s)
<1>1. CASE Start(s) \/ Close(s) \/ Crash(s) \/ Renew(s) \/ StartRecovery(s) \/ QueryFails(s)
           \/ \E o \in Order : CreateIntent(s, o) \/ PrepareCancel(s, o)
  BY <1>1 DEF Start, Close, Crash, Renew, StartRecovery, QueryFails, CreateIntent,
              PrepareCancel, durable
<1>2. CASE \E f \in emitted : Callback(s, f)
  BY <1>2 DEF Callback, Ingest
<1>3. CASE Step(s)
  BY <1>3
     DEF Step, RecordRiskDecision, PrepareSubmit, AssertBeforeCall, CallDriver, PersistUnknown,
         BeginReconciling, Query, ApplyAnswer, ResolveCancel, Visit, AbortOrphan, Classify,
         CancelAlreadyTerminal, ApplyRecoveryAnswer, RecoveryResolvesCancel, FinishRecovery,
         Fenced, Ingest, RecoveryFails, Write, durable
<1> QED
  BY <1>1, <1>2, <1>3 DEF SessionStep

\* A session's own steps leave its orders its own.
LEMMA MineKept ==
  ASSUME NEW s \in Session, SessionStep(s), NEW o \in Order
  PROVE  Mine(s, o) \/ orders'[o] # orders[o] => Mine(s, o)'
  BY Stamped DEF Mine, Stamp

\* What ingesting can result in here.
LEMMA IngestResults ==
  ASSUME Base, Rows, NEW e \in Fact0, KeyNamed(e)
  PROVE  /\ IngestResult(orders, keys, e) \in {"identity_conflict", "duplicate",
              "conflict_duplicate", "semantic_duplicate", "applied"}
         /\ IngestResult(orders, keys, e) \in {"identity_conflict", "duplicate",
              "conflict_duplicate"} => \E k \in keys : k.eid = e.eid
         /\ IngestResult(orders, keys, e) = "semantic_duplicate"
              => ~Moves(orders[e.order].status, e.status)
<1>1. orders[e.order].status # "ABSENT"
  BY EvidenceSent DEF Base, Unsent
<1> QED
  BY <1>1, MergeOk DEF IngestResult, SemanticDuplicate

\* A row in RECONCILING takes any broker fact.
LEMMA ReconcilingMoves ==
  /\ \A st \in BrokerStatus : Moves("RECONCILING", st)
  /\ \A st \in BrokerStatus : \A fill :
       /\ Normalized(st, fill) \in BrokerStatus
       /\ Aggregated("RECONCILING", Normalized(st, fill)) = Normalized(st, fill)
  BY DEF Moves, Allowed, Terminal, BrokerStatus, BrokerTerminal, Normalized, Aggregated

\* An answer applied to a row in RECONCILING moves it to the broker's status.
LEMMA AppliedMoves ==
  ASSUME Base, Rows, NEW e \in Fact0, KeyNamed(e), NEW s \in Session, Ingest(s, e),
         orders[e.order].status = "RECONCILING",
         ~\E k \in keys : k.eid = e.eid
  PROVE  /\ orders'[e.order].status \in BrokerStatus
         /\ IngestResult(orders, keys, e) = "applied"
<1>0. orders \in [Order -> Row] /\ e.order \in Order /\ e.status \in BrokerStatus
      /\ e.filled \in 0..Quantity /\ e.bid \in BrokerId \cup {NoId}
  BY EvidenceSent DEF Base, OmsInv, Types, Tables
<1>1. IngestResult(orders, keys, e) = "applied"
  BY <1>0, IngestResults, ReconcilingMoves
<1>2. orders' = [orders EXCEPT ![e.order] = MergedRow(orders[e.order], e)]
  BY <1>1 DEF Ingest, IngestRows
<1>3. orders'[e.order] = MergedRow(orders[e.order], e)
  BY <1>0, <1>2
<1>4. MergedRow(orders[e.order], e).status
        = Aggregated("RECONCILING", Normalized(e.status, Larger(orders[e.order].filled, e.filled)))
  BY <1>0, MergedRowFacts
<1>5. MergedRow(orders[e.order], e).status \in BrokerStatus
  BY <1>0, <1>4, ReconcilingMoves
<1> QED
  BY <1>1, <1>3, <1>5

\* No step ends in "off".
LEMMA Leaves ==
  ASSUME OmsInv, NEW s \in Session, SessionStep(s)
  PROVE  pc'[s] # "off"
<1>0. Locals
  BY DEF OmsInv, Types
<1>1. CASE Start(s) \/ Renew(s) \/ StartRecovery(s) \/ Query(s) \/ Visit(s)
  BY <1>0, <1>1 DEF Start, Renew, StartRecovery, Query, Visit, progress, Locals
<1>2. CASE Close(s) \/ Crash(s)
  BY <1>0, <1>2, DoneEffect DEF Close, Crash
<1>3. CASE Step(s) \/ QueryFails(s)
  BY <1>0, <1>1, <1>3, StepShapes, DoneEffect, GotoEffect
<1>4. CASE \E o \in Order : CreateIntent(s, o) \/ PrepareCancel(s, o)
  BY <1>0, <1>4 DEF CreateIntent, PrepareCancel, Locals
<1>5. CASE \E f \in emitted : Callback(s, f)
  BY <1>0, <1>5 DEF Callback, Locals
<1> QED
  BY <1>1, <1>2, <1>3, <1>4, <1>5 DEF SessionStep

\* A new key carries the event id of the session that ingests, or a callback's
\* (service.py:129-132, 160).
LEMMA KeysAdded ==
  ASSUME OmsInv, NEW s \in Session, SessionStep(s), NEW k \in keys', k \notin keys
  PROVE  \/ /\ ApplyAnswer(s) \/ ApplyRecoveryAnswer(s)
            /\ pc[s] = "answered" /\ reply[s] # NoReply /\ Ingest(s, QueryEvidence(s))
            /\ k.eid = <<s, op[s], cur[s]>>
         \/ \E f \in emitted : k.eid = <<"callback", f.order, f.status, f.filled>>
<1>1. ASSUME NEW e, Ingest(s, e) PROVE k.eid = e.eid
  <2>1. keys' \subseteq keys \cup {WithAccepted(e, 0), WithAccepted(e, 1)}
    BY <1>1 DEF Ingest, IngestKeys
  <2> QED
    BY <2>1 DEF WithAccepted
<1>2. CASE Start(s) \/ Close(s) \/ Crash(s) \/ Renew(s) \/ StartRecovery(s) \/ QueryFails(s)
           \/ \E o \in Order : CreateIntent(s, o) \/ PrepareCancel(s, o)
  BY <1>2 DEF Start, Close, Crash, Renew, StartRecovery, QueryFails, CreateIntent,
              PrepareCancel, durable
<1>3. CASE \E f \in emitted : Callback(s, f)
  BY <1>1, <1>3 DEF Callback, CallbackEvidence
<1>4. CASE ApplyAnswer(s) \/ ApplyRecoveryAnswer(s)
  <2>1. pc[s] = "answered" /\ reply[s] # NoReply /\ Ingest(s, QueryEvidence(s))
    BY <1>4, WriteShape DEF ApplyAnswer, ApplyRecoveryAnswer, durable
  <2>2. k.eid = <<s, op[s], cur[s]>>
    BY <1>1, <2>1 DEF QueryEvidence
  <2> QED
    BY <1>4, <2>1, <2>2
<1>5. CASE Step(s)
  BY <1>4, <1>5, WriteShape
     DEF Step, RecordRiskDecision, PrepareSubmit, AssertBeforeCall, CallDriver, PersistUnknown,
         BeginReconciling, Query, ResolveCancel, Visit, AbortOrphan, Classify,
         CancelAlreadyTerminal, RecoveryResolvesCancel, FinishRecovery,
         Fenced, RecoveryFails, durable
<1> QED
  BY <1>2, <1>3, <1>4, <1>5 DEF SessionStep

\* A session that has not started has left nothing in the database.
Unstarted ==
  \A s \in Session : pc[s] = "off" =>
    /\ s \notin reconciled
    /\ \A k \in keys : \A kind, o : k.eid # <<s, kind, o>>

\* Only Start leaves "off", and nobody writes a key for another session.
LEMMA UnstartedStep == OmsInv /\ Unstarted /\ [Next]_vars => Unstarted'
<1> SUFFICES ASSUME OmsInv, Unstarted, [Next]_vars PROVE Unstarted'
  OBVIOUS
<1>1. ASSUME NEW s \in Session, SessionStep(s), NEW q \in Session, pc'[q] = "off"
      PROVE  /\ q \notin reconciled'
             /\ \A k \in keys' : \A kind, o : k.eid # <<q, kind, o>>
  <2>1. pc'[s] # "off"
    BY <1>1, Leaves
  <2>2. q # s
    BY <1>1, <2>1
  <2>3. pc[q] = "off"
    BY <1>1, <2>2, OthersKept DEF SameLocals
  <2>4. q \notin reconciled'
    BY <1>1, <2>2, <2>3, ReconciledMoves DEF Unstarted
  <2>5. ASSUME NEW k \in keys', k \notin keys, NEW kind, NEW o PROVE k.eid # <<q, kind, o>>
    <3>1. \/ k.eid = <<s, op[s], cur[s]>>
          \/ \E f \in emitted : k.eid = <<"callback", f.order, f.status, f.filled>>
      BY <1>1, <2>5, KeysAdded
    <3>2. CASE k.eid = <<s, op[s], cur[s]>>
      BY <2>2, <3>2
    <3>3. CASE \E f \in emitted : k.eid = <<"callback", f.order, f.status, f.filled>>
      BY <3>3
    <3> QED
      BY <3>1, <3>2, <3>3
  <2>6. ASSUME NEW k \in keys, NEW kind, NEW o PROVE k.eid # <<q, kind, o>>
    BY <2>3, <2>6 DEF Unstarted
  <2> QED
    BY <2>4, <2>5, <2>6
<1>2. CASE BrokerStep \/ Expire \/ UNCHANGED vars
  <2>1. UNCHANGED <<pc, keys, reconciled>>
    BY <1>2 DEF BrokerStep, BrokerAnswers, BrokerFills, BrokerCancels, Publish, Expire, vars,
                durable, progress
  <2> QED
    BY <2>1, Zenon DEF Unstarted
<1> QED
  BY <1>1, <1>2, NextCases DEF Unstarted

\* A write that sets cancel_outcome_resolved, or moves the status, changes the row.
LEMMA WriteChanges ==
  ASSUME OmsInv, NEW s \in Session, NEW target \in Status \cup {"ABSENT"},
         NEW resolve \in BOOLEAN, NEW where, cur[s] \in Order,
         Write(s, target, resolve, where), Legal(orders[cur[s]].status, target),
         \/ resolve /\ orders[cur[s]].resolved = 0
         \/ Moves(orders[cur[s]].status, target)
  PROVE  orders'[cur[s]] # orders[cur[s]]
<1>1. orders[cur[s]] \in Row
  BY DEF OmsInv, Types, Tables
<1>2. orders'[cur[s]] = TransitionRow(orders[cur[s]], target, resolve)
  BY WriteEffect
<1>3. CASE resolve /\ orders[cur[s]].resolved = 0
  <2>1. TransitionRow(orders[cur[s]], target, resolve).resolved = 1
    BY <1>1, <1>3, TransitionRowParts
  <2>2. 1 # 0
    OBVIOUS
  <2> QED
    BY <1>2, <1>3, <2>1, <2>2, Zenon
<1>4. CASE Moves(orders[cur[s]].status, target)
  <2>1. TransitionRow(orders[cur[s]], target, resolve).status = target
    BY <1>1, <1>4, TransitionRowParts
  <2> QED
    BY <1>2, <1>4, <2>1 DEF Moves
<1> QED
  BY <1>3, <1>4

\* recover() settles the cancel it queried for: the row changes (service.py:286-297).
LEMMA IngestedLeft ==
  ASSUME Base, Rows, NEW s \in Session, Tracked(s), RecoveryResolvesCancel(s), NEW o, o = cur[s]
  PROVE  Mine(s, o)'
<1>0. OmsInv /\ cur[s] \in Order /\ orders[cur[s]] \in Row /\ InHand(s) /\ Positioned(s)
  BY DEF Base, OmsInv, Types, Tables, Locals, Fits, RecoveryResolvesCancel, InHand, Positions
<1>1. orders[cur[s]].resolved = 0
  BY <1>0 DEF RecoveryResolvesCancel, Positioned, CancelUnresolved, Tracked, HandTracked,
              SameFlags
<1>2. /\ Write(s, orders[cur[s]].status, TRUE, "next")
      /\ Legal(orders[cur[s]].status, orders[cur[s]].status)
      /\ orders[cur[s]].status \in Status \cup {"ABSENT"}
  BY <1>0 DEF RecoveryResolvesCancel, Legal, Row
<1>3. orders'[cur[s]] # orders[cur[s]]
  BY <1>0, <1>1, <1>2, WriteChanges
<1>4. SessionStep(s)
  BY DEF SessionStep, Step
<1> QED
  BY <1>0, <1>3, <1>4, MineKept

\* A session leaves a candidate only after its own transaction on the row, or with the
\* row no longer ambiguous (service.py:189-297).
LEMMA HandLeft ==
  ASSUME Base, Rows, NEW s \in Session, SessionStep(s), Tracked(s), Settled(s), InHand(s),
         pc'[s] = "next", NEW o, o = cur[s]
  PROVE  Mine(s, o)'
<1>0. /\ OmsInv /\ Locals /\ cur[s] \in Order /\ orders[cur[s]] \in Row /\ Positioned(s)
      /\ HandTracked(s) /\ Book /\ KeysNamed
      /\ pc[s] \in {"visiting", "answered", "ingested"} /\ op[s] = "recover"
  BY DEF Base, OmsInv, Types, Tables, Locals, Fits, InHand, Positions, Tracked
<1>1. ASSUME orders'[cur[s]] # orders[cur[s]] PROVE Mine(s, o)'
  BY <1>0, <1>1, MineKept
<1>2. ASSUME NEW target, NEW resolve, Write(s, target, resolve, "next")
      PROVE  Legal(orders[cur[s]].status, target)
  <2>1. ~Done(s, "idle")
    BY <1>0, DoneEffect
  <2> QED
    BY <1>2, <2>1 DEF Write
<1>3. CancelUnresolved(s) => orders[cur[s]].resolved = 0
  BY <1>0 DEF CancelUnresolved, HandTracked, SameFlags
<1>4. CASE AbortOrphan(s)
  <2>1. ~RecoveryFails(s)
    BY <1>0, DoneEffect DEF RecoveryFails
  <2>2. Write(s, "ABORTED", FALSE, "next") /\ Moves(orders[cur[s]].status, "ABORTED")
    BY <1>0, <1>4, <2>1, Walks DEF AbortOrphan, HandTracked
  <2>3. "ABORTED" \in Status
    BY DEF Status, PreSubmit
  <2> QED
    BY <1>0, <1>1, <1>2, <2>2, <2>3, WriteChanges
<1>5. CASE CancelAlreadyTerminal(s)
  <2>1. /\ Write(s, seen[s], TRUE, "next") /\ seen[s] \in Status \cup {"ABSENT"}
        /\ orders[cur[s]].resolved = 0
    BY <1>0, <1>3, <1>5 DEF CancelAlreadyTerminal, Locals
  <2> QED
    BY <1>0, <1>1, <1>2, <2>1, WriteChanges
<1>6. CASE RecoveryResolvesCancel(s)
  BY <1>6, IngestedLeft
<1>7. CASE ApplyRecoveryAnswer(s) /\ reply[s] = NoReply
  <2>1. /\ Write(s, "MANUAL_REVIEW", CancelUnresolved(s), "next")
        /\ CancelUnresolved(s) \in BOOLEAN /\ pc[s] = "answered"
        /\ "MANUAL_REVIEW" \in Status
    BY <1>7 DEF ApplyRecoveryAnswer, CancelUnresolved, Status
  <2>2. CancelUnresolved(s) \/ Moves(orders[cur[s]].status, "MANUAL_REVIEW")
    BY <1>0, <2>1, Walks DEF HandTracked
  <2> QED
    BY <1>0, <1>1, <1>2, <1>3, <2>1, <2>2, WriteChanges
<1>8. CASE ApplyRecoveryAnswer(s) /\ reply[s] # NoReply
  <2> DEFINE e == QueryEvidence(s)
  <2>1. pc[s] = "answered" /\ Ingest(s, e)
    BY <1>8 DEF ApplyRecoveryAnswer
  <2>2. e \in Fact0 /\ KeyNamed(e) /\ e.order = cur[s] /\ e.eid = <<s, "recover", cur[s]>>
    BY <1>0, <1>8, <2>1, EvidenceTypes, EvidenceNamed DEF QueryEvidence
  <2>3. ~CancelUnresolved(s)
    <3>1. ~Done(s, "idle") /\ \A status : ~Goto(s, "ingested", status)
      BY <1>0, DoneEffect, GotoEffect
    <3> QED
      BY <1>8, <3>1 DEF ApplyRecoveryAnswer
  <2>4. orders[cur[s]].status = "RECONCILING"
    BY <1>0, <2>1, <2>3 DEF HandTracked
  <2> HIDE DEF e
  <2>5. CASE \E k \in keys : k.eid = e.eid
    <3>1. Mine(s, o)
      BY <1>0, <2>1, <2>2, <2>5 DEF Settled
    <3> QED
      BY <1>0, <3>1, MineKept
  <2>6. CASE ~\E k \in keys : k.eid = e.eid
    <3>1. orders'[cur[s]].status \in BrokerStatus
      BY <2>1, <2>2, <2>4, <2>6, AppliedMoves
    <3> QED
      BY <1>1, <2>4, <3>1 DEF BrokerStatus, BrokerTerminal
  <2> QED
    BY <2>5, <2>6
<1>9. CASE Classify(s)
  <2>1. ~RecoveryFails(s)
    BY <1>0, DoneEffect DEF RecoveryFails
  <2>2. PICK target : Write(s, target, FALSE, "visiting")
    BY <1>9, <2>1 DEF Classify
  <2>3. Done(s, "idle") \/ Goto(s, "visiting", target)
    BY <2>2, WriteShape
  <2> QED
    BY <1>0, <2>3, DoneEffect, GotoEffect
<1>10. CASE Query(s) \/ QueryFails(s) \/ Crash(s) \/ Fenced(s)
  BY <1>0, <1>10, DoneEffect DEF Query, QueryFails, Crash, Fenced, Locals
<1> QED
  BY <1>0, <1>4, <1>5, <1>6, <1>7, <1>8, <1>9, <1>10
     DEF SessionStep, Step, Start, Close, Renew, StartRecovery, CreateIntent, PrepareCancel,
         Ready, Callback, RecordRiskDecision, PrepareSubmit, AssertBeforeCall, CallDriver,
         PersistUnknown, BeginReconciling, ApplyAnswer, ResolveCancel, Visit, FinishRecovery

\* How a session comes to be inside recover(): it starts, takes the next candidate, or
\* works on with the list and the candidate it has.
LEMMA RecoverMoves ==
  ASSUME OmsInv, NEW s \in Session, Positioned(s), SessionStep(s), op'[s] = "recover"
  PROVE  \/ StartRecovery(s)
         \/ Visit(s) /\ op[s] = "recover"
         \/ /\ op[s] = "recover" /\ todo'[s] = todo[s] /\ cur'[s] = cur[s]
            /\ InHand(s)' => InHand(s)
<1>0. Locals
  BY DEF OmsInv, Types
<1>1. CASE Start(s) \/ Close(s) \/ Crash(s) \/ QueryFails(s)
           \/ (\E o \in Order : CreateIntent(s, o) \/ PrepareCancel(s, o))
           \/ \E f \in emitted : Callback(s, f)
  BY <1>0, <1>1, DoneEffect
     DEF Start, Close, Crash, QueryFails, CreateIntent, PrepareCancel, Callback, Ready, Locals,
         Positioned
<1>2. CASE Renew(s)
  BY <1>0, <1>2 DEF Renew, progress, InHand
<1>3. CASE Step(s)
  <2>1. CASE Done(s, "idle")
    BY <1>0, <2>1, DoneEffect
  <2>2. CASE Visit(s)
    BY <1>0, <2>2 DEF Visit
  <2>3. CASE Query(s)
    BY <1>0, <2>3 DEF Query, AtQuery, Locals, InHand, Fits
  <2>4. CASE \E where \in Pc \ {"off", "closed", "idle", "answered"} : \E status :
               Goto(s, where, status)
    <3>1. op[s] = "recover" /\ todo'[s] = todo[s] /\ cur'[s] = cur[s] /\ ~Done(s, "idle")
      BY <1>0, <2>4, GotoEffect, DoneEffect
    <3>2. pc[s] # "next" \/ Visit(s)
      BY <1>0, <1>3, <3>1
         DEF Step, RecordRiskDecision, PrepareSubmit, AssertBeforeCall, CallDriver,
             PersistUnknown, BeginReconciling, Query, AtQuery, ApplyAnswer, ResolveCancel, AbortOrphan,
             Classify, CancelAlreadyTerminal, ApplyRecoveryAnswer, RecoveryResolvesCancel,
             FinishRecovery, Fenced
    <3>3. pc[s] \in {"next", "visiting", "answered", "ingested"}
      BY <1>0, <3>1 DEF Locals, Fits, Positioned, Pc
    <3> QED
      BY <2>2, <3>1, <3>2, <3>3 DEF InHand
  <2> QED
    BY <1>3, <2>1, <2>2, <2>3, <2>4, StepShapes
<1> QED
  BY <1>1, <1>2, <1>3 DEF SessionStep

\* An active session is done with the cancel it queried for only by settling it.
LEMMA LeaveIngested ==
  ASSUME OmsInv, NEW s \in Session, SessionStep(s), InHand(s), pc[s] = "ingested", Active(s)'
  PROVE  RecoveryResolvesCancel(s)
<1>0. Locals
  BY DEF OmsInv, Types
<1>1. ~Crash(s)
  BY <1>0, DoneEffect DEF Crash, Active
<1>2. ~Fenced(s)
  BY <1>0, DoneEffect DEF Fenced, Active, Held, leaseVars
<1> QED
  BY <1>0, <1>1, <1>2
     DEF InHand, SessionStep, Step, Start, Close, Renew, StartRecovery, QueryFails, CreateIntent,
         PrepareCancel, Ready, Callback, RecordRiskDecision, PrepareSubmit, AssertBeforeCall,
         CallDriver, PersistUnknown, BeginReconciling, Query, AtQuery, ApplyAnswer,
         ResolveCancel, Visit, AbortOrphan, Classify, CancelAlreadyTerminal,
         ApplyRecoveryAnswer, FinishRecovery

\* The session that moves keeps what it has settled (service.py:176-302).
LEMMA SettledKept ==
  ASSUME Base, Rows, NEW s \in Session, SessionStep(s), Tracked(s), Settled(s), Active(s)'
  PROVE  Settled(s)'
<1>0. OmsInv /\ Locals /\ Positioned(s) /\ Book
  BY DEF Base, OmsInv, Types, Positions
<1>1. \A o \in Order : Mine(s, o) => Mine(s, o)'
  BY MineKept
<1>2. ASSUME s \in reconciled', NEW o \in Order PROVE Mine(s, o)'
  <2>1. CASE s \in reconciled
    BY <1>1, <2>1 DEF Settled
  <2>2. CASE s \notin reconciled
    <3>1. FinishRecovery(s)
      BY <1>2, <2>2, ReconciledMoves
    <3>2. op[s] = "recover" /\ todo[s] = {} /\ ~InHand(s)
      BY <1>0, <3>1 DEF FinishRecovery, Locals, Fits, InHand
    <3> QED
      BY <1>1, <3>2 DEF Settled
  <2> QED
    BY <2>1, <2>2
<1>3. ASSUME op'[s] = "recover", NEW o \in Order \ todo'[s], ~(InHand(s)' /\ o = cur'[s])
      PROVE  Mine(s, o)'
  <2>1. CASE StartRecovery(s)
    BY <1>0, <1>3, <2>1 DEF StartRecovery, Locals, Mine, durable
  <2>2. CASE Visit(s) /\ op[s] = "recover"
    <3>1. /\ pc[s] = "next" /\ InHand(s)'
          /\ \E p \in todo[s] : cur'[s] = p /\ todo'[s] = todo[s] \ {p}
      BY <1>0, <2>2 DEF Visit, Locals, InHand
    <3>2. o \notin todo[s] /\ ~InHand(s)
      BY <1>3, <3>1 DEF InHand
    <3> QED
      BY <1>1, <2>2, <3>2 DEF Settled
  <2>3. CASE /\ op[s] = "recover" /\ todo'[s] = todo[s] /\ cur'[s] = cur[s]
             /\ InHand(s)' => InHand(s)
    <3>1. CASE ~(InHand(s) /\ o = cur[s])
      BY <1>1, <1>3, <2>3, <3>1 DEF Settled
    <3>2. CASE InHand(s) /\ o = cur[s]
      <4>1. ~InHand(s)'
        BY <1>3, <2>3, <3>2
      <4>2. pc'[s] = "next"
        <5>1. Positioned(s)' /\ OmsInv'
          BY <1>0, PositionKept, NextInv DEF Next, SessionStep
        <5> QED
          BY <1>3, <4>1, <5>1 DEF OmsInv, Types, Locals, Fits, Positioned, InHand, Pc
      <4> QED
        BY <3>2, <4>2, HandLeft
    <3> QED
      BY <3>1, <3>2
  <2> QED
    BY <1>0, <1>3, <2>1, <2>2, <2>3, RecoverMoves
<1>4. ASSUME NEW k \in keys', NEW o \in Order, k.eid = <<s, "recover", o>>
      PROVE  Mine(s, o)' \/ (InHand(s)' /\ pc'[s] = "ingested" /\ cur'[s] = o)
  <2>1. CASE k \in keys /\ Mine(s, o)
    BY <1>1, <2>1
  <2>2. CASE k \in keys /\ ~Mine(s, o)
    <3>1. InHand(s) /\ pc[s] = "ingested" /\ cur[s] = o
      BY <1>4, <2>2 DEF Settled
    <3> QED
      BY <1>0, <3>1, LeaveIngested, IngestedLeft
  <2>3. CASE k \notin keys
    <3>1. /\ ApplyRecoveryAnswer(s) /\ pc[s] = "answered" /\ reply[s] # NoReply
          /\ op[s] = "recover" /\ cur[s] = o
      <4>1. /\ ApplyAnswer(s) \/ ApplyRecoveryAnswer(s)
            /\ pc[s] = "answered" /\ reply[s] # NoReply
            /\ k.eid = <<s, op[s], cur[s]>>
        BY <1>0, <1>4, <2>3, KeysAdded
      <4>2. op[s] = "recover" /\ cur[s] = o
        BY <1>4, <4>1
      <4> QED
        BY <4>1, <4>2 DEF ApplyAnswer
    <3> DEFINE e == QueryEvidence(s)
    <3>2. e \in Fact0 /\ KeyNamed(e) /\ Ingest(s, e)
      BY <1>0, <3>1, EvidenceTypes, EvidenceNamed DEF ApplyRecoveryAnswer
    <3>3. ~Raises(IngestResult(orders, keys, e))
      <4> HIDE DEF e
      <4>1. IngestResult(orders, keys, e) \notin {"identity_conflict", "conflict_duplicate"}
        BY <2>3, <3>2 DEF Ingest, IngestKeys
      <4>2. IngestResult(orders, keys, e) \notin {"conflict", "rolled_back"}
        BY <3>2, IngestResults
      <4> QED
        BY <4>1, <4>2 DEF Raises
    <3>4. \/ Goto(s, "ingested", seen[s]) \/ Goto(s, "next", seen[s])
      BY <3>1, <3>3 DEF ApplyRecoveryAnswer
    <3>5. InHand(s) /\ cur'[s] = o /\ op'[s] = "recover"
      BY <1>0, <3>1, <3>4, GotoEffect DEF InHand
    <3>6. CASE pc'[s] = "ingested"
      BY <3>5, <3>6 DEF InHand
    <3>7. CASE pc'[s] = "next"
      BY <3>1, <3>5, <3>7, HandLeft
    <3> QED
      BY <1>0, <3>4, <3>6, <3>7, GotoEffect
  <2> QED
    BY <2>1, <2>2, <2>3
<1> QED
  BY <1>2, <1>3, <1>4 DEF Settled

\* A session cannot unsettle another that still has the lease, and one that takes the
\* lease for the first time has nothing settled yet.
LEMMA SettlingStep == Knowledge /\ Unstarted /\ Settling /\ [Next]_vars => Settling'
<1> SUFFICES ASSUME Knowledge, Unstarted, Settling, [Next]_vars PROVE Settling'
  OBVIOUS
<1>0. Base /\ Rows /\ Tracking /\ OmsInv /\ Positions
  BY DEF Knowledge, Base
<1>1. ASSUME NEW s \in Session, SessionStep(s), NEW q \in Session, Active(q)'
      PROVE  Settled(q)'
  <2>1. CASE q # s
    <3>1. Active(q) /\ SameLocals(q)
      BY <1>0, <1>1, <2>1, ActiveMoves, OthersKept
    <3>2. holder = q
      BY <3>1 DEF Active
    <3>3. orders' = orders /\ keys' = keys /\ writer' = writer
      BY <1>1, <2>1, <3>2, WritersHold DEF Held
    <3>4. Settled(q)
      BY <3>1 DEF Settling
    <3>5. q \in reconciled' => q \in reconciled
      BY <1>1, <2>1, ReconciledMoves
    <3> QED
      BY <3>1, <3>3, <3>4, <3>5 DEF SameLocals, Settled, Mine, InHand
  <2>2. CASE q = s /\ Start(s)
    <3>1. /\ pc[s] = "off" /\ op'[s] = "none" /\ reconciled' = reconciled /\ keys' = keys
      BY <1>0, <2>2 DEF Start, Positions, Positioned, durable
    <3> QED
      BY <2>2, <3>1 DEF Unstarted, Settled
  <2>3. CASE q = s /\ ~Start(s)
    <3>1. Active(s)
      BY <1>0, <1>1, <2>3, ActiveMoves
    <3>2. Tracked(s) /\ Settled(s)
      BY <1>0, <3>1 DEF Tracking, Settling
    <3> QED
      BY <1>0, <1>1, <2>3, <3>2, SettledKept
  <2> QED
    BY <2>1, <2>2, <2>3
<1>2. CASE BrokerStep \/ Expire \/ UNCHANGED vars
  <2>1. /\ UNCHANGED <<orders, keys, writer, reconciled, pc, op, cur, todo, holder>>
        /\ lease' = lease \/ lease = "live"
    BY <1>2 DEF BrokerStep, BrokerAnswers, BrokerFills, BrokerCancels, Publish, Expire, vars,
                durable, progress, leaseVars
  <2>2. ASSUME NEW q \in Session, Active(q)' PROVE Settled(q)'
    <3>1. Active(q)
      BY <2>1, <2>2 DEF Active
    <3>2. Settled(q)
      BY <3>1 DEF Settling
    <3> QED
      BY <2>1, <3>2 DEF Settled, Mine, InHand
  <2> QED
    BY <2>2 DEF Settling
<1> QED
  BY <1>1, <1>2, NextCases DEF Settling

\* What an active session has settled stays settled in every reachable state.
THEOREM SettlingHolds == Spec => [](Knowledge /\ Unstarted /\ Settling)
<1>1. Init => Unstarted /\ Settling
  BY DEF Init, Unstarted, Settling, Active
<1>2. Knowledge => OmsInv
  BY DEF Knowledge, Base
<1>3. Knowledge /\ Unstarted /\ Settling /\ [Next]_vars => (Knowledge /\ Unstarted /\ Settling)'
  BY <1>2, KnowledgeStep, UnstartedStep, SettlingStep
<1> QED
  BY <1>1, <1>3, KnowledgeInit, PTL DEF Spec

\* Reservations are made by the two prepare transactions alone (repository.py:178-254).
LEMMA FlagsRaised ==
  ASSUME Base, Rows, NEW s \in Session, SessionStep(s), NEW o \in Order,
         orders'[o].submit > orders[o].submit \/ orders'[o].cancel > orders[o].cancel
  PROVE  PrepareSubmit(s) \/ \E p \in Order : PrepareCancel(s, p)
<1>0. OmsInv /\ Locals /\ orders \in [Order -> Row] /\ orders[o] \in Row
  BY DEF Base, OmsInv, Types, Tables
<1>1. orders'[o] # orders[o]
  BY <1>0 DEF Row
<1>2. ASSUME NEW target \in Status \cup {"ABSENT"}, NEW resolve \in BOOLEAN, NEW where,
             cur[s] \in Order, Write(s, target, resolve, where)
      PROVE  FALSE
  <2>1. o = cur[s] /\ orders'[o] = TransitionRow(orders[o], target, resolve)
    BY <1>0, <1>1, <1>2, WriteEffect
  <2>2. /\ TransitionRow(orders[o], target, resolve).submit = orders[o].submit
        /\ TransitionRow(orders[o], target, resolve).cancel = orders[o].cancel
    BY <1>0, <1>2, TransitionRowFacts
  <2>3. orders'[o].submit = orders[o].submit /\ orders'[o].cancel = orders[o].cancel
    BY <2>1, <2>2
  <2> QED
    BY <1>0, <2>3 DEF Row
<1>3. ASSUME NEW e \in Fact0, KeyNamed(e), Ingest(s, e) PROVE FALSE
  <2>1. SameFlags(orders'[o], orders[o])
    BY <1>0, <1>1, <1>3, IngestEffect DEF Ingest, Base, GoodRow
  <2> QED
    BY <1>0, <2>1 DEF SameFlags, Row
<1>4. ~Start(s) /\ ~Close(s) /\ ~Crash(s) /\ ~Renew(s) /\ ~StartRecovery(s) /\ ~QueryFails(s)
  BY <1>1 DEF Start, Close, Crash, Renew, StartRecovery, QueryFails, durable
<1>5. ~\E p \in Order : CreateIntent(s, p)
  <2> SUFFICES ASSUME NEW p \in Order, CreateIntent(s, p) PROVE FALSE
    OBVIOUS
  <2>1. o = p /\ orders'[o] = [AbsentRow EXCEPT !.status = "CREATED"]
    BY <1>0, <1>1 DEF CreateIntent
  <2> QED
    BY <1>0, <2>1 DEF AbsentRow, Row
<1>6. ~\E f \in emitted : Callback(s, f)
  BY <1>0, <1>3, EvidenceNamed, EvidenceTypes DEF Callback, Base
<1>7. ~ApplyAnswer(s) /\ ~ApplyRecoveryAnswer(s)
  <2>1. /\ cur[s] \in Order \/ pc[s] # "answered"
        /\ CancelUnresolved(s) \in BOOLEAN /\ "MANUAL_REVIEW" \in Status
    BY <1>0 DEF Locals, Fits, CancelUnresolved, Status
  <2>2. ASSUME pc[s] = "answered", reply[s] # NoReply
        PROVE  ~Ingest(s, QueryEvidence(s))
    BY <1>0, <1>3, <2>2, EvidenceNamed, EvidenceTypes DEF Base
  <2>3. ~ApplyAnswer(s)
    BY <1>1, <2>2 DEF ApplyAnswer, durable
  <2> QED
    BY <1>2, <2>1, <2>2, <2>3 DEF ApplyRecoveryAnswer
<1>8. CASE Step(s)
  <2>1. /\ {"UNKNOWN", "RECONCILING", "CANCEL_PENDING", "ABORTED", "RISK_ACCEPTED",
            "RISK_REJECTED"} \subseteq Status
        /\ seen[s] \in Status \cup {"ABSENT"}
        /\ cur[s] \in Order => orders[cur[s]].status \in Status \cup {"ABSENT"}
        /\ pc[s] \notin {"off", "closed", "idle", "next"} => cur[s] \in Order
    BY <1>0 DEF Status, PreSubmit, Locals, Fits, Row
  <2>2. /\ ~RecordRiskDecision(s) /\ ~PersistUnknown(s) /\ ~BeginReconciling(s)
        /\ ~ResolveCancel(s) /\ ~CancelAlreadyTerminal(s) /\ ~RecoveryResolvesCancel(s)
    BY <1>2, <2>1 DEF RecordRiskDecision, PersistUnknown, BeginReconciling, ResolveCancel,
       CancelAlreadyTerminal, RecoveryResolvesCancel
  <2>3. ~AbortOrphan(s) /\ ~Classify(s)
    BY <1>1, <1>2, <2>1 DEF AbortOrphan, Classify, RecoveryFails, durable
  <2>4. /\ ~AssertBeforeCall(s) /\ ~CallDriver(s) /\ ~Query(s) /\ ~Visit(s)
        /\ ~FinishRecovery(s) /\ ~Fenced(s)
    BY <1>1 DEF AssertBeforeCall, CallDriver, Query, Visit, FinishRecovery, Fenced, durable
  <2> QED
    BY <1>7, <1>8, <2>2, <2>3, <2>4 DEF Step
<1> QED
  BY <1>4, <1>5, <1>6, <1>8 DEF SessionStep

\* No new exposure while a predecessor's order is unsettled: whenever a submit or a cancel
\* is reserved, every order that is still ambiguous was made so by this very session, for
\* any number of sessions, takeovers and recover() calls (service.py:343-344, 413-414).
THEOREM SettledBeforeExposure == Spec => NoExposureBeforeReconciliation
<1>1. Knowledge /\ Settling /\ [Next]_vars
        => [\A o \in Order :
              orders'[o].submit > orders[o].submit \/ orders'[o].cancel > orders[o].cancel
                => \A p \in Order : RecoveryCandidate(orders[p]) => writer[p] = holder]_vars
  <2> SUFFICES ASSUME Knowledge, Settling, Next, NEW o \in Order, NEW p \in Order,
                      \/ orders'[o].submit > orders[o].submit
                      \/ orders'[o].cancel > orders[o].cancel,
                      RecoveryCandidate(orders[p])
               PROVE  writer[p] = holder
    OBVIOUS
  <2>0. Base /\ Rows /\ OmsInv /\ Locals /\ Positions /\ orders[o] \in Row
    BY DEF Knowledge, Base, OmsInv, Types, Tables
  <2>1. orders'[o] # orders[o]
    BY <2>0 DEF Row
  <2>2. ASSUME NEW s \in Session, SessionStep(s) PROVE writer[p] = holder
    <3>1. PrepareSubmit(s) \/ \E q \in Order : PrepareCancel(s, q)
      BY <2>0, <2>2, FlagsRaised
    <3>2. Held(s) /\ pc[s] \in {"authorized", "idle"} /\ s \in reconciled
      BY <2>0, <3>1 DEF PrepareSubmit, PrepareCancel, Ready, Guard, Positions, Positioned,
                        Locals, Fits
    <3>3. Active(s)
      BY <3>2 DEF Active, Held
    <3>4. Mine(s, p)
      BY <3>2, <3>3 DEF Settling, Settled
    <3> QED
      BY <3>2, <3>4 DEF Mine, Held
  <2>3. CASE BrokerStep \/ Expire
    BY <2>1, <2>3 DEF BrokerStep, BrokerAnswers, BrokerFills, BrokerCancels, Publish, Expire,
                      durable
  <2> QED
    BY <2>2, <2>3 DEF Next, SessionStep, BrokerStep
<1> QED
  BY <1>1, SettlingHolds, PTL DEF Spec, NoExposureBeforeReconciliation

(***************************************************************************)
(* Layer 5: one recover() per session.  The event id of a query names the  *)
(* session, the kind of operation and the order (service.py:160), so a     *)
(* second recover() of a session would reuse the ids of the first; with    *)
(* one, every query has an id of its own.                                  *)
(***************************************************************************)

OneRecovery == MaxRecoveries <= 1

\* What a session requests of a row is always something the state machine takes, and the
\* row it found contradicts nothing (state_machine.py:56-71, service.py:189-228).
LEMMA LegalRequests ==
  ASSUME Base, Rows, NEW s \in Session, Tracked(s)
  PROVE  /\ pc[s] = "created" => /\ Legal(orders[cur[s]].status, "RISK_ACCEPTED")
                                 /\ Legal(orders[cur[s]].status, "RISK_REJECTED")
         /\ pc[s] = "authorized" => CanReserve(orders[cur[s]], "SUBMITTING", orders[cur[s]].submit)
         /\ pc[s] \in {"returned", "failed"} => Legal(orders[cur[s]].status, "UNKNOWN")
         /\ pc[s] = "unknown" => Legal(orders[cur[s]].status, "RECONCILING")
         /\ pc[s] = "ingested" /\ op[s] = "cancel" => Legal(orders[cur[s]].status, seen[s])
         /\ pc[s] = "visiting"
              => /\ ~ImpossibleRow(s)
                 /\ Legal(orders[cur[s]].status, seen[s])
                 /\ seen[s] \in {"CREATED", "RISK_ACCEPTED"}
                      => Moves(orders[cur[s]].status, "ABORTED")
                 /\ seen[s] \in {"SUBMITTING", "CANCEL_PENDING"}
                      => Legal(orders[cur[s]].status, "UNKNOWN")
                 /\ seen[s] \in {"ACKNOWLEDGED", "PARTIALLY_FILLED"}
                      => Legal(orders[cur[s]].status, "CANCEL_PENDING")
                 /\ seen[s] = "UNKNOWN" => Legal(orders[cur[s]].status, "RECONCILING")
         /\ pc[s] = "answered" /\ op[s] = "recover"
              => Legal(orders[cur[s]].status, "MANUAL_REVIEW")
<1>0. /\ Locals /\ orders \in [Order -> Row] /\ Fits(pc[s], op[s], cur[s])
      /\ op[s] \in {"none", "submit", "cancel", "recover"} /\ Positioned(s)
  BY DEF Base, OmsInv, Types, Tables, Locals, Positions
<1>1. \A a, b : Moves(a, b) => Legal(a, b)
  BY DEF Moves, Legal
<1>2. \A a : Legal(a, a)
  BY DEF Legal
<1>3. ASSUME pc[s] = "created" PROVE orders[cur[s]].status = "CREATED"
  BY <1>0, <1>3 DEF Fits, Tracked, Expected
<1>4. ASSUME pc[s] = "authorized"
      PROVE  CanReserve(orders[cur[s]], "SUBMITTING", orders[cur[s]].submit)
  <2>1. orders[cur[s]].status = "RISK_ACCEPTED" /\ cur[s] \in Order
    BY <1>0, <1>4 DEF Fits, Tracked, Expected
  <2>2. orders[cur[s]].submit = 0
    BY <2>1 DEF Rows, Sound, Unsent, PreSubmit
  <2> QED
    BY <2>1, <2>2, Walks DEF CanReserve
<1>5. ASSUME pc[s] \in {"returned", "failed"}
      PROVE  orders[cur[s]].status \in {"SUBMITTING", "CANCEL_PENDING"}
  BY <1>0, <1>5 DEF Fits, Tracked, Expected
<1>6. ASSUME pc[s] = "unknown" PROVE orders[cur[s]].status = "UNKNOWN"
  BY <1>0, <1>6 DEF Fits, Tracked, Expected
<1>7. ASSUME pc[s] = "ingested", op[s] = "cancel" PROVE orders[cur[s]].status = seen[s]
  BY <1>7 DEF Tracked
<1>8. ASSUME pc[s] = "visiting" PROVE orders[cur[s]].status = seen[s] /\ ~ImpossibleRow(s)
  <2>1. HandTracked(s) /\ cur[s] \in Order /\ orders[cur[s]].status = seen[s]
    BY <1>0, <1>8 DEF Fits, InHand, Tracked, HandTracked
  <2>2. Sound(snap[s][cur[s]]) /\ Sound(orders[cur[s]])
    BY <2>1 DEF Rows
  <2>3. SameFlags(orders[cur[s]], snap[s][cur[s]])
    BY <2>1 DEF HandTracked
  <2>4. seen[s] \in {"CREATED", "RISK_ACCEPTED", "SUBMITTING"} => snap[s][cur[s]].status = seen[s]
    BY <1>8, <2>1 DEF HandTracked
  <2> QED
    BY <2>1, <2>2, <2>3, <2>4 DEF ImpossibleRow, Sound, SameFlags, Unsent, PreSubmit
<1>9. ASSUME pc[s] = "answered", op[s] = "recover"
      PROVE  orders[cur[s]].status \in {"RECONCILING", "MANUAL_REVIEW"}
  BY <1>9 DEF InHand, Tracked, HandTracked
<1> QED
  BY <1>1, <1>2, <1>3, <1>4, <1>5, <1>6, <1>7, <1>8, <1>9, Walks

\* With an id of its own, evidence of a broker that does not contradict itself is always
\* taken in (evidence.py:84-229).
LEMMA EvidenceTaken ==
  ASSUME Base, Rows, Clean
  PROVE  /\ \A s \in Session : pc[s] = "answered" /\ reply[s] # NoReply
              => /\ ~\E k \in keys : k.eid = QueryEvidence(s).eid
                 /\ IngestResult(orders, keys, QueryEvidence(s))
                      \in {"applied", "semantic_duplicate"}
         /\ \A f \in emitted : IngestResult(orders, keys, CallbackEvidence(f))
              \in {"applied", "semantic_duplicate", "duplicate"}
<1>0. OmsInv /\ Locals /\ Book /\ KeysNamed
  BY DEF Base, OmsInv, Types
<1>1. ASSUME NEW s \in Session, pc[s] = "answered", reply[s] # NoReply
      PROVE  /\ ~\E k \in keys : k.eid = QueryEvidence(s).eid
             /\ IngestResult(orders, keys, QueryEvidence(s)) \in {"applied", "semantic_duplicate"}
  <2> DEFINE e == QueryEvidence(s)
  <2>1. e \in Fact0 /\ KeyNamed(e) /\ e.eid = <<s, op[s], cur[s]>>
    BY <1>0, <1>1, EvidenceTypes, EvidenceNamed DEF QueryEvidence
  <2>2. op[s] \in {"submit", "cancel", "recover"} /\ cur[s] \in Order
    BY <1>0, <1>1 DEF Locals, Fits
  <2> HIDE DEF e
  <2>3. ASSUME NEW k \in keys, k.eid = e.eid PROVE FALSE
    <3>1. FreshKey(s, k)
      BY DEF Clean
    <3> QED
      BY <1>1, <2>1, <2>2, <2>3, <3>1 DEF FreshKey, InHand
  <2>4. IngestResult(orders, keys, e) \in {"applied", "semantic_duplicate"}
    BY <2>1, <2>3, IngestResults
  <2> QED
    BY <2>3, <2>4 DEF e
<1>2. ASSUME NEW f \in emitted
      PROVE  IngestResult(orders, keys, CallbackEvidence(f))
               \in {"applied", "semantic_duplicate", "duplicate"}
  <2> DEFINE e == CallbackEvidence(f)
  <2>1. /\ e \in Fact0 /\ KeyNamed(e) /\ e.bid = e.order
        /\ e.eid = <<"callback", e.order, e.status, e.filled>>
    BY <1>0, EvidenceTypes, EvidenceNamed DEF CallbackEvidence
  <2> HIDE DEF e
  <2>2. ASSUME NEW k \in keys, k.eid = e.eid PROVE Fact(k) = Fact(e) /\ k.accepted = 1
    <3>1. KeyNamed(k) /\ k.accepted = 1
      BY <1>0 DEF KeysNamed, Clean
    <3>2. k.bid = k.order
      BY <3>1 DEF KeyNamed
    <3>3. \A a, b, c : k.eid # <<a, b, c>>
      BY <2>1, <2>2
    <3>4. k.eid = <<"callback", k.order, k.status, k.filled>>
      BY <3>1, <3>3 DEF KeyNamed
    <3>5. k.order = e.order /\ k.status = e.status /\ k.filled = e.filled
      BY <2>1, <2>2, <3>4
    <3> QED
      BY <2>1, <3>1, <3>2, <3>5 DEF Fact
  <2>3. orders[e.order].status # "ABSENT"
    BY <1>0, <2>1, EvidenceSent DEF Unsent
  <2>4. IngestResult(orders, keys, e) \in {"applied", "semantic_duplicate", "duplicate"}
    BY <2>1, <2>2, <2>3, MergeOk DEF IngestResult
  <2> QED
    BY <2>4 DEF e
<1> QED
  BY <1>1, <1>2

\* No operation fails on the OMS's own rules.
LEMMA FaultsKept ==
  ASSUME Base, Rows, Tracking, Clean, NEW s \in Session, SessionStep(s)
  PROVE  faults' \subseteq faults \cup {"QueryFailed"}
<1>0. OmsInv /\ Locals
  BY DEF Base, OmsInv, Types
<1>1. ASSUME NEW target, NEW resolve, NEW where, Write(s, target, resolve, where),
             Legal(orders[cur[s]].status, target)
      PROVE  faults' = faults
  BY <1>1 DEF Write
<1>2. ASSUME NEW e, Ingest(s, e), ~Raises(IngestResult(orders, keys, e)) PROVE faults' = faults
  BY <1>2 DEF Ingest
<1>3. ASSUME Held(s), pc[s] \notin {"off", "closed"} PROVE Tracked(s)
  BY <1>3, HolderTracked
<1>4. CASE Start(s) \/ Close(s) \/ Crash(s) \/ Renew(s) \/ StartRecovery(s) \/ QueryFails(s)
           \/ \E o \in Order : CreateIntent(s, o) \/ PrepareCancel(s, o)
  BY <1>4 DEF Start, Close, Crash, Renew, StartRecovery, QueryFails, CreateIntent,
              PrepareCancel
<1>5. CASE \E f \in emitted : Callback(s, f)
  BY <1>2, <1>5, EvidenceTaken DEF Callback, Raises
<1>6. CASE AssertBeforeCall(s) \/ CallDriver(s) \/ Query(s) \/ Visit(s) \/ FinishRecovery(s)
           \/ Fenced(s)
  BY <1>6 DEF AssertBeforeCall, CallDriver, Query, Visit, FinishRecovery, Fenced
<1>7. CASE RecordRiskDecision(s) \/ PersistUnknown(s) \/ BeginReconciling(s)
           \/ ResolveCancel(s) \/ CancelAlreadyTerminal(s) \/ RecoveryResolvesCancel(s)
  <2>1. Held(s) /\ Tracked(s)
    BY <1>3, <1>7, WriteShape DEF RecordRiskDecision, PersistUnknown, BeginReconciling,
       ResolveCancel, CancelAlreadyTerminal, RecoveryResolvesCancel
  <2>2. Legal(orders[cur[s]].status, orders[cur[s]].status)
    BY DEF Legal
  <2> QED
    BY <1>1, <1>7, <2>1, <2>2, LegalRequests DEF RecordRiskDecision, PersistUnknown, BeginReconciling,
       ResolveCancel, CancelAlreadyTerminal, RecoveryResolvesCancel
<1>8. CASE PrepareSubmit(s)
  <2>1. Tracked(s)
    BY <1>3, <1>8 DEF PrepareSubmit, Guard
  <2> QED
    BY <1>8, <2>1, LegalRequests DEF PrepareSubmit
<1>9. CASE ApplyAnswer(s)
  BY <1>2, <1>9, EvidenceTaken DEF ApplyAnswer, Raises
<1>10. CASE ApplyRecoveryAnswer(s)
  <2>1. CASE reply[s] = NoReply
    <3>1. Write(s, "MANUAL_REVIEW", CancelUnresolved(s), "next") /\ pc[s] = "answered"
          /\ op[s] = "recover"
      BY <1>10, <2>1 DEF ApplyRecoveryAnswer
    <3>2. Tracked(s)
      BY <1>3, <3>1 DEF Write, Guard
    <3> QED
      BY <1>1, <3>1, <3>2, LegalRequests
  <2>2. CASE reply[s] # NoReply
    BY <1>2, <1>10, <2>2, EvidenceTaken DEF ApplyRecoveryAnswer, Raises
  <2> QED
    BY <2>1, <2>2
<1>11. CASE AbortOrphan(s) \/ Classify(s)
  <2>1. CASE Held(s)
    <3>1. Tracked(s) /\ pc[s] = "visiting"
      BY <1>3, <1>11, <2>1 DEF AbortOrphan, Classify
    <3>2. ~ImpossibleRow(s)
      BY <3>1, LegalRequests
    <3>3. seen[s] \in {"CREATED", "RISK_ACCEPTED"} => Legal(orders[cur[s]].status, "ABORTED")
      BY <3>1, LegalRequests DEF Moves, Legal
    <3> QED
      BY <1>1, <1>11, <3>1, <3>2, <3>3, LegalRequests DEF AbortOrphan, Classify
  <2>2. CASE ~Held(s)
    BY <1>11, <2>2, WriteShape DEF AbortOrphan, Classify, Clean
  <2> QED
    BY <2>1, <2>2
<1> QED
  BY <1>4, <1>5, <1>6, <1>7, <1>8, <1>9, <1>10, <1>11 DEF SessionStep, Step

\* Every key records evidence that was taken in.
LEMMA AcceptedKept ==
  ASSUME Base, Rows, Clean, NEW s \in Session, SessionStep(s)
  PROVE  \A k \in keys' : k.accepted = 1
<1>1. ASSUME NEW e, Ingest(s, e), IngestResult(orders, keys, e) \notin {"conflict"}
      PROVE  \A k \in keys' : k.accepted = 1
  <2>1. keys' \subseteq keys \cup {WithAccepted(e, 1)}
    BY <1>1 DEF Ingest, IngestKeys
  <2>2. WithAccepted(e, 1).accepted = 1
    BY DEF WithAccepted
  <2> QED
    BY <2>1, <2>2 DEF Clean
<1>2. ASSUME keys' = keys PROVE \A k \in keys' : k.accepted = 1
  BY <1>2 DEF Clean
<1>3. CASE \E f \in emitted : Callback(s, f)
  BY <1>1, <1>3, EvidenceTaken DEF Callback
<1>4. CASE ApplyAnswer(s) \/ ApplyRecoveryAnswer(s)
  <2>1. keys' = keys \/ (pc[s] = "answered" /\ reply[s] # NoReply /\ Ingest(s, QueryEvidence(s)))
    BY <1>4, WriteShape DEF ApplyAnswer, ApplyRecoveryAnswer, durable
  <2> QED
    BY <1>1, <1>2, <2>1, EvidenceTaken
<1>5. CASE ~(\E f \in emitted : Callback(s, f)) /\ ~ApplyAnswer(s) /\ ~ApplyRecoveryAnswer(s)
  <2>1. keys' = keys
    BY <1>5, WriteShape
       DEF SessionStep, Step, Start, Close, Crash, Renew, StartRecovery, QueryFails,
           CreateIntent, PrepareCancel, RecordRiskDecision, PrepareSubmit, AssertBeforeCall,
           CallDriver, PersistUnknown, BeginReconciling, Query, ResolveCancel, Visit,
           AbortOrphan, Classify, CancelAlreadyTerminal, RecoveryResolvesCancel,
           FinishRecovery, Fenced, RecoveryFails, durable
  <2> QED
    BY <1>2, <2>1
<1> QED
  BY <1>3, <1>4, <1>5

\* How a session comes to be inside a submit or a cancel of order o.
LEMMA CommandMoves ==
  ASSUME OmsInv, NEW s \in Session, Positioned(s), SessionStep(s),
         op'[s] \in {"submit", "cancel"}
  PROVE  \/ op'[s] = "submit" /\ CreateIntent(s, cur'[s]) /\ cur'[s] \in Order
         \/ op'[s] = "cancel" /\ PrepareCancel(s, cur'[s]) /\ cur'[s] \in Order
         \/ /\ op'[s] = op[s] /\ cur'[s] = cur[s]
            /\ pc[s] # "ingested"
<1>0. Locals
  BY DEF OmsInv, Types
<1>1. CASE Start(s) \/ Close(s) \/ Crash(s) \/ QueryFails(s) \/ StartRecovery(s)
           \/ \E f \in emitted : Callback(s, f)
  BY <1>0, <1>1, DoneEffect
     DEF Start, Close, Crash, QueryFails, StartRecovery, Callback, Locals, Positioned
<1>2. CASE Renew(s)
  BY <1>0, <1>2 DEF Renew, progress
<1>3. ASSUME NEW o \in Order, CreateIntent(s, o)
      PROVE  op'[s] = "submit" /\ CreateIntent(s, cur'[s]) /\ cur'[s] \in Order
  <2>1. op'[s] = "submit" /\ cur'[s] = o
    BY <1>0, <1>3 DEF CreateIntent, Locals
  <2> QED
    BY <1>3, <2>1
<1>4. ASSUME NEW o \in Order, PrepareCancel(s, o)
      PROVE  op'[s] = "cancel" /\ PrepareCancel(s, cur'[s]) /\ cur'[s] \in Order
  <2>1. op'[s] = "cancel" /\ cur'[s] = o
    BY <1>0, <1>4 DEF PrepareCancel, Locals
  <2> QED
    BY <1>4, <2>1
<1>5. CASE Step(s)
  <2>1. ~Done(s, "idle")
    BY <1>0, DoneEffect
  <2>2. op'[s] = op[s]
    BY <1>0, <1>5, <2>1, StepShapes, GotoEffect DEF Query, Visit
  <2>3. ~Visit(s)
    BY <1>0, <2>2 DEF Visit, Locals, Fits
  <2>4. cur'[s] = cur[s]
    BY <1>0, <1>5, <2>1, <2>3, StepShapes, GotoEffect DEF Query
  <2>5. pc[s] # "ingested"
    <3>1. ~ResolveCancel(s)
      <4> SUFFICES ASSUME ResolveCancel(s) PROVE FALSE
        OBVIOUS
      <4>1. Write(s, seen[s], TRUE, "idle")
        BY DEF ResolveCancel
      <4> QED
        BY <2>1, <4>1, WriteShape
    <3> QED
      BY <1>5, <2>1, <2>2, <3>1
         DEF Step, RecordRiskDecision, PrepareSubmit, AssertBeforeCall, CallDriver,
             PersistUnknown, BeginReconciling, Query, AtQuery, ApplyAnswer, Visit,
             AbortOrphan, Classify, CancelAlreadyTerminal, ApplyRecoveryAnswer,
             RecoveryResolvesCancel, FinishRecovery, Fenced
  <2> QED
    BY <2>2, <2>4, <2>5
<1> QED
  BY <1>1, <1>2, <1>3, <1>4, <1>5 DEF SessionStep

\* A key is about an order that was sent.
LEMMA KeySent ==
  ASSUME Base, NEW k \in keys
  PROVE  k.order \in Order /\ orders[k.order].status # "ABSENT"
<1>1. /\ KeyNamed(k) /\ k.order \in Order /\ OmsInv /\ Book
  BY DEF Base, KeysNamed, OmsInv, Types, Tables, Key
<1>2. broker[k.order].st \in BrokerStatus
  BY <1>1 DEF KeyNamed, Book, FactTrue
<1>3. submits[k.order] = 1
  BY <1>1, <1>2 DEF Book, BrokerStatus, BrokerTerminal
<1> QED
  BY <1>1, <1>3 DEF OmsInv, Reservations

\* Only recover() counts.
LEMMA RecoveriesMove ==
  ASSUME OmsInv, NEW s \in Session, SessionStep(s)
  PROVE  recoveries' = recoveries \/ StartRecovery(s)
<1>0. Locals
  BY DEF OmsInv, Types
<1>1. CASE Step(s) \/ QueryFails(s)
  BY <1>0, <1>1, StepShapes, DoneEffect, GotoEffect DEF Query, Visit
<1> QED
  BY <1>0, <1>1, DoneEffect
     DEF SessionStep, Start, Close, Crash, Renew, CreateIntent, PrepareCancel, Callback, progress

\* After the query's evidence, recover() has one more write and is done with the order.
LEMMA IngestedEnds ==
  ASSUME OmsInv, NEW s \in Session, SessionStep(s), op[s] = "recover", pc[s] = "ingested"
  PROVE  ~InHand(s)'
<1>0. Locals
  BY DEF OmsInv, Types
<1>1. ASSUME NEW where, Done(s, where) PROVE ~InHand(s)'
  BY <1>0, <1>1, DoneEffect DEF InHand
<1>2. CASE Crash(s) \/ Fenced(s)
  BY <1>1, <1>2 DEF Crash, Fenced
<1>3. CASE RecoveryResolvesCancel(s)
  <2>1. Write(s, orders[cur[s]].status, TRUE, "next")
    BY <1>3 DEF RecoveryResolvesCancel
  <2>2. Done(s, "idle") \/ Goto(s, "next", orders[cur[s]].status)
    BY <2>1, WriteShape
  <2> QED
    BY <1>0, <1>1, <2>2, GotoEffect DEF InHand
<1> QED
  BY <1>0, <1>2, <1>3
     DEF SessionStep, Step, Start, Close, Renew, StartRecovery, QueryFails, CreateIntent,
         PrepareCancel, Ready, Callback, RecordRiskDecision, PrepareSubmit, AssertBeforeCall,
         CallDriver, PersistUnknown, BeginReconciling, Query, AtQuery, ApplyAnswer,
         ResolveCancel, Visit, AbortOrphan, Classify, CancelAlreadyTerminal,
         ApplyRecoveryAnswer, FinishRecovery

\* A session's queries keep ids of their own.
LEMMA FreshKept ==
  ASSUME OneRecovery, Base, Rows, Tracking, Clean, NEW s \in Session, SessionStep(s),
         NEW q \in Session, NEW k \in keys'
  PROVE  FreshKey(q, k)'
<1>0. OmsInv /\ Locals /\ Positioned(s) /\ KeysNamed /\ orders \in [Order -> Row]
  BY DEF Base, OmsInv, Types, Tables, Positions
<1>1. ASSUME NEW o \in Order, orders[o].cancel = 1 PROVE orders'[o].cancel = 1
  <2>1. orders'[o] \in Row
    BY <1>0, NextInv DEF Next, SessionStep, OmsInv, Types, Tables
  <2>2. orders'[o].cancel >= orders[o].cancel
    BY SessionGood DEF GoodStep, RowMoved
  <2> QED
    BY <1>1, <2>1, <2>2 DEF Row
<1>2. CASE q # s
  <2>1. SameLocals(q)
    BY <1>0, <1>2, OthersKept
  <2>2. CASE k \in keys
    BY <1>1, <2>1, <2>2 DEF Clean, FreshKey, SameLocals, InHand
  <2>3. CASE k \notin keys
    <3>1. \/ k.eid = <<s, op[s], cur[s]>>
          \/ \E f \in emitted : k.eid = <<"callback", f.order, f.status, f.filled>>
      BY <1>0, <2>3, KeysAdded
    <3>2. \A kind, o : k.eid # <<q, kind, o>>
      BY <1>2, <3>1
    <3> QED
      BY <3>2 DEF FreshKey
  <2> QED
    BY <2>2, <2>3
<1>3. CASE q = s /\ k \in keys
  <2>0. FreshKey(s, k) /\ KeyNamed(k)
    BY <1>0, <1>3 DEF Clean, KeysNamed
  <2>1. ASSUME NEW o \in Order, k.eid = <<s, "submit", o>>
        PROVE  ~(op'[s] = "submit" /\ cur'[s] = o)
    <3>1. k.order = o
      <4>1. \/ \E t \in Session, kind \in {"submit", "cancel", "recover"} :
                 k.eid = <<t, kind, k.order>>
            \/ k.eid = <<"callback", k.order, k.status, k.filled>>
        BY <2>0 DEF KeyNamed
      <4> QED
        BY <2>1, <4>1
    <3>2. orders[o].status # "ABSENT"
      BY <1>3, <3>1, KeySent
    <3> QED
      BY <1>0, <2>0, <2>1, <3>2, CommandMoves DEF FreshKey, CreateIntent
  <2>2. ASSUME NEW o \in Order, k.eid = <<s, "cancel", o>>
        PROVE  orders'[o].cancel = 1 /\ ~(op'[s] = "cancel" /\ cur'[s] = o)
    <3>1. orders[o].cancel = 1 /\ (op[s] = "cancel" /\ cur[s] = o => pc[s] = "ingested")
      BY <2>0, <2>2 DEF FreshKey
    <3>2. ~PrepareCancel(s, o)
      BY <3>1 DEF PrepareCancel, CanReserve
    <3> QED
      BY <1>0, <1>1, <3>1, <3>2, CommandMoves
  <2>3. ASSUME NEW o \in Order, k.eid = <<s, "recover", o>>
        PROVE  recoveries'[s] = 1 /\ o \notin todo'[s] /\ ~(InHand(s)' /\ cur'[s] = o)
    <3>1. /\ recoveries[s] = 1 /\ o \notin todo[s]
          /\ InHand(s) /\ cur[s] = o => pc[s] = "ingested"
      BY <2>0, <2>3 DEF FreshKey
    <3>2. ~StartRecovery(s)
      BY <3>1, OmsAssumption DEF StartRecovery, OneRecovery
    <3>3. recoveries'[s] = 1
      BY <1>0, <3>1, <3>2, RecoveriesMove
    <3>4. CASE op'[s] # "recover"
      <4>1. Positioned(s)'
        BY <1>0, PositionKept
      <4> QED
        BY <3>3, <3>4, <4>1 DEF Positioned, InHand
    <3>5. CASE op'[s] = "recover" /\ Visit(s)
      <4>1. \E p \in todo[s] : cur'[s] = p /\ todo'[s] = todo[s] \ {p}
        BY <1>0, <3>5 DEF Visit, Locals
      <4> QED
        BY <3>1, <3>3, <4>1
    <3>6. CASE op'[s] = "recover" /\ ~Visit(s)
      <4>1. /\ op[s] = "recover" /\ todo'[s] = todo[s] /\ cur'[s] = cur[s]
            /\ InHand(s)' => InHand(s)
        BY <1>0, <3>2, <3>6, RecoverMoves
      <4> QED
        BY <1>0, <3>1, <3>3, <4>1, IngestedEnds
    <3> QED
      BY <3>4, <3>5, <3>6
  <2> QED
    BY <1>3, <2>1, <2>2, <2>3 DEF FreshKey
<1>4. CASE q = s /\ k \notin keys
  <2>1. CASE \E f \in emitted : k.eid = <<"callback", f.order, f.status, f.filled>>
    <3>1. \A a, b, c : k.eid # <<a, b, c>>
      BY <2>1
    <3> QED
      BY <3>1 DEF FreshKey
  <2>2. CASE /\ ApplyAnswer(s) \/ ApplyRecoveryAnswer(s)
             /\ pc[s] = "answered" /\ reply[s] # NoReply /\ Ingest(s, QueryEvidence(s))
             /\ k.eid = <<s, op[s], cur[s]>>
    <3>1. Tracked(s) /\ cur[s] \in Order
      BY <1>0, <2>2, HolderTracked DEF Ingest, Guard, Locals, Fits
    <3>2. CASE Done(s, "idle")
      <4>1. op'[s] = "none" /\ todo'[s] = {} /\ recoveries' = recoveries
        BY <1>0, <3>2, DoneEffect
      <4>2. op[s] = "cancel" => orders'[cur[s]].cancel = 1
        BY <1>1, <3>1 DEF Tracked
      <4>3. op[s] = "recover" => recoveries[s] = 1
        BY DEF Clean
      <4> QED
        BY <1>4, <2>2, <4>1, <4>2, <4>3 DEF FreshKey, InHand
    <3>3. CASE ~Done(s, "idle")
      <4>1. \E status : \/ op[s] = "cancel" /\ Goto(s, "ingested", status)
                        \/ op[s] = "recover" /\ Goto(s, "ingested", status)
                        \/ op[s] = "recover" /\ Goto(s, "next", status)
        BY <1>0, <2>2, <3>3 DEF ApplyAnswer, ApplyRecoveryAnswer, Locals, Fits
      <4>2. /\ op[s] \in {"cancel", "recover"} /\ pc'[s] \in {"ingested", "next"}
            /\ op[s] = "cancel" => pc'[s] = "ingested"
            /\ op'[s] = op[s] /\ cur'[s] = cur[s] /\ todo'[s] = todo[s]
            /\ recoveries' = recoveries
        BY <1>0, <4>1, GotoEffect
      <4>3. op[s] = "cancel" => orders'[cur[s]].cancel = 1
        BY <1>1, <3>1 DEF Tracked
      <4>4. op[s] = "recover" => recoveries[s] = 1 /\ cur[s] \notin todo[s]
        BY <1>0, <2>2 DEF Clean, Positioned, InHand
      <4> QED
        BY <1>4, <2>2, <4>2, <4>3, <4>4 DEF FreshKey, InHand
    <3> QED
      BY <3>2, <3>3
  <2> QED
    BY <1>0, <1>4, <2>1, <2>2, KeysAdded
<1> QED
  BY <1>2, <1>3, <1>4

\* A write that reaches a status outside the WHERE clause of list_recovery_candidates,
\* with no cancel left open, settles the row.
LEMMA WriteClears ==
  ASSUME OmsInv, NEW s \in Session, NEW target \in Status \cup {"ABSENT"},
         NEW resolve \in BOOLEAN, NEW where, cur[s] \in Order,
         Write(s, target, resolve, where), Legal(orders[cur[s]].status, target),
         \/ Moves(orders[cur[s]].status, target) /\ target \notin CandidateStatus
         \/ orders[cur[s]].status \notin CandidateStatus /\ target = orders[cur[s]].status,
         resolve \/ ~(orders[cur[s]].cancel = 1 /\ orders[cur[s]].resolved = 0)
  PROVE  ~RecoveryCandidate(orders'[cur[s]])
<1> DEFINE r == orders[cur[s]]
           t == TransitionRow(r, target, resolve)
<1>1. r \in Row
  BY DEF OmsInv, Types, Tables
<1>2. orders'[cur[s]] = t
  BY WriteEffect
<1> HIDE DEF r
<1>3. /\ t.cancel = r.cancel
      /\ resolve => t.resolved = 1
      /\ ~resolve => t.resolved = r.resolved
      /\ Moves(r.status, target) => t.status = target
      /\ ~Moves(r.status, target) => t.status = r.status
  BY <1>1, TransitionRowFacts, TransitionRowParts
<1> HIDE DEF t
<1>4. t.status \notin CandidateStatus
  BY <1>3 DEF r
<1>5. ~(t.cancel = 1 /\ t.resolved = 0)
  <2>1. CASE resolve
    <3>1. t.resolved = 1
      BY <1>3, <2>1
    <3> QED
      BY <3>1
  <2>2. CASE ~resolve
    <3>1. ~(r.cancel = 1 /\ r.resolved = 0)
      BY <2>2 DEF r
    <3>2. t.resolved = r.resolved /\ t.cancel = r.cancel
      BY <1>3, <2>2
    <3> QED
      BY <3>1, <3>2
  <2> QED
    BY <2>1, <2>2
<1>6. ~RecoveryCandidate(t)
  BY <1>4, <1>5 DEF RecoveryCandidate, CandidateStatus
<1> QED
  BY <1>2, <1>6

\* recover()'s answer leaves the order in a broker's status or under manual review
\* (service.py:277-297).
LEMMA AnswerClears ==
  ASSUME Base, Rows, Clean, NEW s \in Session, Tracked(s), ApplyRecoveryAnswer(s),
         reply[s] # NoReply
  PROVE  /\ orders'[cur[s]].status \notin CandidateStatus
         /\ SameFlags(orders'[cur[s]], orders[cur[s]])
<1> DEFINE e == QueryEvidence(s)
<1>0. OmsInv /\ Locals /\ Book /\ KeysNamed
  BY DEF Base, OmsInv, Types
<1>1. pc[s] = "answered" /\ op[s] = "recover" /\ Ingest(s, e) /\ HandTracked(s)
  BY DEF ApplyRecoveryAnswer, Tracked, InHand
<1>2. e \in Fact0 /\ KeyNamed(e) /\ e.order = cur[s]
  BY <1>0, <1>1, EvidenceTypes, EvidenceNamed DEF QueryEvidence
<1>3. ~\E k \in keys : k.eid = e.eid
  BY <1>1, EvidenceTaken
<1> HIDE DEF e
<1>4. GoodRow(orders[cur[s]], orders'[cur[s]], cur[s])
  BY <1>0, <1>1, <1>2, IngestEffect DEF Ingest
<1>5. CASE orders[cur[s]].status = "RECONCILING"
  <2>1. orders'[cur[s]].status \in BrokerStatus
    BY <1>1, <1>2, <1>3, <1>5, AppliedMoves
  <2> QED
    BY <1>4, <2>1 DEF GoodRow, BrokerStatus, BrokerTerminal, CandidateStatus
<1>6. CASE orders[cur[s]].status = "MANUAL_REVIEW"
  BY <1>4, <1>6 DEF GoodRow, RowMoved, Terminal, CandidateStatus
<1> QED
  BY <1>1, <1>5, <1>6 DEF HandTracked

\* recover() leaves a candidate only when it is one no more (service.py:189-297).
LEMMA HandCleared ==
  ASSUME Base, Rows, Clean, NEW s \in Session, SessionStep(s), Tracked(s), Cleared(s),
         InHand(s), pc'[s] = "next", NEW o, o = cur[s]
  PROVE  ~RecoveryCandidate(orders'[o])
<1>0. /\ OmsInv /\ Locals /\ cur[s] \in Order /\ orders[cur[s]] \in Row /\ Positioned(s)
      /\ HandTracked(s) /\ Sound(orders[cur[s]])
      /\ pc[s] \in {"visiting", "answered", "ingested"} /\ op[s] = "recover"
  BY DEF Base, OmsInv, Types, Tables, Locals, Fits, InHand, Positions, Tracked, Rows
<1>1. ASSUME NEW target, NEW resolve, Write(s, target, resolve, "next")
      PROVE  Legal(orders[cur[s]].status, target)
  <2>1. ~Done(s, "idle")
    BY <1>0, DoneEffect
  <2> QED
    BY <1>1, <2>1 DEF Write
<1>2. ~CancelUnresolved(s) => ~(orders[cur[s]].cancel = 1 /\ orders[cur[s]].resolved = 0)
  BY <1>0 DEF CancelUnresolved, HandTracked, SameFlags
<1>3. CASE AbortOrphan(s)
  <2>1. ~RecoveryFails(s)
    BY <1>0, DoneEffect DEF RecoveryFails
  <2>2. Write(s, "ABORTED", FALSE, "next") /\ Moves(orders[cur[s]].status, "ABORTED")
    BY <1>0, <1>3, <2>1, Walks DEF AbortOrphan, HandTracked
  <2>3. "ABORTED" \in Status \ CandidateStatus
    BY DEF Status, PreSubmit, CandidateStatus
  <2>4. orders[cur[s]].cancel # 1
    BY <1>0, <1>3 DEF AbortOrphan, HandTracked, Sound, Unsent, PreSubmit
  <2>5. Legal(orders[cur[s]].status, "ABORTED") /\ FALSE \in BOOLEAN
    BY <1>1, <2>2
  <2>6. ~RecoveryCandidate(orders'[cur[s]])
    BY <1>0, <2>2, <2>3, <2>4, <2>5, WriteClears, Zenon
  <2> QED
    BY <2>6
<1>4. CASE CancelAlreadyTerminal(s)
  <2>1. /\ Write(s, seen[s], TRUE, "next") /\ seen[s] \in Status \cup {"ABSENT"}
        /\ seen[s] = orders[cur[s]].status /\ seen[s] \notin CandidateStatus
    BY <1>0, <1>4 DEF CancelAlreadyTerminal, Locals, HandTracked, CandidateStatus, BrokerTerminal
  <2> QED
    BY <1>0, <1>1, <2>1, WriteClears
<1>5. CASE RecoveryResolvesCancel(s)
  <2>1. /\ Write(s, orders[cur[s]].status, TRUE, "next")
        /\ orders[cur[s]].status \in Status \cup {"ABSENT"}
        /\ orders[cur[s]].status \notin CandidateStatus
    BY <1>0, <1>5 DEF RecoveryResolvesCancel, Row, Cleared
  <2> QED
    BY <1>0, <1>1, <2>1, WriteClears
<1>6. CASE ApplyRecoveryAnswer(s) /\ reply[s] = NoReply
  <2>1. /\ Write(s, "MANUAL_REVIEW", CancelUnresolved(s), "next")
        /\ CancelUnresolved(s) \in BOOLEAN /\ pc[s] = "answered"
        /\ "MANUAL_REVIEW" \in Status \ CandidateStatus
    BY <1>6 DEF ApplyRecoveryAnswer, CancelUnresolved, Status, CandidateStatus
  <2>2. orders[cur[s]].status = "MANUAL_REVIEW" \/ Moves(orders[cur[s]].status, "MANUAL_REVIEW")
    BY <1>0, <2>1, Walks DEF HandTracked
  <2> QED
    BY <1>0, <1>1, <1>2, <2>1, <2>2, WriteClears
<1>7. CASE ApplyRecoveryAnswer(s) /\ reply[s] # NoReply
  <2>1. ~CancelUnresolved(s)
    <3>1. ~Done(s, "idle") /\ \A status : ~Goto(s, "ingested", status)
      BY <1>0, DoneEffect, GotoEffect
    <3> QED
      BY <1>7, <3>1 DEF ApplyRecoveryAnswer
  <2> QED
    BY <1>2, <1>7, <2>1, AnswerClears DEF SameFlags, RecoveryCandidate, CandidateStatus
<1>8. CASE Classify(s)
  <2>1. ~RecoveryFails(s)
    BY <1>0, DoneEffect DEF RecoveryFails
  <2>2. PICK target : Write(s, target, FALSE, "visiting")
    BY <1>8, <2>1 DEF Classify
  <2>3. Done(s, "idle") \/ Goto(s, "visiting", target)
    BY <2>2, WriteShape
  <2> QED
    BY <1>0, <2>3, DoneEffect, GotoEffect
<1>9. CASE Query(s) \/ QueryFails(s) \/ Crash(s) \/ Fenced(s)
  BY <1>0, <1>9, DoneEffect DEF Query, QueryFails, Crash, Fenced, Locals
<1> QED
  BY <1>0, <1>3, <1>4, <1>5, <1>6, <1>7, <1>8, <1>9
     DEF SessionStep, Step, Start, Close, Renew, StartRecovery, CreateIntent, PrepareCancel,
         Ready, Callback, RecordRiskDecision, PrepareSubmit, AssertBeforeCall, CallDriver,
         PersistUnknown, BeginReconciling, ApplyAnswer, ResolveCancel, Visit, FinishRecovery

\* recover() writes only the row of the candidate in hand.
LEMMA RecoverWrites ==
  ASSUME Base, Rows, NEW s \in Session, SessionStep(s), op[s] = "recover"
  PROVE  /\ \A o \in Order \ {cur[s]} : orders'[o] = orders[o]
         /\ ~InHand(s) => orders' = orders
<1>0. /\ OmsInv /\ Locals /\ Book /\ KeysNamed /\ orders \in [Order -> Row]
      /\ pc[s] \in {"next", "visiting", "answered", "ingested"}
      /\ pc[s] # "next" => cur[s] \in Order /\ InHand(s)
  BY DEF Base, OmsInv, Types, Tables, Locals, Fits, Positions, Positioned, Pc, InHand
<1>1. ASSUME NEW target \in Status \cup {"ABSENT"}, NEW resolve \in BOOLEAN, NEW where,
             pc[s] # "next", Write(s, target, resolve, where)
      PROVE  \A o \in Order \ {cur[s]} : orders'[o] = orders[o]
  BY <1>0, <1>1, WriteEffect
<1>2. /\ {"UNKNOWN", "RECONCILING", "CANCEL_PENDING", "ABORTED", "MANUAL_REVIEW"} \subseteq Status
      /\ seen[s] \in Status \cup {"ABSENT"} /\ CancelUnresolved(s) \in BOOLEAN
      /\ cur[s] \in Order => orders[cur[s]].status \in Status \cup {"ABSENT"}
  BY <1>0 DEF Status, PreSubmit, Locals, Row, CancelUnresolved
<1>3. CASE AbortOrphan(s) \/ Classify(s)
  BY <1>0, <1>1, <1>2, <1>3 DEF AbortOrphan, Classify, RecoveryFails, durable
<1>4. CASE CancelAlreadyTerminal(s) \/ RecoveryResolvesCancel(s)
  BY <1>0, <1>1, <1>2, <1>4 DEF CancelAlreadyTerminal, RecoveryResolvesCancel
<1>5. CASE ApplyRecoveryAnswer(s) /\ reply[s] = NoReply
  BY <1>0, <1>1, <1>2, <1>5 DEF ApplyRecoveryAnswer
<1>6. CASE ApplyRecoveryAnswer(s) /\ reply[s] # NoReply
  <2> DEFINE e == QueryEvidence(s)
  <2>1. pc[s] = "answered" /\ Ingest(s, e)
    BY <1>6 DEF ApplyRecoveryAnswer
  <2>2. e \in Fact0 /\ KeyNamed(e) /\ e.order = cur[s]
    BY <1>0, <1>6, <2>1, EvidenceTypes, EvidenceNamed DEF QueryEvidence
  <2> HIDE DEF e
  <2> QED
    BY <1>0, <2>1, <2>2, IngestEffect DEF Ingest
<1>7. CASE Crash(s) \/ Renew(s) \/ QueryFails(s) \/ Query(s) \/ Visit(s) \/ FinishRecovery(s)
           \/ Fenced(s)
  BY <1>7 DEF Crash, Renew, QueryFails, Query, Visit, FinishRecovery, Fenced, durable
<1> QED
  BY <1>0, <1>3, <1>4, <1>5, <1>6, <1>7
     DEF SessionStep, Step, Start, Close, StartRecovery, CreateIntent, PrepareCancel, Ready,
         Callback, RecordRiskDecision, PrepareSubmit, AssertBeforeCall, CallDriver,
         PersistUnknown, BeginReconciling, ApplyAnswer, ResolveCancel

\* The session that moves keeps behind it what it has cleared (service.py:176-302).
LEMMA ClearedKept ==
  ASSUME Base, Rows, Clean, NEW s \in Session, SessionStep(s), Tracked(s), Cleared(s)
  PROVE  Cleared(s)'
<1>0. OmsInv /\ Locals /\ Positioned(s)
  BY DEF Base, OmsInv, Types, Positions
<1> SUFFICES ASSUME op'[s] = "recover" PROVE Cleared(s)'
  BY DEF Cleared
<1>1. ASSUME NEW o \in Order \ todo'[s], ~(InHand(s)' /\ o = cur'[s])
      PROVE  ~RecoveryCandidate(orders'[o])
  <2>1. CASE StartRecovery(s)
    BY <1>0, <1>1, <2>1 DEF StartRecovery, Locals, durable
  <2>2. CASE Visit(s) /\ op[s] = "recover"
    <3>1. /\ pc[s] = "next" /\ InHand(s)' /\ orders' = orders
          /\ \E p \in todo[s] : cur'[s] = p /\ todo'[s] = todo[s] \ {p}
      BY <1>0, <2>2 DEF Visit, Locals, InHand, durable
    <3>2. o \notin todo[s] /\ ~InHand(s)
      BY <1>1, <3>1 DEF InHand
    <3> QED
      BY <2>2, <3>1, <3>2 DEF Cleared
  <2>3. CASE /\ op[s] = "recover" /\ todo'[s] = todo[s] /\ cur'[s] = cur[s]
             /\ InHand(s)' => InHand(s)
    <3>1. CASE ~(InHand(s) /\ o = cur[s])
      <4>1. orders'[o] = orders[o]
        BY <2>3, <3>1, RecoverWrites
      <4> QED
        BY <1>1, <2>3, <3>1, <4>1 DEF Cleared
    <3>2. CASE InHand(s) /\ o = cur[s]
      <4>1. ~InHand(s)'
        BY <1>1, <2>3, <3>2
      <4>2. pc'[s] = "next"
        <5>1. Positioned(s)' /\ OmsInv'
          BY <1>0, PositionKept, NextInv DEF Next, SessionStep
        <5> QED
          BY <4>1, <5>1 DEF OmsInv, Types, Locals, Fits, Positioned, InHand, Pc
      <4> QED
        BY <3>2, <4>2, HandCleared
    <3> QED
      BY <3>1, <3>2
  <2> QED
    BY <1>0, <2>1, <2>2, <2>3, RecoverMoves
<1>2. ASSUME pc'[s] = "ingested" PROVE orders'[cur'[s]].status \notin CandidateStatus
  <2>1. InHand(s)'
    BY <1>2 DEF InHand
  <2>2. ~StartRecovery(s) /\ ~Visit(s)
    BY <1>0, <1>2 DEF StartRecovery, Visit, Locals
  <2>3. op[s] = "recover" /\ cur'[s] = cur[s] /\ InHand(s)
    BY <1>0, <2>1, <2>2, RecoverMoves
  <2>4. pc[s] # "ingested"
    BY <1>0, <2>1, <2>3, IngestedEnds
  <2>5. ApplyRecoveryAnswer(s) /\ reply[s] # NoReply
    <3>1. ~Done(s, "idle") /\ ~Done(s, "closed") /\ \A w, status : Goto(s, w, status) => w = "ingested"
      BY <1>0, <1>2, DoneEffect, GotoEffect
    <3>2. ASSUME NEW target, NEW resolve, NEW w, w # "ingested", Write(s, target, resolve, w)
          PROVE FALSE
      BY <3>1, <3>2, WriteShape
    <3>3. ~AbortOrphan(s) /\ ~Classify(s) /\ ~CancelAlreadyTerminal(s)
      BY <3>1, <3>2 DEF AbortOrphan, Classify, CancelAlreadyTerminal, RecoveryFails
    <3>4. ~Crash(s) /\ ~QueryFails(s) /\ ~Fenced(s) /\ ~FinishRecovery(s) /\ ~Query(s)
      BY <1>0, <1>2, <3>1 DEF Crash, QueryFails, Fenced, FinishRecovery, Query, Locals
    <3>5. ApplyRecoveryAnswer(s)
      BY <2>2, <2>3, <2>4, <3>3, <3>4
         DEF InHand, SessionStep, Step, Start, Close, Renew, CreateIntent, PrepareCancel, Ready,
             Callback, RecordRiskDecision, PrepareSubmit, AssertBeforeCall, CallDriver,
             PersistUnknown, BeginReconciling, ApplyAnswer, ResolveCancel,
             RecoveryResolvesCancel
    <3> QED
      BY <3>2, <3>5 DEF ApplyRecoveryAnswer
  <2> QED
    BY <2>3, <2>5, AnswerClears
<1> QED
  BY <1>1, <1>2 DEF Cleared

\* The candidate in hand of a session that may still write contradicts nothing.
LEMMA PossibleNow ==
  Knowledge => \A s \in Session : Active(s) /\ pc[s] = "visiting" => ~ImpossibleRow(s)
  BY LegalRequests DEF Knowledge, Tracking

\* A candidate is taken, and walked on, under the lease.
LEMMA VisitingByHolder ==
  ASSUME OmsInv, NEW s \in Session, Positioned(s), SessionStep(s), pc'[s] = "visiting"
  PROVE  Active(s)'
<1>0. Locals
  BY DEF OmsInv, Types
<1>1. ~Done(s, "idle") /\ ~Done(s, "closed") /\ \A w, status : Goto(s, w, status) => w = "visiting"
  BY <1>0, DoneEffect, GotoEffect
<1>2. ASSUME NEW target, NEW resolve, NEW w, Write(s, target, resolve, w)
      PROVE  Held(s) /\ w = "visiting"
  BY <1>1, <1>2, WriteShape
<1>3. /\ ~Start(s) /\ ~Close(s) /\ ~Crash(s) /\ ~Renew(s) /\ ~StartRecovery(s) /\ ~QueryFails(s)
      /\ ~Query(s) /\ ~Fenced(s) /\ ~FinishRecovery(s)
      /\ \A o \in Order : ~CreateIntent(s, o) /\ ~PrepareCancel(s, o)
      /\ \A f \in emitted : ~Callback(s, f)
  BY <1>0, <1>1 DEF Start, Close, Crash, Renew, StartRecovery, QueryFails, Query, Fenced,
                    FinishRecovery, CreateIntent, PrepareCancel, Callback, progress, Locals
<1>4. /\ ~PrepareSubmit(s) /\ ~AssertBeforeCall(s) /\ ~CallDriver(s) /\ ~ApplyAnswer(s)
      /\ ~ApplyRecoveryAnswer(s)
  BY <1>1, <1>2 DEF PrepareSubmit, AssertBeforeCall, CallDriver, ApplyAnswer,
                    ApplyRecoveryAnswer
<1>5. CASE Visit(s)
  BY <1>5 DEF Visit, Held, Active, leaseVars
<1>6. CASE ~Visit(s)
  <2>1. Held(s)
    BY <1>1, <1>2, <1>3, <1>4, <1>6
       DEF SessionStep, Step, RecordRiskDecision, PersistUnknown, BeginReconciling,
           ResolveCancel, AbortOrphan, Classify, CancelAlreadyTerminal,
           RecoveryResolvesCancel, RecoveryFails
  <2>2. UNCHANGED <<holder, lease>>
    BY <1>3, LeaseMoves
  <2> QED
    BY <2>1, <2>2 DEF Active, Held
<1> QED
  BY <1>5, <1>6

\* With one recover() per session, Clean is inductive.
LEMMA CleanStep == OneRecovery /\ Knowledge /\ Clean /\ [Next]_vars => Clean'
<1> SUFFICES ASSUME OneRecovery, Knowledge, Clean, [Next]_vars PROVE Clean'
  OBVIOUS
<1>0. Base /\ Rows /\ Tracking /\ OmsInv /\ Locals /\ Positions
  BY DEF Knowledge, Base, OmsInv, Types
<1>1. (\A s \in Session : Active(s) /\ pc[s] = "visiting" => ~ImpossibleRow(s))'
  <2>1. Knowledge'
    BY KnowledgeStep
  <2>2. (Knowledge => \A s \in Session : Active(s) /\ pc[s] = "visiting" => ~ImpossibleRow(s))'
    BY PossibleNow, PTL
  <2> QED
    BY <2>1, <2>2
<1>2. ASSUME NEW s \in Session, SessionStep(s) PROVE Clean'
  <2>1. NoInternalFault'
    BY <1>0, <1>2, FaultsKept DEF Clean, NoInternalFault
  <2>2. \A k \in keys' : k.accepted = 1
    BY <1>0, <1>2, AcceptedKept
  <2>3. \A q \in Session : \A k \in keys' : FreshKey(q, k)'
    BY <1>0, <1>2, FreshKept
  <2>4. ASSUME NEW q \in Session, op'[q] = "recover" PROVE recoveries'[q] = 1
    <3>1. CASE q # s
      BY <1>0, <1>2, <2>4, <3>1, OthersKept DEF SameLocals, Clean
    <3>2. CASE q = s /\ StartRecovery(s)
      <4>1. recoveries'[s] = recoveries[s] + 1 /\ recoveries[s] < MaxRecoveries
            /\ recoveries[s] \in Nat
        BY <1>0, <3>2, OmsAssumption DEF StartRecovery, Locals
      <4> QED
        BY <3>2, <4>1, OmsAssumption DEF OneRecovery
    <3>3. CASE q = s /\ ~StartRecovery(s)
      <4>1. recoveries' = recoveries /\ op[s] = "recover"
        BY <1>0, <1>2, <2>4, <3>3, RecoveriesMove, RecoverMoves DEF Positions
      <4> QED
        BY <3>3, <4>1 DEF Clean
    <3> QED
      BY <3>1, <3>2, <3>3
  <2>5. ASSUME NEW q \in Session, pc'[q] = "visiting" PROVE ~ImpossibleRow(q)'
    <3>1. CASE q # s
      BY <1>0, <1>2, <2>5, <3>1, OthersKept DEF SameLocals, Clean, ImpossibleRow
    <3>2. CASE q = s
      <4>1. Active(s)'
        BY <1>0, <1>2, <2>5, <3>2, VisitingByHolder DEF Positions
      <4> QED
        BY <1>1, <2>5, <3>2, <4>1
    <3> QED
      BY <3>1, <3>2
  <2>6. ASSUME NEW q \in Session, Active(q)' PROVE Cleared(q)'
    <3>1. CASE q # s
      <4>1. Active(q) /\ SameLocals(q)
        BY <1>0, <1>2, <2>6, <3>1, ActiveMoves, OthersKept
      <4>2. orders' = orders
        BY <1>2, <3>1, <4>1, WritersHold DEF Held, Active
      <4>3. Cleared(q)
        BY <4>1 DEF Clean
      <4> QED
        BY <4>1, <4>2, <4>3 DEF SameLocals, Cleared, InHand
    <3>2. CASE q = s /\ Start(s)
      <4>1. op'[s] = "none"
        BY <1>0, <3>2 DEF Start, Positions, Positioned
      <4> QED
        BY <3>2, <4>1 DEF Cleared
    <3>3. CASE q = s /\ ~Start(s)
      <4>1. Active(s)
        BY <1>0, <1>2, <2>6, <3>3, ActiveMoves
      <4>2. Tracked(s) /\ Cleared(s)
        BY <1>0, <4>1 DEF Tracking, Clean
      <4> QED
        BY <1>0, <1>2, <3>3, <4>2, ClearedKept
    <3> QED
      BY <3>1, <3>2, <3>3
  <2> QED
    BY <2>1, <2>2, <2>3, <2>4, <2>5, <2>6 DEF Clean
<1>3. CASE BrokerStep \/ Expire \/ UNCHANGED vars
  <2>1. /\ UNCHANGED <<orders, keys, pc, op, cur, seen, todo, snap, recoveries, holder, faults>>
        /\ lease' = lease \/ lease = "live"
    BY <1>3 DEF BrokerStep, BrokerAnswers, BrokerFills, BrokerCancels, Publish, Expire, vars,
                durable, progress, leaseVars
  <2>2. \A s \in Session : Active(s)' => Active(s)
    BY <2>1 DEF Active
  <2>3. \A s \in Session : Cleared(s) => Cleared(s)'
    BY <2>1 DEF Cleared, InHand
  <2>4. \A s \in Session, k \in keys : FreshKey(s, k) => FreshKey(s, k)'
    BY <2>1 DEF FreshKey, InHand
  <2>5. \A s \in Session : ~ImpossibleRow(s) => ~ImpossibleRow(s)'
    BY <2>1 DEF ImpossibleRow
  <2> QED
    BY <2>1, <2>2, <2>3, <2>4, <2>5 DEF Clean, NoInternalFault
<1> QED
  BY <1>2, <1>3, NextCases

\* With one recover() per session, every key was accepted, every query has its own event
\* id and recovery has only settled orders behind it, in every reachable state.
THEOREM CleanHolds == OneRecovery /\ Spec => [](OneRecovery /\ Knowledge /\ Clean)
<1>1. Init => Clean
  BY DEF Init, Clean, NoInternalFault, Active
<1>2. OneRecovery /\ Knowledge /\ Clean /\ [Next]_vars => (OneRecovery /\ Knowledge /\ Clean)'
  BY KnowledgeStep, CleanStep DEF OneRecovery
<1> QED
  BY <1>1, <1>2, KnowledgeInit, PTL DEF Spec

\* With a broker that does not contradict itself and one recover() per session, no
\* operation fails on the OMS's own rules, for any number of sessions and orders and any
\* interleaving of queries, late callbacks, crashes and takeovers (service.py:176-473).
THEOREM OwnRulesNeverFail == OneRecovery /\ Spec => []NoInternalFault
<1>1. Clean => NoInternalFault
  BY DEF Clean
<1> QED
  BY <1>1, CleanHolds, PTL

\* When recover() completes, no order is left that recovery would have to visit
\* (service.py:176-302).
THEOREM RecoveryLeavesNothing == OneRecovery /\ Spec => RecoveryResolves
<1>1. Knowledge /\ Clean /\ [Next]_vars
        => [\A s \in Session :
              Held(s) /\ pc[s] = "next" /\ pc'[s] = "idle"
                => \A o \in Order : ~RecoveryCandidate(orders'[o])]_vars
  <2> SUFFICES ASSUME Knowledge, Clean, Next, NEW s \in Session, Held(s), pc[s] = "next",
                      pc'[s] = "idle", NEW o \in Order
               PROVE  ~RecoveryCandidate(orders'[o])
    OBVIOUS
  <2>0. Base /\ Rows /\ OmsInv /\ Locals
    BY DEF Knowledge, Base, OmsInv, Types
  <2>1. SessionStep(s)
    <3>1. ASSUME NEW q \in Session, SessionStep(q) PROVE q = s
      BY <2>0, <3>1, OthersKept DEF SameLocals
    <3>2. CASE BrokerStep \/ Expire
      BY <3>2 DEF BrokerStep, BrokerAnswers, BrokerFills, BrokerCancels, Publish, Expire,
                  progress
    <3> QED
      BY <3>1, <3>2 DEF Next, SessionStep, BrokerStep
  <2>2. FinishRecovery(s)
    <3>1. ~Crash(s) /\ ~Visit(s) /\ ~Renew(s)
      BY <2>0, DoneEffect DEF Crash, Visit, Renew, progress, Locals
    <3> QED
      BY <2>1, <3>1
         DEF SessionStep, Step, Start, Close, StartRecovery, QueryFails, CreateIntent,
             PrepareCancel, Ready, Callback, RecordRiskDecision, PrepareSubmit,
             AssertBeforeCall, CallDriver, PersistUnknown, BeginReconciling, Query, AtQuery,
             ApplyAnswer, ResolveCancel, AbortOrphan, Classify, CancelAlreadyTerminal,
             ApplyRecoveryAnswer, RecoveryResolvesCancel, Fenced
  <2>3. Active(s) /\ op[s] = "recover" /\ ~InHand(s)
    BY <2>0 DEF Active, Held, Locals, Fits, InHand
  <2>4. ~RecoveryCandidate(orders[o])
    BY <2>2, <2>3 DEF Clean, Cleared, FinishRecovery
  <2> QED
    BY <2>2, <2>4 DEF FinishRecovery, durable
<1> QED
  BY <1>1, CleanHolds, PTL DEF Spec, RecoveryResolves
=============================================================================
