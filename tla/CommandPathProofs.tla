-------------------------- MODULE CommandPathProofs --------------------------
(***************************************************************************)
(* CommandPath for any set of orders, commands, hosts and deployments, any *)
(* fuses and any number of restarts: a command reaches the broker at most  *)
(* once and only after its reservation, its result is unique, truthful and *)
(* acceptable to the host, and locate() never overlooks a command file.    *)
(***************************************************************************)
EXTENDS CommandPath, OrderLifecycleProofs

(***************************************************************************)
(* Types.                                                                  *)
(***************************************************************************)

Final == {"processed", "rejected", "unknown"}

BrokerState == {"none", "live", "filled", "cancelled"}

HostPc == {"down", "next", "idle", "created", "authorized", "scan", "publish", "rename",
           "published", "reconcile", "observe"}

\* The program points at which a host follows a command that has an outbox row.
Sending == {"scan", "publish", "rename", "published", "reconcile"}

VerdictRecord == [dir : Dir \cup {"none"}, status : ResultStatus \cup {"none"},
                  effect : BOOLEAN]

ResultRecord == [cmd : Command, kind : Kind, mode : Mode, status : ResultStatus,
                 effect : BOOLEAN, session : Nat]

\* Every result there is, durable or still in the bridge's memory.
Results == emitted \cup {queue[i] : i \in 1..Len(queue)}

BridgeTypes ==
  /\ TypeOK
  /\ env \in Scenario
  /\ verdict \in VerdictRecord
  /\ queue \in Seq(ResultRecord) /\ emitted \subseteq ResultRecord
  /\ broker \in [Order -> BrokerState]
  /\ bpc = "settle" => verdict.dir \in Final
  /\ bpc = "report" => verdict.status # "none"

\* The memory of a host.
LocalTypes ==
  /\ hpc \in [Host -> HostPc]
  /\ hsession \in [Host -> Nat]
  /\ hcmd \in [Host -> Command \cup {NoCommand}]
  /\ hread \in [Host -> DispatchState \cup ResultStatus]
  /\ todo \in [Host -> SUBSET (OrderCommand \cup {NoCommand})]
  /\ seen \in [Host -> Seq(Dir \cup {"none"})]
  /\ \A h \in Host :
       /\ hpc[h] \in Sending \cup {"created", "authorized"} => hcmd[h] \in OrderCommand
       /\ hpc[h] \in {"created", "authorized"} => hcmd[h][2] = "submit"
       /\ hpc[h] = "observe" => hcmd[h] \in Command

HostTypes ==
  /\ LocalTypes
  /\ rows \in [Order -> Row]
  /\ dispatch \in [Command -> DispatchState]
  /\ identity \in [Order -> {"none", "processed", "unknown"}]
  /\ journal \subseteq ResultRecord
  /\ holder \in Host \cup {NoHost}

(***************************************************************************)
(* What the executors may do.                                              *)
(***************************************************************************)

\* The three lists of the host accept a result of this kind, status and effect.
Accepted(r) == /\ ProtocolAccepts(r) /\ JournalAccepts(r)
               /\ r.mode # "SIMULATION_CALIBRATION" /\ r.kind # "snapshot" => SinkAccepts(r)

OutcomeRecord == [verdict : [dir : Final, status : ResultStatus, effect : BOOLEAN],
                  called : BOOLEAN, returned : BOOLEAN]

\* What a command's outcome may be, in one list for the three artifacts
\* (_execute_order_command): a call is admitted to only with a side effect, the shadow
\* template makes none, and a submit counts as processed only if it was sent.
LEMMA OutcomeFacts ==
  ASSUME NEW c \in OrderCommand, env \in Scenario, NEW out \in Outcomes(c)
  PROVE  /\ out \in OutcomeRecord
         /\ out.called => out.verdict.effect /\ env.mode # "SHADOW"
         /\ env.mode # "SHADOW" /\ c[2] = "submit" /\ out.verdict.dir = "processed"
              => out.called
         /\ c[2] = "cancel" /\ out.called => broker[c[1]] # "none"
         /\ env.mode = "LIVE_CANARY" /\ c[2] = "submit" /\ out.called
              => ~(submitCalls >= env.submitFuse)
         /\ out.verdict.status \in
              (IF env.mode = "SHADOW" THEN {"SHADOW_ACCEPTED"}
               ELSE {"MUTATION_UNKNOWN", "REJECTED_SAFETY_GATE"} \cup
                    (IF c[2] = "submit" THEN {"SUBMIT_CALL_RETURNED"}
                     ELSE {"CANCEL_SIGNAL_SENT", "CANCEL_NOT_CANCELLABLE", "CANCEL_NOT_SENT"}))
         /\ out.verdict.effect <=> env.mode # "SHADOW" /\ out.verdict.status \in SideEffectStatus
<1>0. c \in Order \X Kind /\ c[2] \in {"submit", "cancel"} /\ env.mode \in Mode
  BY BridgeAssumption DEF OrderCommand, Kind, IsScenario
<1> DEFINE Is(d, s, e, k) == /\ out.verdict.dir = d /\ out.verdict.status = s
                             /\ out.verdict.effect = e /\ out.called = k
<1>1. ASSUME NEW d \in Final, NEW s \in ResultStatus, NEW e \in BOOLEAN, NEW k \in BOOLEAN,
             NEW r \in BOOLEAN, out = Outcome(Verdict(d, s, e), k, r)
      PROVE  out \in OutcomeRecord /\ Is(d, s, e, k)
  BY <1>1 DEF Outcome, Verdict, OutcomeRecord
<1>2. out = Refused => out \in OutcomeRecord /\ Is("rejected", "REJECTED_SAFETY_GATE", FALSE, FALSE)
  BY <1>1 DEF Refused, Final, ResultStatus
<1>3. ASSUME NEW k \in BOOLEAN, out = Raised(k)
      PROVE  out \in OutcomeRecord /\ Is("unknown", "MUTATION_UNKNOWN", TRUE, k)
  BY <1>1, <1>3 DEF Raised, Final, ResultStatus, MutationStatus, SideEffectStatus
<1>4. ASSUME NEW s \in ResultStatus, NEW e \in BOOLEAN, NEW k \in BOOLEAN,
             out = Answered(s, e, k)
      PROVE  out \in OutcomeRecord /\ Is("processed", s, e, k)
  BY <1>1, <1>4 DEF Answered, Final
<1>5. {"SHADOW_ACCEPTED", "CANCEL_NOT_CANCELLABLE", "CANCEL_SIGNAL_SENT", "CANCEL_NOT_SENT",
       "SUBMIT_CALL_RETURNED"} \subseteq ResultStatus
  BY DEF ResultStatus, MutationStatus, SideEffectStatus
<1>6. CASE env.mode = "SHADOW"
  <2>1. out = Answered("SHADOW_ACCEPTED", FALSE, FALSE)
    BY <1>6 DEF Outcomes, ShadowOutcomes
  <2> QED
    BY <1>4, <1>5, <1>6, <2>1
<1>7. CASE env.mode # "SHADOW" /\ c[2] = "cancel"
  <2>1. out \in CancelOutcomes(c) \cup {Refused}
    BY <1>0, <1>7 DEF Outcomes, SimulationOutcomes, CanaryOutcomes
  <2>2. \/ out = Refused
        \/ /\ broker[c[1]] # "none"
           /\ \/ out = Raised(FALSE) \/ out = Raised(TRUE)
              \/ out = Answered("CANCEL_NOT_CANCELLABLE", FALSE, FALSE)
              \/ out = Answered("CANCEL_SIGNAL_SENT", TRUE, TRUE)
              \/ out = Answered("CANCEL_NOT_SENT", TRUE, TRUE)
    BY <2>1 DEF CancelOutcomes
  <2> QED
    BY <1>2, <1>3, <1>4, <1>5, <1>7, <2>2 DEF SideEffectStatus
<1>8. CASE env.mode # "SHADOW" /\ c[2] = "submit"
  <2>1. \/ out = Refused \/ out = Raised(FALSE)
        \/ /\ out = Raised(TRUE) \/ out = Answered("SUBMIT_CALL_RETURNED", TRUE, TRUE)
           /\ ~(submitCalls >= env.submitFuse)
    BY <1>0, <1>8 DEF Outcomes, SimulationOutcomes, CanaryOutcomes, CanaryPreflight
  <2> QED
    BY <1>2, <1>3, <1>4, <1>5, <1>8, <2>1 DEF SideEffectStatus
<1> QED
  BY <1>0, <1>6, <1>7, <1>8

(***************************************************************************)
(* What a step of one side leaves alone on the other.                      *)
(***************************************************************************)

HostMove(h) ==
  \/ HostStart(h) \/ HostCrash(h) \/ Lapse(h) \/ HostStep(h) \/ RefreshIdentities(h)
  \/ \E o \in Order : CreateIntent(h, o) \/ ReserveCancel(h, o) \/ IngestEvidence(h, o)
  \/ \E c \in Command : Retry(h, c)
  \/ \E r \in emitted : IngestCommandResult(h, r)

BridgeMove == BridgeStep \/ BridgeStart \/ BridgeCrash \/ Environment

HostKept == UNCHANGED <<dbVars, hostVars, holder>>

BridgeKept == UNCHANGED <<files, expired, env, broker, bridgeVars>>

\* The three actors: a host, a probe, and the bridge with its environment.
LEMMA StepCases ==
  PathNext => \/ \E h \in Host : HostMove(h)
              \/ \E c \in Command : ProbePublish(c)
              \/ BridgeMove /\ HostKept
BY DEF PathNext, HostMove, BridgeMove, HostKept, BridgeMoves

\* A host changes nothing of the bridge; of the spool it changes the inbox, by the one
\* rename that publishes a frame (commands.py:277-287).
LEMMA HostFrame ==
  ASSUME NEW h \in Host, HostMove(h)
  PROVE  BridgeKept \/ PublishRename(h)
<1> USE DEF BridgeKept, bridgeAll, spoolVars
<1>1. CASE HostStart(h) \/ HostCrash(h) \/ Lapse(h) \/ RefreshIdentities(h)
  BY <1>1 DEF HostStart, HostCrash, Lapse, RefreshIdentities
<1>2. CASE Authorize(h) \/ ReserveSubmit(h) \/ NextPlan(h) \/ LookAt(h) \/ LocateConflict(h)
  BY <1>2 DEF Authorize, ReserveSubmit, NextPlan, LookAt, LocateConflict
<1>3. CASE NotFound(h) \/ PublishCheck(h) \/ RecordState(h) \/ BeginReconciliation(h)
           \/ ObserveResult(h)
  BY <1>3 DEF NotFound, PublishCheck, RecordState, BeginReconciliation, ObserveResult
<1>4. CASE \E o \in Order : CreateIntent(h, o) \/ ReserveCancel(h, o) \/ IngestEvidence(h, o)
  BY <1>4 DEF CreateIntent, ReserveCancel, IngestEvidence
<1>5. CASE \E c \in Command : Retry(h, c)
  BY <1>5 DEF Retry
<1>6. CASE \E r \in emitted : IngestCommandResult(h, r)
  BY <1>6 DEF IngestCommandResult
<1> QED
  BY <1>1, <1>2, <1>3, <1>4, <1>5, <1>6 DEF HostMove, HostStep

\* The session pinned in a frame is the one the host was started with.
LEMMA HostPins ==
  ASSUME NEW h \in Host, HostMove(h), pinned \in [Command -> Nat], hsession \in [Host -> Nat]
  PROVE  pinned' \in [Command -> Nat]
<1> USE DEF bridgeAll, spoolVars
<1>1. CASE HostStart(h) \/ HostCrash(h) \/ Lapse(h) \/ RefreshIdentities(h)
  BY <1>1 DEF HostStart, HostCrash, Lapse, RefreshIdentities
<1>2. CASE Authorize(h) \/ NextPlan(h) \/ LookAt(h) \/ LocateConflict(h) \/ PublishRename(h)
  BY <1>2 DEF Authorize, NextPlan, LookAt, LocateConflict, PublishRename
<1>3. CASE NotFound(h) \/ PublishCheck(h) \/ RecordState(h) \/ BeginReconciliation(h)
           \/ ObserveResult(h)
  BY <1>3 DEF NotFound, PublishCheck, RecordState, BeginReconciliation, ObserveResult
<1>4. CASE \E o \in Order : CreateIntent(h, o) \/ ReserveCancel(h, o) \/ IngestEvidence(h, o)
  BY <1>4 DEF CreateIntent, ReserveCancel, IngestEvidence, Reserve
<1>5. CASE \E c \in Command : Retry(h, c)
  BY <1>5 DEF Retry
<1>6. CASE \E r \in emitted : IngestCommandResult(h, r)
  BY <1>6 DEF IngestCommandResult
<1>7. CASE ReserveSubmit(h)
  BY <1>7 DEF ReserveSubmit, Reserve
<1> QED
  BY <1>1, <1>2, <1>3, <1>4, <1>5, <1>6, <1>7 DEF HostMove, HostStep

\* The bridge, its environment and the probes leave the database and the hosts alone.
LEMMA BridgeFrame ==
  ASSUME (\E c \in Command : ProbePublish(c)) \/ (BridgeMove /\ HostKept)
  PROVE  HostKept /\ env' = env
<1> USE DEF HostKept, spoolVars, bridgeVars
<1>1. CASE \E c \in Command : ProbePublish(c)
  BY <1>1 DEF ProbePublish, Publish
<1>2. BridgeStart \/ BridgeCrash \/ Environment => env' = env
  BY DEF BridgeStart, BridgeCrash, Environment, Expires, BrokerFills
<1>3. BridgeStep => env' = env
  BY DEF BridgeStep, RecoverOrphan, Claim, OrphansDone, FrameRefused, Process, Settle,
       SettleFails, Report, Flush
<1> QED
  BY <1>1, <1>2, <1>3 DEF BridgeMove

(***************************************************************************)
(* Type correctness.                                                       *)
(***************************************************************************)

\* What a scenario is made of.
LEMMA ScenarioFacts ==
  ASSUME env \in Scenario
  PROVE  /\ env.mode \in Mode /\ env.cmds \subseteq Command /\ env.expire \subseteq Command
         /\ env.submitFuse \in Nat /\ env.cancelFuse \in Nat /\ env.sessions \in Nat
         /\ env.probe \subseteq Order /\ env.lapse \in BOOLEAN
BY BridgeAssumption DEF IsScenario

\* A command is an order and a kind, and never the placeholder.
LEMMA CommandFacts ==
  ASSUME NEW c \in Command
  PROVE  /\ c[1] \in Order /\ c[2] \in Kind /\ c = <<c[1], c[2]>> /\ c # NoCommand
         /\ c \in OrderCommand <=> c[2] \in {"submit", "cancel"}
BY BridgeAssumption DEF OrderCommand, Kind

\* The placeholder is a verdict record.
LEMMA NoVerdictFacts == NoVerdict \in VerdictRecord
BY DEF NoVerdict, VerdictRecord

\* The verdicts that are decided without the executor.
LEMMA PlainVerdicts ==
  /\ \A d \in Final, s \in {"none", "REJECTED_EXPIRED", "SNAPSHOT_EMITTED", "UNKNOWN_ORPHANED"} :
       /\ Verdict(d, s, FALSE) \in VerdictRecord /\ Verdict(d, s, FALSE).dir = d
       /\ Verdict(d, s, FALSE).status = s /\ Verdict(d, s, FALSE).effect = FALSE
  /\ \A d \in Final :
       /\ Verdict(d, "ORPHANED_UNKNOWN", TRUE) \in VerdictRecord
       /\ Verdict(d, "ORPHANED_UNKNOWN", TRUE).dir = d
       /\ Verdict(d, "ORPHANED_UNKNOWN", TRUE).status = "ORPHANED_UNKNOWN"
       /\ Verdict(d, "ORPHANED_UNKNOWN", TRUE).effect = TRUE
<1>1. Final \subseteq Dir
  BY DEF Final, Dir
<1>2. {"REJECTED_EXPIRED", "SNAPSHOT_EMITTED", "UNKNOWN_ORPHANED", "ORPHANED_UNKNOWN"}
        \subseteq ResultStatus
  BY DEF ResultStatus, MutationStatus, SideEffectStatus
<1>3. ASSUME NEW d \in Final,
             NEW s \in {"none", "REJECTED_EXPIRED", "SNAPSHOT_EMITTED", "UNKNOWN_ORPHANED"}
      PROVE  /\ Verdict(d, s, FALSE) \in VerdictRecord /\ Verdict(d, s, FALSE).dir = d
             /\ Verdict(d, s, FALSE).status = s /\ Verdict(d, s, FALSE).effect = FALSE
  BY <1>1, <1>2 DEF Verdict, VerdictRecord
<1>4. ASSUME NEW d \in Final
      PROVE  /\ Verdict(d, "ORPHANED_UNKNOWN", TRUE) \in VerdictRecord
             /\ Verdict(d, "ORPHANED_UNKNOWN", TRUE).dir = d
             /\ Verdict(d, "ORPHANED_UNKNOWN", TRUE).status = "ORPHANED_UNKNOWN"
             /\ Verdict(d, "ORPHANED_UNKNOWN", TRUE).effect = TRUE
  BY <1>1, <1>2 DEF Verdict, VerdictRecord
<1> QED
  BY <1>3, <1>4

\* A claimed command leaves Process with a verdict and typed counters.
LEMMA ProcessTypes == BridgeTypes /\ Process => BridgeTypes'
<1> SUFFICES ASSUME BridgeTypes, Process PROVE BridgeTypes'
  OBVIOUS
<1>0. /\ bpc = "claimed" /\ hand \in Command /\ hand[2] \in Kind /\ bpc' = "settle"
      /\ hand' = hand /\ UNCHANGED <<spoolVars, session, orphansDone, queue, emitted>>
      /\ env \in Scenario
  BY BridgeAssumption DEF Process, BridgeTypes, TypeOK, Decide
<1> SUFFICES /\ verdict' \in VerdictRecord /\ verdict'.dir \in Final
             /\ broker' \in [Order -> BrokerState]
             /\ halted' \in BOOLEAN /\ calls' \in [Command -> Nat]
             /\ {submitCalls, cancelCalls, crossings}' \subseteq Nat
  BY <1>0 DEF BridgeTypes, TypeOK, spoolVars
<1>1. CASE hand \in expired \/ hand[2] = "snapshot"
  <2>1. verdict' \in {Verdict("rejected", "REJECTED_EXPIRED", FALSE),
                      Verdict("processed", "SNAPSHOT_EMITTED", FALSE),
                      Verdict("unknown", "none", FALSE)}
        /\ UNCHANGED <<submitCalls, cancelCalls, halted, calls, crossings, broker>>
    BY <1>1 DEF Process, Decide
  <2>2. verdict' \in VerdictRecord /\ verdict'.dir \in Final
    BY <2>1, PlainVerdicts DEF Final
  <2> QED
    BY <2>1, <2>2 DEF BridgeTypes, TypeOK
<1>2. CASE hand \notin expired /\ hand[2] # "snapshot"
  <2>1. PICK out \in Outcomes(hand) :
          /\ verdict' = out.verdict
          /\ submitCalls' = submitCalls +
               (IF hand[2] = "submit" /\ SubmitCounted(out) THEN 1 ELSE 0)
          /\ cancelCalls' = cancelCalls +
               (IF hand[2] = "cancel" /\ out.called /\ out.returned THEN 1 ELSE 0)
          /\ halted' = (halted \/ (env.mode = "LIVE_CANARY"
                                    /\ out.verdict.status = "MUTATION_UNKNOWN"))
          /\ calls' = [calls EXCEPT ![hand] = @ + (IF out.called THEN 1 ELSE 0)]
          /\ crossings' = crossings + (IF hand[2] = "submit" /\ out.called THEN 1 ELSE 0)
          /\ \/ broker' = broker
             \/ broker' = [broker EXCEPT ![hand[1]] = IF @ = "none" THEN "live" ELSE @]
             \/ broker' = [broker EXCEPT ![hand[1]] = IF @ = "live" THEN "cancelled" ELSE @]
    BY <1>2 DEF Process, Decide
  <2>2. hand \in OrderCommand
    BY <1>0, <1>2 DEF OrderCommand
  <2>3. out \in OutcomeRecord
    BY <1>0, <2>1, <2>2, OutcomeFacts
  <2>4. verdict' \in VerdictRecord /\ verdict'.dir \in Final
    BY <2>1, <2>3 DEF OutcomeRecord, VerdictRecord, Final, Dir
  <2>5. broker' \in [Order -> BrokerState]
    BY <2>1 DEF BridgeTypes, BrokerState
  <2>6. calls' \in [Command -> Nat] /\ {submitCalls, cancelCalls, crossings}' \subseteq Nat
    <3> DEFINE a == IF hand[2] = "submit" /\ SubmitCounted(out) THEN 1 ELSE 0
               b == IF hand[2] = "cancel" /\ out.called /\ out.returned THEN 1 ELSE 0
               d == IF hand[2] = "submit" /\ out.called THEN 1 ELSE 0
               e == IF out.called THEN 1 ELSE 0
    <3>1. a \in Nat /\ b \in Nat /\ d \in Nat /\ e \in Nat
      OBVIOUS
    <3>2. /\ submitCalls' = submitCalls + a /\ cancelCalls' = cancelCalls + b
          /\ crossings' = crossings + d /\ calls' = [calls EXCEPT ![hand] = @ + e]
      BY <2>1
    <3> HIDE DEF a, b, d, e
    <3>3. calls[hand] + e \in Nat
      BY <1>0, <3>1 DEF BridgeTypes, TypeOK
    <3>4. submitCalls + a \in Nat /\ cancelCalls + b \in Nat /\ crossings + d \in Nat
      <4>1. submitCalls \in Nat /\ cancelCalls \in Nat /\ crossings \in Nat
        BY DEF BridgeTypes, TypeOK
      <4> QED
        BY <3>1, <4>1
    <3>5. calls' \in [Command -> Nat]
      BY <3>2, <3>3 DEF BridgeTypes, TypeOK
    <3> QED
      BY <3>2, <3>4, <3>5
  <2>7. halted' \in BOOLEAN
    BY <2>1
  <2> QED
    BY <2>4, <2>5, <2>6, <2>7
<1> QED
  BY <1>1, <1>2

\* The bridge's own steps keep the bridge's types.
LEMMA BridgeStepTypes == BridgeTypes /\ (BridgeStep \/ BridgeStart \/ BridgeCrash) => BridgeTypes'
<1> SUFFICES ASSUME BridgeTypes, BridgeStep \/ BridgeStart \/ BridgeCrash PROVE BridgeTypes'
  OBVIOUS
<1> USE DEF BridgeTypes, TypeOK, spoolVars
<1>1. CASE BridgeStart
  BY <1>1 DEF BridgeStart
<1>2. CASE BridgeCrash
  <2>1. <<>> \in Seq(ResultRecord)
    OBVIOUS
  <2>2. orphansDone' \in BOOLEAN /\ halted' \in BOOLEAN
    BY <1>2, Zenon DEF BridgeCrash
  <2>3. /\ bpc' = "down" /\ hand' = NoCommand /\ verdict' = NoVerdict /\ queue' = <<>>
        /\ submitCalls' = 0 /\ cancelCalls' = 0 /\ crossings' = 0
        /\ UNCHANGED <<files, pinned, expired, env, session, emitted, broker, calls>>
    BY <1>2 DEF BridgeCrash
  <2> QED
    BY <2>1, <2>2, <2>3, NoVerdictFacts
<1>3. ASSUME NEW c \in Command, RecoverOrphan(c) PROVE BridgeTypes'
  <2>1. OrphanVerdict(c) \in VerdictRecord /\ OrphanVerdict(c).status # "none"
    BY PlainVerdicts DEF OrphanVerdict, Final
  <2>2. files' \in [Command -> SUBSET Dir]
    BY <1>3 DEF RecoverOrphan, Dir
  <2> QED
    BY <1>3, <2>1, <2>2 DEF RecoverOrphan
<1>4. ASSUME NEW c \in Command, Claim(c) PROVE BridgeTypes'
  BY <1>4 DEF Claim, Dir
<1>5. CASE OrphansDone
  BY <1>5 DEF OrphansDone
<1>6. CASE FrameRefused
  BY <1>6, PlainVerdicts DEF FrameRefused, Decide, Final
<1>7. CASE Process
  BY <1>7, ProcessTypes
<1>8. CASE Settle
  <2>1. files' \in [Command -> SUBSET Dir]
    BY <1>8 DEF Settle, Dir, Final
  <2> QED
    BY <1>8, <2>1, NoVerdictFacts DEF Settle
<1>9. CASE SettleFails
  <2>1. files' \in [Command -> SUBSET Dir]
    BY <1>9 DEF SettleFails, Dir
  <2> QED
    BY <1>9, <2>1, NoVerdictFacts DEF SettleFails
<1>10. CASE Report
  <2>1. Result \in ResultRecord
    BY <1>10, ScenarioFacts, CommandFacts DEF Report, Result, ResultRecord, VerdictRecord
  <2> QED
    BY <1>10, <2>1 DEF Report, NoVerdict, VerdictRecord
<1>11. CASE Flush
  BY <1>11 DEF Flush
<1> QED
  BY <1>1, <1>2, <1>3, <1>4, <1>5, <1>6, <1>7, <1>8, <1>9, <1>10, <1>11 DEF BridgeStep

\* So does every step of the composition.
LEMMA SpoolTypes ==
  ASSUME BridgeTypes, hsession \in [Host -> Nat], [PathNext]_pathVars
  PROVE  BridgeTypes'
<1> USE DEF BridgeTypes, TypeOK
<1>1. CASE UNCHANGED pathVars
  BY <1>1 DEF pathVars, bridgeAll, spoolVars, bridgeVars
<1>2. ASSUME NEW h \in Host, HostMove(h) PROVE BridgeTypes'
  <2>1. pinned' \in [Command -> Nat]
    BY <1>2, HostPins
  <2>2. CASE BridgeKept
    BY <2>1, <2>2 DEF BridgeKept, bridgeVars
  <2>3. CASE PublishRename(h)
    BY <2>1, <2>3 DEF PublishRename, bridgeVars, Dir
  <2> QED
    BY <1>2, <2>2, <2>3, HostFrame
<1>3. ASSUME NEW c \in Command, ProbePublish(c) PROVE BridgeTypes'
  BY <1>3 DEF ProbePublish, Publish, bridgeVars, Dir
<1>4. CASE Environment
  <2>1. ASSUME NEW c \in Command, Expires(c) PROVE BridgeTypes'
    BY <2>1 DEF Expires, bridgeVars
  <2>2. ASSUME NEW o \in Order, BrokerFills(o) PROVE BridgeTypes'
    BY <2>2 DEF BrokerFills, bridgeVars, spoolVars, BrokerState
  <2> QED
    BY <1>4, <2>1, <2>2 DEF Environment
<1>5. CASE BridgeMove
  BY <1>4, <1>5, BridgeStepTypes DEF BridgeMove
<1> QED
  BY <1>1, <1>2, <1>3, <1>5, StepCases

(***************************************************************************)
(* What a host does to the broker_orders table.                            *)
(***************************************************************************)

\* The row of order o after a step of host h: flags are never taken back, and a row that
\* begins to look sent has its submit reserved, or is the row of an order the broker
\* knows or of a command the host follows.
RowStep(h, o) ==
  /\ rows'[o] \in Row
  /\ rows[o].submit = 1 => rows'[o].submit = 1
  /\ rows[o].cancel = 1 => rows'[o].cancel = 1 \/ rows[o].status = "ABSENT"
  /\ rows'[o].status = "ABSENT" => rows[o].status = "ABSENT" /\ rows'[o].cancel = rows[o].cancel
  /\ \/ rows'[o].submit = 1
     \/ rows'[o].status \in Unsent
     \/ rows[o].status \notin Unsent
     \/ broker[o] # "none"
     \/ hpc[h] = "scan" /\ hcmd[h][1] = o
  /\ \/ rows[o].status # "ABSENT"
     \/ rows'[o].status = "ABSENT"
     \/ rows'[o].submit = 1
     \/ o \notin env.probe
     \/ hpc[h] = "scan" /\ hcmd[h][1] = o

\* _validate_dispatch_invariants only ever moves a row to manual review
\* (guojin_sim_oms.py:449-506).
LEMMA ValidatedFacts ==
  ASSUME NEW row \in Row, NEW o, NEW s
  PROVE  /\ Validated(row, o, s) \in Row
         /\ Validated(row, o, s).submit = row.submit
         /\ Validated(row, o, s).cancel = row.cancel
         /\ Validated(row, o, s).status = "ABSENT" => row.status = "ABSENT"
         /\ \/ Validated(row, o, s).status = row.status
            \/ row.status \notin Unsent
<1>1. row.filled \in 0..Quantity /\ row.status \in Status \cup {"ABSENT"}
  BY DEF Row
<1> DEFINE r == ReviewRow(row, row.filled)
<1>2. r \in Row /\ r.submit = row.submit /\ r.cancel = row.cancel /\ r.status = "MANUAL_REVIEW"
  BY <1>1, ReviewRowFacts
<1>3. LET t == [r EXCEPT !.resolved = 1]
      IN  t \in Row /\ t.submit = row.submit /\ t.cancel = row.cancel /\ t.status = "MANUAL_REVIEW"
  BY <1>2 DEF Row
<1>4. {"SUBMITTING", "ACKNOWLEDGED", "PARTIALLY_FILLED", "CANCEL_PENDING"} \cap Unsent = {}
  BY DEF Unsent, PreSubmit
<1>5. \/ Validated(row, o, s) = row
      \/ row.status \notin Unsent /\ Validated(row, o, s) = r
      \/ row.status \notin Unsent /\ Validated(row, o, s) = [r EXCEPT !.resolved = 1]
  BY <1>4 DEF Validated
<1> QED
  BY <1>2, <1>3, <1>5

\* An imported order enters with its submit reserved (durable_identity.py:18-155).
LEMMA ImportedRows ==
  ASSUME rows \in [Order -> Row], NEW h \in Host, NEW s, Imported(s)
  PROVE  rows' \in [Order -> Row] /\ \A o \in Order : RowStep(h, o)
<1> DEFINE new == [AbsentRow EXCEPT !.status = "RECONCILING", !.submit = 1]
<1>1. new \in Row /\ new.submit = 1
  <2>1. 0 \in 0..Quantity /\ "RECONCILING" \in Status
    BY QuantityAssumption DEF Status
  <2>2. AbsentRow \in Row
    BY <2>1 DEF AbsentRow, Row
  <2> QED
    BY <2>1, <2>2 DEF Row
<1>2. ASSUME NEW o \in Order
      PROVE  \/ rows'[o] = Validated(rows[o], o, s)
             \/ rows[o].status = "ABSENT" /\ rows'[o] = new
  BY DEF Imported
<1>3. ASSUME NEW o \in Order PROVE RowStep(h, o)
  <2>1. CASE rows'[o] = Validated(rows[o], o, s)
    <3> DEFINE v == Validated(rows[o], o, s)
    <3>1. /\ v \in Row /\ v.submit = rows[o].submit /\ v.cancel = rows[o].cancel
          /\ v.status = "ABSENT" => rows[o].status = "ABSENT"
          /\ v.status = rows[o].status \/ rows[o].status \notin Unsent
      BY ValidatedFacts
    <3>2. "ABSENT" \in Unsent
      BY DEF Unsent
    <3> HIDE DEF v
    <3> QED
      BY <2>1, <3>1, <3>2 DEF RowStep, v
  <2>2. CASE rows[o].status = "ABSENT" /\ rows'[o] = new
    <3>1. new.status = "RECONCILING"
      BY DEF AbsentRow
    <3> QED
      BY <1>1, <2>2, <3>1 DEF RowStep
  <2> QED
    BY <1>2, <2>1, <2>2
<1>4. rows' = [o \in Order |-> rows'[o]]
  BY DEF Imported
<1> QED
  BY <1>3, <1>4 DEF RowStep

\* The rows of one order only: the others keep theirs.
LEMMA OneRow ==
  ASSUME rows \in [Order -> Row], NEW h \in Host, NEW o \in Order, NEW row \in Row,
         rows' = [rows EXCEPT ![o] = row], RowStep(h, o)
  PROVE  rows' \in [Order -> Row] /\ \A p \in Order : RowStep(h, p)
<1>1. ASSUME NEW p \in Order, p # o PROVE RowStep(h, p)
  <2>1. rows'[p] = rows[p] /\ rows[p] \in Row
    BY <1>1
  <2> QED
    BY <2>1 DEF RowStep
<1> QED
  BY <1>1

\* begin_reconciling moves a row only where the broker may have been called
\* (repository.py:399-430).
LEMMA ReconciledFacts ==
  ASSUME NEW row \in Row, NEW begin \in BOOLEAN
  PROVE  /\ ReconciledRow(row, begin) \in Row
         /\ ReconciledRow(row, begin).submit = row.submit
         /\ ReconciledRow(row, begin).cancel = row.cancel
         /\ ReconciledRow(row, begin).status = "ABSENT" => row.status = "ABSENT"
         /\ ReconciledRow(row, begin).status = row.status \/ row.status \notin Unsent
<1> DEFINE target == IF begin /\ row.status \in {"SUBMITTING", "CANCEL_PENDING"} THEN "UNKNOWN"
                     ELSE IF begin /\ row.status = "UNKNOWN" THEN "RECONCILING"
                     ELSE row.status
<1>1. target \in Status \cup {"ABSENT"}
  BY DEF Row, Status
<1>2. target = row.status \/ (row.status \notin Unsent /\ target # "ABSENT")
  BY DEF Unsent, PreSubmit
<1>3. ReconciledRow(row, begin) = TransitionRow(row, target, FALSE)
  BY DEF ReconciledRow
<1> HIDE DEF target
<1> QED
  BY <1>1, <1>2, <1>3, TransitionRowFacts

\* Every step of a host, seen from one row (guojin_sim_oms.py, command_results.py).
LEMMA HostRows ==
  ASSUME BridgeTypes, HostTypes, NEW h \in Host, HostMove(h)
  PROVE  rows' \in [Order -> Row] /\ \A o \in Order : RowStep(h, o)
<1> DEFINE Goal == rows' \in [Order -> Row] /\ \A o \in Order : RowStep(h, o)
<1>0. rows \in [Order -> Row] /\ \A c \in Command : c[1] \in Order
  BY CommandFacts DEF HostTypes
<1>1. ASSUME rows' = rows PROVE Goal
  BY <1>0, <1>1 DEF RowStep
<1>2. CASE HostStart(h)
  BY <1>0, <1>2, ImportedRows DEF HostStart
<1>3. CASE RefreshIdentities(h)
  BY <1>0, <1>3, ImportedRows DEF RefreshIdentities
<1>4. ASSUME NEW o \in Order, CreateIntent(h, o) PROVE Goal
  <2> DEFINE row == [rows[o] EXCEPT !.status = "CREATED"]
  <2>1. rows' = [rows EXCEPT ![o] = row] /\ o \notin env.probe
    BY <1>4 DEF CreateIntent
  <2>2. row \in Row /\ row.submit = rows[o].submit /\ row.cancel = rows[o].cancel
        /\ row.status \in Unsent /\ row.status # "ABSENT"
    BY <1>0 DEF Row, Status, PreSubmit, Unsent
  <2>3. rows'[o] = row
    BY <1>0, <2>1
  <2> HIDE DEF row
  <2>4. RowStep(h, o)
    BY <2>1, <2>2, <2>3 DEF RowStep
  <2> QED
    BY <1>0, <2>1, <2>2, <2>4, OneRow
<1>5. CASE Authorize(h)
  <2> DEFINE o == hcmd[h][1]
             row == TransitionRow(rows[o], "RISK_ACCEPTED", FALSE)
  <2>1. o \in Order
    BY <1>0, <1>5 DEF Authorize, At, HostTypes, LocalTypes, OrderCommand
  <2>2. "RISK_ACCEPTED" \in Status \cap Unsent
    BY DEF Status, PreSubmit, Unsent
  <2>3. /\ row \in Row /\ row.submit = rows[o].submit /\ row.cancel = rows[o].cancel
        /\ row.status \in {rows[o].status, "RISK_ACCEPTED"}
    BY <1>0, <2>1, <2>2, TransitionRowFacts
  <2>4. rows[o].status = "ABSENT" => row.status = "ABSENT"
    BY <1>0, <2>1 DEF TransitionRow, Moves, Allowed, Row
  <2>5. rows' = [rows EXCEPT ![o] = row]
    BY <1>5 DEF Authorize
  <2> HIDE DEF o, row
  <2>6. rows'[o] = row
    BY <1>0, <2>1, <2>5
  <2>7. RowStep(h, o)
    BY <2>2, <2>3, <2>4, <2>6 DEF RowStep
  <2> QED
    BY <1>0, <2>1, <2>3, <2>5, <2>7, OneRow
<1>6. ASSUME NEW c \in OrderCommand, Reserve(h, c),
             c[2] = "submit" \/ rows[c[1]].status \in {"ACKNOWLEDGED", "PARTIALLY_FILLED"}
      PROVE  Goal
  <2> DEFINE o == c[1]
             row == IF c[2] = "submit"
                    THEN [rows[o] EXCEPT !.status = "SUBMITTING", !.submit = 1]
                    ELSE [rows[o] EXCEPT !.status = "CANCEL_PENDING", !.cancel = 1,
                                         !.resolved = 0]
  <2>1. o \in Order
    BY <1>0 DEF OrderCommand
  <2>2. /\ row \in Row
        /\ row.submit = (IF c[2] = "submit" THEN 1 ELSE rows[o].submit)
        /\ row.cancel = (IF c[2] = "submit" THEN rows[o].cancel ELSE 1)
        /\ row.status \in {"SUBMITTING", "CANCEL_PENDING"}
    BY <1>0, <2>1 DEF Row, Status
  <2>3. rows' = [rows EXCEPT ![o] = row]
    BY <1>6 DEF Reserve
  <2>4. {"ACKNOWLEDGED", "PARTIALLY_FILLED"} \cap Unsent = {}
    BY DEF Unsent, PreSubmit
  <2>5. c[2] # "submit" => rows[o].status \in {"ACKNOWLEDGED", "PARTIALLY_FILLED"}
    BY <1>6
  <2> HIDE DEF o, row
  <2>6. rows'[o] = row
    BY <1>0, <2>1, <2>3
  <2>7. RowStep(h, o)
    BY <2>2, <2>4, <2>5, <2>6 DEF RowStep
  <2> QED
    BY <1>0, <2>1, <2>2, <2>3, <2>7, OneRow
<1>7. CASE ReserveSubmit(h)
  BY <1>6, <1>7 DEF ReserveSubmit, At, HostTypes, LocalTypes
<1>8. ASSUME NEW o \in Order, ReserveCancel(h, o) PROVE Goal
  <2>1. <<o, "cancel">> \in OrderCommand
    BY <1>8, ScenarioFacts DEF ReserveCancel, OrderCommand, BridgeTypes
  <2> QED
    BY <1>6, <1>8, <2>1 DEF ReserveCancel
<1>9. CASE NotFound(h)
  <2>1. CASE rows' = rows
    BY <1>1, <2>1
  <2>2. CASE FailManualReview(hcmd[h])
    <3> DEFINE c == hcmd[h]
               o == c[1]
               row == [ReviewRow(rows[o], rows[o].filled) EXCEPT
                         !.resolved = IF c[2] = "cancel" THEN 1 ELSE rows[o].resolved]
    <3>1. o \in Order /\ hpc[h] = "scan"
      BY <1>0, <1>9 DEF NotFound, At, HostTypes, LocalTypes, Sending, OrderCommand
    <3>2. rows[o] \in Row /\ rows[o].filled \in 0..Quantity
      BY <1>0, <3>1 DEF Row
    <3>3. LET r == ReviewRow(rows[o], rows[o].filled)
          IN  r \in Row /\ r.submit = rows[o].submit /\ r.cancel = rows[o].cancel
              /\ r.status = "MANUAL_REVIEW"
      BY <3>2, ReviewRowFacts
    <3>4. /\ row \in Row /\ row.submit = rows[o].submit /\ row.cancel = rows[o].cancel
          /\ row.status = "MANUAL_REVIEW"
      BY <3>2, <3>3 DEF Row
    <3>5. rows' = [rows EXCEPT ![o] = row]
      BY <2>2 DEF FailManualReview
    <3> HIDE DEF row
    <3>6. rows'[o] = row
      BY <1>0, <3>1, <3>5
    <3>7. RowStep(h, o)
      BY <3>1, <3>4, <3>6 DEF RowStep
    <3> HIDE DEF o
    <3> QED
      BY <1>0, <3>1, <3>4, <3>5, <3>7, OneRow
  <2> QED
    BY <1>9, <2>1, <2>2 DEF NotFound, dbVars
<1>10. ASSUME NEW o \in Order, NEW begin \in BOOLEAN,
              rows' = [rows EXCEPT ![o] = ReconciledRow(rows[o], begin)]
       PROVE  Goal
  <2> DEFINE row == ReconciledRow(rows[o], begin)
  <2>1. /\ row \in Row /\ row.submit = rows[o].submit /\ row.cancel = rows[o].cancel
        /\ row.status = "ABSENT" => rows[o].status = "ABSENT"
        /\ row.status = rows[o].status \/ rows[o].status \notin Unsent
    BY <1>0, ReconciledFacts
  <2>2. rows' = [rows EXCEPT ![o] = row]
    BY <1>10
  <2>3. "ABSENT" \in Unsent
    BY DEF Unsent
  <2> HIDE DEF row
  <2>4. rows'[o] = row
    BY <1>0, <2>2
  <2>5. RowStep(h, o)
    BY <2>1, <2>3, <2>4 DEF RowStep
  <2> QED
    BY <1>0, <2>1, <2>2, <2>5, OneRow
<1>11. CASE BeginReconciliation(h)
  <2>1. hcmd[h][1] \in Order
    BY <1>0, <1>11 DEF BeginReconciliation, At, HostTypes, LocalTypes, Sending, OrderCommand
  <2> QED
    BY <1>1, <1>10, <1>11, <2>1 DEF BeginReconciliation
<1>12. ASSUME NEW r \in emitted, IngestCommandResult(h, r) PROVE Goal
  <2>1. r.cmd[1] \in Order
    BY <1>0, <1>12 DEF BridgeTypes, ResultRecord
  <2>2. BeginsReconciling(r) \in BOOLEAN
    BY DEF BeginsReconciling
  <2>3. CASE r \in journal
    <3> DEFINE o == r.cmd[1]
               row == IF r \in journal THEN rows[o] ELSE ReconciledRow(rows[o], BeginsReconciling(r))
    <3>1. rows' = [rows EXCEPT ![o] = row]
      BY <1>12 DEF IngestCommandResult, JournalResult
    <3>2. row = rows[o]
      BY <2>3
    <3> HIDE DEF row
    <3>3. rows' = rows
      BY <1>0, <3>1, <3>2
    <3> QED
      BY <1>1, <3>3
  <2>4. CASE r \notin journal
    BY <1>10, <1>12, <2>1, <2>2, <2>4 DEF IngestCommandResult, JournalResult
  <2> QED
    BY <2>3, <2>4
<1>13. ASSUME NEW o \in Order, IngestEvidence(h, o) PROVE Goal
  <2> DEFINE e == BrokerFact(o)
             row == MergedRow(rows[o], e)
  <2>1. e.status \in BrokerStatus /\ e.filled \in 0..Quantity /\ e.bid = o
    BY QuantityAssumption DEF BrokerFact, BrokerStatus, BrokerTerminal
  <2>2. e.bid \in BrokerId \cup {NoId}
    BY <2>1, PathAssumption
  <2> HIDE DEF e
  <2>3. row \in Row /\ row.submit = rows[o].submit /\ row.cancel = rows[o].cancel
        /\ row.status \in {rows[o].status} \cup BrokerStatus
    BY <1>0, <2>1, <2>2, MergedRowFacts
  <2>4. rows' = [rows EXCEPT ![o] = row] /\ broker[o] # "none" /\ rows[o].status # "ABSENT"
    BY <1>13 DEF IngestEvidence, e
  <2>5. "ABSENT" \notin BrokerStatus
    BY DEF BrokerStatus, BrokerTerminal
  <2> HIDE DEF row
  <2>6. rows'[o] = row
    BY <1>0, <2>4
  <2>7. RowStep(h, o)
    BY <2>3, <2>4, <2>5, <2>6 DEF RowStep
  <2> QED
    BY <1>0, <2>3, <2>4, <2>7, OneRow
<1>14. CASE HostCrash(h) \/ Lapse(h) \/ NextPlan(h) \/ LookAt(h) \/ LocateConflict(h)
            \/ PublishCheck(h) \/ PublishRename(h) \/ RecordState(h) \/ ObserveResult(h)
            \/ \E c \in Command : Retry(h, c)
  BY <1>1, <1>14 DEF HostCrash, Lapse, NextPlan, LookAt, LocateConflict, PublishCheck,
     PublishRename, RecordState, ObserveResult, Retry, dbVars
<1> QED
  BY <1>2, <1>3, <1>4, <1>5, <1>7, <1>8, <1>9, <1>11, <1>12, <1>13, <1>14
     DEF HostMove, HostStep

(***************************************************************************)
(* The memory of a host keeps its types.                                   *)
(***************************************************************************)

\* A host that dies leaves its memory typed.
LEMMA DiesLocals == ASSUME LocalTypes, NEW h \in Host, Dies(h) PROVE LocalTypes'
<1>1. <<>> \in Seq(Dir \cup {"none"}) /\ "none" \in DispatchState
  BY DEF DispatchState
<1> QED
  BY <1>1 DEF LocalTypes, Dies, Goto, HostPc, Sending

\* A host that ends its operation leaves its memory typed.
LEMMA FinishLocals == ASSUME LocalTypes, NEW h \in Host, Finish(h) PROVE LocalTypes'
<1>1. <<>> \in Seq(Dir \cup {"none"}) /\ "none" \in DispatchState
  BY DEF DispatchState
<1> QED
  BY <1>1 DEF LocalTypes, Finish, Goto, HostPc, Sending

\* A host that gives up leaves its memory typed.
LEMMA AbortsLocals == ASSUME LocalTypes, NEW h \in Host, Aborts(h) PROVE LocalTypes'
BY DiesLocals, FinishLocals DEF Aborts

\* A host that starts locate() leaves its memory typed.
LEMMA ScanningLocals ==
  ASSUME LocalTypes, NEW h \in Host, NEW c \in OrderCommand, NEW st \in DispatchState,
         Scanning(h, c, st), hsession' = hsession,
         todo' \in [Host -> SUBSET (OrderCommand \cup {NoCommand})]
  PROVE  LocalTypes'
<1>1. <<>> \in Seq(Dir \cup {"none"}) /\ OrderCommand \subseteq Command
  BY DEF OrderCommand
<1> QED
  BY <1>1 DEF LocalTypes, Scanning, Goto, HostPc, Sending

\* The host moves on with the command it has in hand.
LEMMA GotoLocals ==
  ASSUME LocalTypes, NEW h \in Host, NEW where \in HostPc, Goto(h, where),
         UNCHANGED <<hsession, hcmd, hread, todo, seen>>,
         where \in Sending => hpc[h] \in Sending,
         where \in {"created", "authorized"} => hpc[h] \in {"created", "authorized"},
         where # "observe"
  PROVE  LocalTypes'
BY DEF LocalTypes, Goto, HostPc, Sending

\* Every step of a host keeps the hosts' memory typed.
LEMMA HostLocals ==
  ASSUME BridgeTypes, HostTypes, NEW h \in Host, HostMove(h)
  PROVE  LocalTypes'
<1>0. LocalTypes /\ dispatch \in [Command -> DispatchState] /\ session \in Nat
      /\ OrderCommand \subseteq Command
  BY DEF HostTypes, BridgeTypes, TypeOK, OrderCommand
<1>1. CASE HostStart(h)
  BY <1>0, <1>1 DEF HostStart, LocalTypes, Goto, HostPc, Sending, Plans
<1>2. CASE HostCrash(h)
  BY <1>0, <1>2, DiesLocals DEF HostCrash
<1>3. CASE Lapse(h) \/ RefreshIdentities(h) \/ \E o \in Order : IngestEvidence(h, o)
  BY <1>0, <1>3 DEF Lapse, RefreshIdentities, IngestEvidence, hostVars, LocalTypes
<1>4. ASSUME NEW o \in Order, CreateIntent(h, o) PROVE LocalTypes'
  <2>1. <<o, "submit">> \in OrderCommand
    BY <1>4, ScenarioFacts DEF CreateIntent, OrderCommand, BridgeTypes
  <2> QED
    BY <1>0, <1>4, <2>1 DEF CreateIntent, LocalTypes, Goto, HostPc, Sending
<1>5. CASE Authorize(h)
  BY <1>0, <1>5, GotoLocals DEF Authorize, At, HostPc, Sending
<1>6. CASE ReserveSubmit(h)
  <2>1. hcmd[h] \in OrderCommand /\ "PLANNED" \in DispatchState
    BY <1>0, <1>6 DEF ReserveSubmit, At, LocalTypes, DispatchState
  <2> QED
    BY <1>0, <1>6, <2>1, ScanningLocals DEF ReserveSubmit, LocalTypes
<1>7. ASSUME NEW o \in Order, ReserveCancel(h, o) PROVE LocalTypes'
  <2>1. <<o, "cancel">> \in OrderCommand /\ "PLANNED" \in DispatchState
    BY <1>7, ScenarioFacts DEF ReserveCancel, OrderCommand, BridgeTypes, DispatchState
  <2> QED
    BY <1>0, <1>7, <2>1, ScanningLocals DEF ReserveCancel, LocalTypes
<1>8. ASSUME NEW c \in Command, Retry(h, c) PROVE LocalTypes'
  BY <1>0, <1>8, ScanningLocals DEF Retry, LocalTypes
<1>9. CASE NextPlan(h)
  <2>1. CASE todo[h] = {NoCommand}
    BY <1>0, <1>9, <2>1 DEF NextPlan, LocalTypes, Goto, HostPc, Sending
  <2>2. CASE todo[h] # {NoCommand}
    <3>1. PICK c \in todo[h] \ {NoCommand} : /\ Scanning(h, c, dispatch[c])
                                             /\ todo' = [todo EXCEPT ![h] = @ \ {c}]
      BY <1>9, <2>2 DEF NextPlan
    <3>2. c \in OrderCommand /\ dispatch[c] \in DispatchState
      BY <1>0, <3>1 DEF LocalTypes
    <3>3. todo' \in [Host -> SUBSET (OrderCommand \cup {NoCommand})]
      BY <1>0, <3>1 DEF LocalTypes
    <3> QED
      BY <1>0, <1>9, <3>1, <3>2, <3>3, ScanningLocals DEF NextPlan
  <2> QED
    BY <2>1, <2>2
<1>10. CASE LookAt(h)
  <2> DEFINE found == IF Looked(h) \in files[hcmd[h]] THEN Looked(h) ELSE "none"
  <2>1. hcmd[h] \in Command
    BY <1>0, <1>10 DEF LookAt, At, LocalTypes, Sending
  <2>2. found \in Dir \cup {"none"}
    BY <2>1 DEF BridgeTypes, TypeOK
  <2>3. seen' = [seen EXCEPT ![h] = Append(@, found)]
    BY <1>10 DEF LookAt
  <2> HIDE DEF found
  <2>4. seen' \in [Host -> Seq(Dir \cup {"none"})]
    BY <1>0, <2>2, <2>3 DEF LocalTypes
  <2> QED
    BY <1>0, <1>10, <2>4 DEF LookAt, LocalTypes
<1>11. CASE LocateConflict(h)
  BY <1>0, <1>11, AbortsLocals DEF LocateConflict
<1>12. CASE NotFound(h)
  BY <1>0, <1>12, GotoLocals, FinishLocals DEF NotFound, At, HostPc, Sending
<1>13. CASE PublishCheck(h)
  BY <1>0, <1>13, GotoLocals, AbortsLocals DEF PublishCheck, At, HostPc, Sending
<1>14. CASE PublishRename(h)
  BY <1>0, <1>14, GotoLocals DEF PublishRename, At, HostPc, Sending
<1>15. CASE RecordState(h)
  BY <1>0, <1>15, GotoLocals, AbortsLocals DEF RecordState, At, HostPc, Sending
<1>16. CASE BeginReconciliation(h)
  BY <1>0, <1>16, FinishLocals DEF BeginReconciliation, hostVars, LocalTypes
<1>17. CASE ObserveResult(h)
  BY <1>0, <1>17, FinishLocals DEF ObserveResult
<1>18. ASSUME NEW r \in emitted, IngestCommandResult(h, r) PROVE LocalTypes'
  <2>1. r.cmd \in Command /\ r.status \in ResultStatus
    BY DEF BridgeTypes, ResultRecord
  <2> QED
    BY <1>0, <1>18, <2>1 DEF IngestCommandResult, LocalTypes, Goto, HostPc, Sending
<1> QED
  BY <1>1, <1>2, <1>3, <1>4, <1>5, <1>6, <1>7, <1>8, <1>9, <1>10, <1>11, <1>12, <1>13, <1>14,
     <1>15, <1>16, <1>17, <1>18 DEF HostMove, HostStep

(***************************************************************************)
(* What a host does to the outbox.                                         *)
(***************************************************************************)

\* The row of command c after a step of host h: it is never deleted, and a new one belongs
\* to an order command of a running host.
DispatchStep(h, c) ==
  /\ dispatch'[c] \in DispatchState
  /\ dispatch[c] # "none" => dispatch'[c] # "none"
  /\ dispatch[c] = "none" /\ dispatch'[c] # "none" => hpc[h] # "down" /\ c \in OrderCommand

\* Writing one outbox row is a step of the dispatch protocol for every row.
LEMMA OneDispatch ==
  ASSUME HostTypes, NEW h \in Host, NEW c \in Command, NEW st \in DispatchState,
         dispatch' = [dispatch EXCEPT ![c] = st], DispatchStep(h, c)
  PROVE  dispatch' \in [Command -> DispatchState] /\ \A d \in Command : DispatchStep(h, d)
<1>1. ASSUME NEW d \in Command, d # c PROVE DispatchStep(h, d)
  BY <1>1 DEF DispatchStep, HostTypes
<1> QED
  BY <1>1 DEF HostTypes

\* A host moves outbox rows only as the dispatch protocol allows.
LEMMA HostDispatch ==
  ASSUME BridgeTypes, HostTypes, NEW h \in Host, HostMove(h)
  PROVE  dispatch' \in [Command -> DispatchState] /\ \A c \in Command : DispatchStep(h, c)
<1> DEFINE Goal == dispatch' \in [Command -> DispatchState]
                   /\ \A c \in Command : DispatchStep(h, c)
<1>0. LocalTypes /\ dispatch \in [Command -> DispatchState] /\ OrderCommand \subseteq Command
  BY DEF HostTypes, OrderCommand
<1>1. ASSUME dispatch' = dispatch PROVE Goal
  BY <1>0, <1>1 DEF DispatchStep
<1>2. ASSUME NEW c \in OrderCommand, NEW st \in DispatchState, st # "none", hpc[h] # "down",
             dispatch' = [dispatch EXCEPT ![c] = st]
      PROVE  Goal
  <2>1. DispatchStep(h, c)
    BY <1>0, <1>2 DEF DispatchStep
  <2> QED
    BY <1>0, <1>2, <2>1, OneDispatch
<1>3. {"PLANNED", "PUBLISHED", "MANUAL_REVIEW"} \subseteq DispatchState
  BY DEF DispatchState
<1>4. CASE ReserveSubmit(h)
  BY <1>0, <1>2, <1>3, <1>4 DEF ReserveSubmit, Reserve, At, LocalTypes
<1>5. ASSUME NEW o \in Order, ReserveCancel(h, o) PROVE Goal
  <2>1. <<o, "cancel">> \in OrderCommand
    BY <1>5, ScenarioFacts DEF ReserveCancel, OrderCommand, BridgeTypes
  <2> QED
    BY <1>2, <1>3, <1>5, <2>1 DEF ReserveCancel, Reserve, At
<1>6. CASE NotFound(h)
  BY <1>0, <1>1, <1>2, <1>3, <1>6 DEF NotFound, FailManualReview, At, LocalTypes, Sending, dbVars
<1>7. CASE RecordState(h)
  <2>1. hcmd[h] \in OrderCommand /\ hpc[h] # "down"
    BY <1>0, <1>7 DEF RecordState, At, LocalTypes, Sending
  <2>2. \A dir \in Dir : ObservedState(dir) \in DispatchState /\ ObservedState(dir) # "none"
    BY DEF ObservedState, DispatchState, Dir
  <2>3. \/ dispatch' = dispatch
        \/ dispatch' = [dispatch EXCEPT ![hcmd[h]] = "PUBLISHED"]
        \/ \E dir \in Dir : dispatch' = [dispatch EXCEPT ![hcmd[h]] = ObservedState(dir)]
    BY <1>7 DEF RecordState
  <2> QED
    BY <1>1, <1>2, <1>3, <2>1, <2>2, <2>3
<1>8. CASE ObserveResult(h)
  <2> DEFINE c == hcmd[h]
             st == IF dispatch[c] = "none" THEN dispatch[c]
                   ELSE IF hread[h] \in {"MUTATION_UNKNOWN", "ORPHANED_UNKNOWN"} THEN "UNKNOWN"
                   ELSE IF hread[h] = "REJECTED_EXPIRED" THEN "OBSERVED_REJECTED"
                   ELSE dispatch[c]
  <2>1. c \in Command /\ dispatch' = [dispatch EXCEPT ![c] = st]
    BY <1>0, <1>8 DEF ObserveResult, At, LocalTypes
  <2>2. st \in DispatchState /\ (st = "none" <=> dispatch[c] = "none")
    BY <1>0, <2>1 DEF DispatchState
  <2> HIDE DEF st
  <2>3. DispatchStep(h, c)
    BY <1>0, <2>1, <2>2 DEF DispatchStep
  <2> HIDE DEF c
  <2> QED
    BY <2>1, <2>2, <2>3, OneDispatch
<1>9. CASE HostStart(h) \/ HostCrash(h) \/ Lapse(h) \/ RefreshIdentities(h) \/ Authorize(h)
           \/ NextPlan(h) \/ LookAt(h) \/ LocateConflict(h) \/ PublishCheck(h)
           \/ PublishRename(h) \/ BeginReconciliation(h)
  BY <1>1, <1>9 DEF HostStart, HostCrash, Lapse, RefreshIdentities, Authorize, NextPlan, LookAt,
     LocateConflict, PublishCheck, PublishRename, BeginReconciliation, dbVars
<1>10. CASE \/ \E o \in Order : CreateIntent(h, o) \/ IngestEvidence(h, o)
            \/ \E c \in Command : Retry(h, c)
            \/ \E r \in emitted : IngestCommandResult(h, r)
  BY <1>1, <1>10 DEF CreateIntent, IngestEvidence, Retry, IngestCommandResult, dbVars
<1> QED
  BY <1>4, <1>5, <1>6, <1>7, <1>8, <1>9, <1>10 DEF HostMove, HostStep

(***************************************************************************)
(* The type invariant of the whole path.                                   *)
(***************************************************************************)

PathTypes == BridgeTypes /\ HostTypes

\* What is left of the database and the lease row.
LEMMA HostTables ==
  ASSUME BridgeTypes, HostTypes, NEW h \in Host, HostMove(h)
  PROVE  /\ identity' \in [Order -> {"none", "processed", "unknown"}]
         /\ journal' \subseteq ResultRecord
         /\ holder' \in Host \cup {NoHost}
<1> USE DEF HostTypes, dbVars
<1>1. ASSUME NEW s, Imported(s)
      PROVE  identity' \in [Order -> {"none", "processed", "unknown"}]
  BY <1>1 DEF Imported
<1>2. CASE HostStart(h) \/ RefreshIdentities(h)
  BY <1>1, <1>2 DEF HostStart, RefreshIdentities
<1>3. CASE HostCrash(h) \/ Lapse(h) \/ Authorize(h) \/ ReserveSubmit(h) \/ NextPlan(h)
  BY <1>3 DEF HostCrash, Lapse, Authorize, ReserveSubmit, NextPlan
<1>4. CASE LookAt(h) \/ LocateConflict(h) \/ NotFound(h) \/ PublishCheck(h) \/ PublishRename(h)
  BY <1>4 DEF LookAt, LocateConflict, NotFound, PublishCheck, PublishRename
<1>5. CASE RecordState(h) \/ BeginReconciliation(h) \/ ObserveResult(h)
  BY <1>5 DEF RecordState, BeginReconciliation, ObserveResult
<1>6. CASE \E o \in Order : CreateIntent(h, o) \/ ReserveCancel(h, o) \/ IngestEvidence(h, o)
  BY <1>6 DEF CreateIntent, ReserveCancel, IngestEvidence
<1>7. CASE \E c \in Command : Retry(h, c)
  BY <1>7 DEF Retry
<1>8. ASSUME NEW r \in emitted, IngestCommandResult(h, r)
      PROVE  journal' \subseteq ResultRecord /\ UNCHANGED <<identity, holder>>
  <2>1. r \in ResultRecord
    BY DEF BridgeTypes
  <2> QED
    BY <1>8, <2>1 DEF IngestCommandResult, JournalResult
<1> QED
  BY <1>2, <1>3, <1>4, <1>5, <1>6, <1>7, <1>8 DEF HostMove, HostStep

\* The initial states are typed.
LEMMA PathTypesInit == PathInit => PathTypes
<1> SUFFICES ASSUME PathInit PROVE PathTypes
  OBVIOUS
<1>0. <<>> \in Seq(Dir \cup {"none"}) /\ <<>> \in Seq(ResultRecord)
  OBVIOUS
<1>1. AbsentRow \in Row
  <2>1. 0 \in 0..Quantity
    BY QuantityAssumption
  <2> QED
    BY <2>1 DEF AbsentRow, Row
<1>2. BridgeTypes
  <2>1. orphansDone \in BOOLEAN /\ halted \in BOOLEAN
    BY Zenon DEF PathInit, BridgeInit
  <2>2. broker \in [Order -> BrokerState]
    BY DEF PathInit, BridgeInit, BrokerState
  <2> QED
    BY <1>0, <2>1, <2>2, NoVerdictFacts DEF PathInit, BridgeInit, BridgeTypes, TypeOK
<1>3. HostTypes
  BY <1>0, <1>1 DEF PathInit, HostTypes, LocalTypes, HostPc, DispatchState, Sending
<1> QED
  BY <1>2, <1>3 DEF PathTypes

\* Every step keeps the types.
LEMMA PathTypesStep == PathTypes /\ [PathNext]_pathVars => PathTypes'
<1> SUFFICES ASSUME PathTypes, [PathNext]_pathVars PROVE PathTypes'
  OBVIOUS
<1>0. BridgeTypes /\ HostTypes
  BY DEF PathTypes
<1>1. BridgeTypes'
  BY <1>0, SpoolTypes DEF HostTypes, LocalTypes
<1>2. ASSUME NEW h \in Host, HostMove(h) PROVE HostTypes'
  BY <1>0, <1>2, HostLocals, HostRows, HostDispatch, HostTables DEF HostTypes
<1>3. ASSUME HostKept PROVE HostTypes'
  <2>1. UNCHANGED <<hpc, hsession, hcmd, hread, todo, seen>>
    BY <1>3 DEF HostKept, hostVars
  <2>2. LocalTypes'
    BY <1>0, <2>1 DEF HostTypes, LocalTypes
  <2>3. UNCHANGED <<rows, dispatch, identity, journal, holder>>
    BY <1>3 DEF HostKept, dbVars
  <2> QED
    BY <1>0, <2>2, <2>3 DEF HostTypes
<1>4. ASSUME UNCHANGED pathVars PROVE HostTypes'
  BY <1>3, <1>4 DEF pathVars, HostKept
<1> QED
  BY <1>1, <1>2, <1>3, <1>4, StepCases, BridgeFrame DEF PathTypes

\* The strengthened types hold in every reachable state: what each program point of a host
\* and of the bridge says about its locals is never contradicted.
THEOREM PathTyped == PathSpec => []PathTypes
BY PathTypesInit, PathTypesStep, PTL DEF PathSpec

\* Whatever the hosts, the bridge and the probes do, and wherever a host or the terminal
\* dies, the tables hold the states their schema allows and the bridge has a command in
\* hand exactly when it works on one (guojin_sim_oms.py:678-686, commands.py:128).
THEOREM CommandPathTypes == PathSpec => []PathTypeOK
<1>1. PathTypes => PathTypeOK
  BY DEF PathTypes, BridgeTypes, HostTypes, LocalTypes, PathTypeOK
<1> QED
  BY <1>1, PathTyped, PTL

(***************************************************************************)
(* The bridge alone: its results are acceptable, the canary keeps within   *)
(* its fuse.                                                               *)
(***************************************************************************)

\* A host or a probe changes nothing the bridge has in memory, has reported or has done.
LEMMA SenderKeeps ==
  (\E h \in Host : HostMove(h)) \/ (\E c \in Command : ProbePublish(c))
    => UNCHANGED <<env, broker, bridgeVars>>
<1>1. ASSUME NEW h \in Host, HostMove(h) PROVE UNCHANGED <<env, broker, bridgeVars>>
  <2>1. BridgeKept => UNCHANGED <<env, broker, bridgeVars>>
    BY DEF BridgeKept
  <2>2. PublishRename(h) => UNCHANGED <<env, broker, bridgeVars>>
    BY DEF PublishRename
  <2> QED
    BY <1>1, <2>1, <2>2, HostFrame
<1>2. ASSUME NEW c \in Command, ProbePublish(c) PROVE UNCHANGED <<env, broker, bridgeVars>>
  BY <1>2 DEF ProbePublish, Publish
<1> QED
  BY <1>1, <1>2

\* What the environment leaves alone.
LEMMA EnvironmentKeeps == Environment => UNCHANGED <<files, pinned, env, bridgeVars>>
BY DEF Environment, Expires, BrokerFills, spoolVars

\* Results are result records of known commands.
LEMMA ResultsTyped ==
  ASSUME BridgeTypes PROVE Results \subseteq ResultRecord /\ \A r \in Results : r.cmd \in Command
<1>1. queue \in Seq(ResultRecord) /\ emitted \subseteq ResultRecord
  BY DEF BridgeTypes
<1>2. \A i \in 1..Len(queue) : queue[i] \in ResultRecord
  BY <1>1
<1>3. Results \subseteq ResultRecord
  BY <1>1, <1>2 DEF Results
<1> QED
  BY <1>3 DEF ResultRecord

\* Reporting adds the one result in hand.
LEMMA ReportResults ==
  ASSUME BridgeTypes, Report
  PROVE  Results' = Results \cup {Result} /\ Result \in ResultRecord
<1>1. Result \in ResultRecord
  BY ScenarioFacts, CommandFacts DEF Report, Result, ResultRecord, VerdictRecord, BridgeTypes, TypeOK
<1>2. queue \in Seq(ResultRecord) /\ queue' = Append(queue, Result) /\ emitted' = emitted
  BY DEF Report, BridgeTypes
<1> HIDE DEF Result
<1>3. Len(queue) \in Nat /\ Len(queue') = Len(queue) + 1
  BY <1>1, <1>2
<1>4. /\ \A i \in 1..Len(queue) : queue'[i] = queue[i]
      /\ queue'[Len(queue) + 1] = Result
  BY <1>1, <1>2
<1>5. {queue'[i] : i \in 1..Len(queue')} = {queue[i] : i \in 1..Len(queue)} \cup {Result}
  BY <1>3, <1>4
<1> QED
  BY <1>1, <1>2, <1>5 DEF Results

\* Flushing adds none.
LEMMA FlushResults ==
  ASSUME BridgeTypes, Flush
  PROVE  Results' \subseteq Results
<1>1. queue \in Seq(ResultRecord) /\ queue # <<>>
      /\ queue' = Tail(queue) /\ emitted' = emitted \cup {Head(queue)}
  BY DEF Flush, BridgeTypes
<1>2. Len(queue) \in Nat /\ Len(queue) >= 1 /\ Len(queue') = Len(queue) - 1
      /\ Head(queue) = queue[1]
  BY <1>1
<1>3. \A i \in 1..Len(queue') : i + 1 \in 1..Len(queue) /\ queue'[i] = queue[i + 1]
  BY <1>1, <1>2
<1>4. 1 \in 1..Len(queue)
  BY <1>2
<1> QED
  BY <1>1, <1>2, <1>3, <1>4 DEF Results

\* Results are made by Report only; a dying bridge loses those it has not written.
LEMMA ResultsStep ==
  ASSUME BridgeTypes, [PathNext]_pathVars
  PROVE  Results' \subseteq Results \/ Report
<1>1. CASE UNCHANGED <<queue, emitted>>
  BY <1>1 DEF Results
<1>2. CASE BridgeCrash
  <2>1. queue' = <<>> /\ emitted' = emitted
    BY <1>2 DEF BridgeCrash
  <2> QED
    BY <2>1 DEF Results
<1>3. CASE BridgeStep
  BY <1>1, <1>3, FlushResults DEF BridgeStep, RecoverOrphan, Claim, OrphansDone, FrameRefused,
     Process, Settle, SettleFails
<1>4. CASE BridgeStart
  BY <1>1, <1>4 DEF BridgeStart
<1>5. CASE UNCHANGED bridgeVars
  BY <1>1, <1>5 DEF bridgeVars
<1> QED
  BY <1>2, <1>3, <1>4, <1>5, StepCases, SenderKeeps, EnvironmentKeeps
     DEF BridgeMove, pathVars, bridgeAll

\* The result the bridge is about to report is acceptable.
VerdictAccepted ==
  bpc \in {"settle", "report"} /\ verdict.status # "none" => Accepted(Result)

Honest == VerdictAccepted /\ \A r \in Results : Accepted(r)

\* What a verdict must be for its result to be accepted.
AcceptedVerdict(c, v) ==
  /\ v.status \in {"REJECTED_EXPIRED"} \cup
       (IF c[2] = "snapshot" THEN {"SNAPSHOT_EMITTED", "UNKNOWN_ORPHANED"}
        ELSE IF env.mode = "SHADOW" THEN {"SHADOW_ACCEPTED", "UNKNOWN_ORPHANED"}
        ELSE {"MUTATION_UNKNOWN", "ORPHANED_UNKNOWN", "REJECTED_SAFETY_GATE"} \cup
             (IF c[2] = "submit" THEN {"SUBMIT_CALL_RETURNED"}
              ELSE {"CANCEL_SIGNAL_SENT", "CANCEL_NOT_CANCELLABLE", "CANCEL_NOT_SENT"}))
  /\ v.effect = (env.mode # "SHADOW" /\ v.status \in SideEffectStatus)

\* A verdict of the right shape makes a result every receiver accepts.
LEMMA ResultAccepted ==
  env \in Scenario /\ hand \in Command /\ AcceptedVerdict(hand, verdict) => Accepted(Result)
<1> SUFFICES ASSUME env \in Scenario, hand \in Command, AcceptedVerdict(hand, verdict)
             PROVE  Accepted(Result)
  OBVIOUS
<1>1. Result.kind = hand[2] /\ Result.mode = env.mode /\ Result.status = verdict.status
      /\ Result.effect = verdict.effect
  BY DEF Result
<1>2. hand[2] \in Kind /\ env.mode \in Mode
  BY ScenarioFacts, CommandFacts
<1> HIDE DEF Result
<1>3. ProtocolAccepts(Result)
  BY <1>1 DEF AcceptedVerdict, ProtocolAccepts
<1>4. JournalAccepts(Result)
  BY <1>1 DEF AcceptedVerdict, JournalAccepts, ResultStatus, MutationStatus, SideEffectStatus
<1>5. Result.mode # "SIMULATION_CALIBRATION" /\ Result.kind # "snapshot" => SinkAccepts(Result)
  BY <1>1, <1>2, <1>4 DEF AcceptedVerdict, SinkAccepts, MutationStatus, SideEffectStatus, Mode
<1> QED
  BY <1>3, <1>4, <1>5 DEF Accepted

\* What the executors of the three modes return has that shape.
LEMMA ProcessAccepted ==
  ASSUME BridgeTypes, Process, verdict'.status # "none"
  PROVE  AcceptedVerdict(hand, verdict')
<1>1. hand \in Command /\ env \in Scenario /\ hand[2] \in Kind
  BY CommandFacts DEF Process, BridgeTypes, TypeOK
<1>2. CASE verdict' = Verdict("rejected", "REJECTED_EXPIRED", FALSE)
  BY <1>2, PlainVerdicts DEF AcceptedVerdict, Final, SideEffectStatus
<1>3. CASE verdict' = Verdict("processed", "SNAPSHOT_EMITTED", FALSE) /\ hand[2] = "snapshot"
  BY <1>3, PlainVerdicts DEF AcceptedVerdict, Final, SideEffectStatus
<1>4. CASE verdict' = Verdict("unknown", "none", FALSE)
  BY <1>4, PlainVerdicts DEF Final
<1>5. CASE hand[2] # "snapshot" /\ \E out \in Outcomes(hand) : verdict' = out.verdict
  <2>1. PICK out \in Outcomes(hand) : verdict' = out.verdict
    BY <1>5
  <2>2. hand \in OrderCommand
    BY <1>1, <1>5 DEF OrderCommand
  <2>3. /\ out.verdict.status \in
              (IF env.mode = "SHADOW" THEN {"SHADOW_ACCEPTED"}
               ELSE {"MUTATION_UNKNOWN", "REJECTED_SAFETY_GATE"} \cup
                    (IF hand[2] = "submit" THEN {"SUBMIT_CALL_RETURNED"}
                     ELSE {"CANCEL_SIGNAL_SENT", "CANCEL_NOT_CANCELLABLE", "CANCEL_NOT_SENT"}))
        /\ out.verdict.effect <=> env.mode # "SHADOW" /\ out.verdict.status \in SideEffectStatus
        /\ out.verdict.effect \in BOOLEAN
    <3>1. out \in OutcomeRecord
      BY <1>1, <2>2, OutcomeFacts
    <3>2. out.verdict.effect \in BOOLEAN
      BY <3>1 DEF OutcomeRecord
    <3> QED
      BY <1>1, <2>2, <3>2, OutcomeFacts
  <2>4. out.verdict.effect = (env.mode # "SHADOW" /\ out.verdict.status \in SideEffectStatus)
    BY <2>3
  <2> QED
    BY <1>5, <2>1, <2>3, <2>4 DEF AcceptedVerdict
<1> QED
  BY <1>2, <1>3, <1>4, <1>5 DEF Process, Decide

\* So has the verdict for an orphaned claim.
LEMMA OrphanAccepted ==
  ASSUME NEW c \in Command, env \in Scenario
  PROVE  AcceptedVerdict(c, OrphanVerdict(c))
<1>1. c[2] \in Kind /\ env.mode \in Mode
  BY ScenarioFacts, CommandFacts
<1>2. CASE env.mode # "SHADOW" /\ c[2] # "snapshot"
  BY <1>1, <1>2, PlainVerdicts DEF AcceptedVerdict, OrphanVerdict, Final, SideEffectStatus
<1>3. CASE ~(env.mode # "SHADOW" /\ c[2] # "snapshot")
  BY <1>1, <1>3, PlainVerdicts DEF AcceptedVerdict, OrphanVerdict, Final, SideEffectStatus
<1> QED
  BY <1>2, <1>3

\* Every step keeps the results acceptable.
LEMMA HonestStep == BridgeTypes /\ BridgeTypes' /\ Honest /\ [PathNext]_pathVars => Honest'
<1> SUFFICES ASSUME BridgeTypes, BridgeTypes', Honest, [PathNext]_pathVars PROVE Honest'
  OBVIOUS
<1>0. env' = env
  BY StepCases, BridgeFrame, SenderKeeps DEF pathVars, bridgeAll, spoolVars
<1>a. ASSUME NEW r, Accepted(r) PROVE Accepted(r)'
  BY <1>a DEF Accepted, ProtocolAccepts, JournalAccepts, SinkAccepts
<1>1. VerdictAccepted'
  <2>1. CASE UNCHANGED <<hand, verdict, session>> /\ bpc' \in {"settle", "report"}
             /\ bpc \in {"settle", "report"}
    <3>1. Result' = Result
      BY <1>0, <2>1 DEF Result
    <3> HIDE DEF Result
    <3>2. Accepted(Result) => Accepted(Result)'
      BY <3>1 DEF Accepted, ProtocolAccepts, JournalAccepts, SinkAccepts
    <3>3. verdict.status # "none" => Accepted(Result)
      BY <2>1 DEF Honest, VerdictAccepted
    <3> HIDE DEF Accepted
    <3> QED
      BY <2>1, <3>2, <3>3 DEF VerdictAccepted
  <2>2. CASE bpc' \notin {"settle", "report"}
    BY <2>2 DEF VerdictAccepted
  <2>3. CASE verdict'.status = "none"
    BY <2>3 DEF VerdictAccepted
  <2>4. ASSUME bpc' \in {"settle", "report"}, AcceptedVerdict(hand', verdict')
        PROVE  VerdictAccepted'
    <3>1. AcceptedVerdict(hand, verdict)'
      BY <1>0, <2>4 DEF AcceptedVerdict
    <3>2. (env \in Scenario)' /\ (hand \in Command)'
      BY <2>4 DEF BridgeTypes, TypeOK
    <3>3. Accepted(Result)'
      BY <3>1, <3>2, ResultAccepted, PTL
    <3> QED
      BY <3>3 DEF VerdictAccepted
  <2>5. CASE UNCHANGED bridgeVars
    BY <2>1, <2>2, <2>5 DEF bridgeVars
  <2>6. ASSUME NEW c \in Command, RecoverOrphan(c) PROVE VerdictAccepted'
    <3>1. (bpc' = "report" /\ hand' = c /\ verdict' = OrphanVerdict(c)) \/ bpc' = "idle"
      BY <2>6 DEF RecoverOrphan
    <3>2. AcceptedVerdict(c, OrphanVerdict(c))
      BY OrphanAccepted DEF BridgeTypes
    <3> QED
      BY <2>2, <2>4, <3>1, <3>2
  <2>7. CASE Process
    <3>1. hand' = hand /\ bpc' = "settle"
      BY <2>7 DEF Process, Decide
    <3> QED
      BY <2>3, <2>4, <2>7, <3>1, ProcessAccepted
  <2>8. CASE FrameRefused
    <3>1. verdict' = Verdict("rejected", "none", FALSE)
      BY <2>8 DEF FrameRefused, Decide
    <3> QED
      BY <2>3, <3>1, PlainVerdicts DEF Final
  <2>9. CASE Settle
    BY <2>1, <2>2, <2>9 DEF Settle
  <2>10. CASE \/ BridgeStart \/ BridgeCrash \/ OrphansDone \/ SettleFails \/ Report \/ Flush
              \/ \E c \in Command : Claim(c)
    BY <2>2, <2>10 DEF BridgeStart, BridgeCrash, OrphansDone, SettleFails, Report, Flush, Claim
  <2> QED
    BY <2>5, <2>6, <2>7, <2>8, <2>9, <2>10, StepCases, SenderKeeps, EnvironmentKeeps
       DEF BridgeMove, BridgeStep, pathVars, bridgeAll
<1>2. \A r \in Results' : Accepted(r)
  <2>1. CASE Results' \subseteq Results
    BY <2>1 DEF Honest
  <2>2. CASE Report
    <3>1. Results' = Results \cup {Result}
      BY <2>2, ReportResults
    <3>2. Accepted(Result)
      BY <2>2 DEF Honest, VerdictAccepted, BridgeTypes, Report
    <3> HIDE DEF Result
    <3> QED
      BY <3>1, <3>2 DEF Honest
  <2> QED
    BY <2>1, <2>2, ResultsStep
<1> QED
  BY <1>a, <1>1, <1>2 DEF Honest

\* Every result the bridge has in hand or has reported is one that all its receivers take,
\* in every reachable state.
THEOREM PathHonest == PathSpec => []Honest
<1>1. PathInit => Honest
  BY DEF PathInit, BridgeInit, Honest, VerdictAccepted, Results
<1> QED
  BY <1>1, HonestStep, PathTyped, PTL DEF PathSpec, PathTypes

\* Every result the bridge emits, in any of its three artifacts and after any number of
\* restarts, passes the lists of statuses and side effects of the protocol, of the result
\* journal and of the OfflineOms sink (protocol.py:251-350, command_results.py:83-129,
\* oms_bridge.py:76-137): no result is refused and lost.
THEOREM EveryResultAccepted == PathSpec => []ResultsAccepted
<1>1. Honest => ResultsAccepted
  BY DEF Honest, Results, Accepted, ResultsAccepted
<1> QED
  BY <1>1, PathHonest, PTL

\* The canary reserves its quota before the call, so the counter never lags behind.
Fuse == env.mode = "LIVE_CANARY" => crossings = submitCalls /\ submitCalls <= env.submitFuse

\* Every step keeps the canary within its fuse.
LEMMA FuseStep == BridgeTypes /\ Fuse /\ [PathNext]_pathVars => Fuse'
<1> SUFFICES ASSUME BridgeTypes, Fuse, [PathNext]_pathVars PROVE Fuse'
  OBVIOUS
<1>0. env' = env /\ env \in Scenario
  BY StepCases, BridgeFrame, SenderKeeps DEF BridgeTypes, pathVars, bridgeAll, spoolVars
<1>1. CASE UNCHANGED <<submitCalls, crossings>>
  BY <1>0, <1>1 DEF Fuse
<1>2. CASE BridgeCrash
  BY <1>0, <1>2, ScenarioFacts DEF BridgeCrash, Fuse
<1>3. ASSUME Process, env.mode = "LIVE_CANARY", hand \notin expired, hand[2] # "snapshot"
      PROVE  Fuse'
  <2>1. PICK out \in Outcomes(hand) :
          /\ submitCalls' = submitCalls +
               (IF hand[2] = "submit" /\ SubmitCounted(out) THEN 1 ELSE 0)
          /\ crossings' = crossings + (IF hand[2] = "submit" /\ out.called THEN 1 ELSE 0)
    BY <1>3 DEF Process
  <2>2. hand \in OrderCommand
    BY <1>3 DEF Process, BridgeTypes, TypeOK, OrderCommand
  <2>3. hand[2] = "submit" /\ out.called => ~(submitCalls >= env.submitFuse)
    BY <1>0, <1>3, <2>2, OutcomeFacts
  <2>4. SubmitCounted(out) = out.called
    BY <1>3 DEF SubmitCounted
  <2>5. submitCalls \in Nat /\ crossings \in Nat /\ env.submitFuse \in Nat
    BY <1>0, ScenarioFacts DEF BridgeTypes, TypeOK
  <2>6. CASE hand[2] = "submit" /\ out.called
    BY <1>0, <1>3, <2>1, <2>3, <2>4, <2>5, <2>6 DEF Fuse
  <2>7. CASE ~(hand[2] = "submit" /\ out.called)
    BY <1>0, <1>3, <2>1, <2>4, <2>5, <2>7 DEF Fuse
  <2> QED
    BY <2>6, <2>7
<1>4. CASE Process
  <2>1. CASE env.mode # "LIVE_CANARY"
    BY <1>0, <2>1 DEF Fuse
  <2>2. CASE hand \in expired \/ hand[2] = "snapshot"
    BY <1>1, <1>4, <2>2 DEF Process
  <2> QED
    BY <1>3, <1>4, <2>1, <2>2
<1>5. CASE \/ BridgeStart \/ OrphansDone \/ FrameRefused \/ Settle \/ SettleFails \/ Report
           \/ Flush \/ \E c \in Command : RecoverOrphan(c) \/ Claim(c)
  BY <1>1, <1>5 DEF BridgeStart, OrphansDone, FrameRefused, Settle, SettleFails, Report, Flush,
     RecoverOrphan, Claim
<1>6. CASE UNCHANGED bridgeVars
  BY <1>1, <1>6 DEF bridgeVars
<1> QED
  BY <1>2, <1>4, <1>5, <1>6, StepCases, SenderKeeps, EnvironmentKeeps
     DEF BridgeMove, BridgeStep, pathVars, bridgeAll

\* The canary's submit calls of one session, those that raised included, never exceed the
\* fuse, for any fuse: the quota is taken before passorder is entered
\* (BIGQMT_EXECUTION_BRIDGE_V05_GUOJIN.py:1587-1604).
THEOREM CanaryWithinFuse == PathSpec => []SessionFuse
<1>1. PathInit => Fuse
  BY ScenarioFacts DEF PathInit, BridgeInit, Fuse
<1>2. Fuse => SessionFuse
  BY DEF Fuse, SessionFuse
<1> QED
  BY <1>1, <1>2, FuseStep, PathTyped, PTL DEF PathSpec, PathTypes

(***************************************************************************)
(* One sender at a time.                                                   *)
(***************************************************************************)

\* publish() is not fenced by the lease: it renames a file outside any transaction
\* (commands.py:277-287).  What follows therefore assumes that a deployment in which a
\* lease may lapse under a running host has one host; where no lease lapses, any number
\* of hosts may come and go.
OneWriter == \A e \in Scenario : e.lapse => \A h, k \in Host : h = k

Sender ==
  /\ OneWriter
  /\ \A h \in Host : hpc[h] # "down" =>
       /\ env.mode = "SIMULATION_CALIBRATION"
       /\ holder = h \/ env.lapse
       /\ \A k \in Host : hpc[k] # "down" => k = h
  /\ \A c \in Command : dispatch[c] # "none" =>
       env.mode = "SIMULATION_CALIBRATION" /\ c \in OrderCommand
  /\ \A h \in Host : hpc[h] \in Sending => dispatch[hcmd[h]] # "none"
  /\ \A h \in Host : \A c \in todo[h] \ {NoCommand} : dispatch[c] # "none"

\* A host writes its own memory only.
Alone(h) == \A k \in Host \ {h} :
  /\ hpc'[k] = hpc[k] /\ hcmd'[k] = hcmd[k] /\ hread'[k] = hread[k]
  /\ todo'[k] = todo[k] /\ seen'[k] = seen[k]

\* A step of a host touches no other host.
LEMMA HostAlone ==
  ASSUME HostTypes, NEW h \in Host, HostMove(h)
  PROVE  Alone(h)
<1> USE DEF HostTypes, LocalTypes, Alone, Goto
<1>1. Dies(h) => Alone(h)
  BY DEF Dies
<1>2. Finish(h) => Alone(h)
  BY DEF Finish
<1>3. Aborts(h) => Alone(h)
  BY <1>1, <1>2 DEF Aborts
<1>4. ASSUME NEW c, NEW st, Scanning(h, c, st), todo' = todo PROVE Alone(h)
  BY <1>4 DEF Scanning
<1>5. ASSUME NEW where, Goto(h, where), UNCHANGED <<hcmd, hread, todo, seen>> PROVE Alone(h)
  BY <1>5
<1>6. CASE UNCHANGED <<hpc, hcmd, hread, todo, seen>>
  BY <1>6
<1>7. CASE HostStart(h)
  BY <1>7 DEF HostStart
<1>8. CASE HostCrash(h) \/ LocateConflict(h)
  BY <1>1, <1>3, <1>8 DEF HostCrash, LocateConflict
<1>9. CASE Lapse(h) \/ RefreshIdentities(h) \/ \E o \in Order : IngestEvidence(h, o)
  BY <1>6, <1>9 DEF Lapse, RefreshIdentities, IngestEvidence, hostVars
<1>10. CASE Authorize(h)
  BY <1>5, <1>10 DEF Authorize
<1>11. CASE ReserveSubmit(h)
  BY <1>4, <1>11 DEF ReserveSubmit
<1>12. CASE NextPlan(h)
  BY <1>12 DEF NextPlan, Scanning
<1>13. CASE LookAt(h)
  BY <1>13 DEF LookAt
<1>14. CASE NotFound(h)
  BY <1>2, <1>5, <1>14 DEF NotFound
<1>15. CASE PublishCheck(h)
  BY <1>3, <1>5, <1>15 DEF PublishCheck
<1>16. CASE PublishRename(h)
  BY <1>5, <1>16 DEF PublishRename
<1>17. CASE RecordState(h)
  BY <1>3, <1>5, <1>17 DEF RecordState
<1>18. CASE BeginReconciliation(h)
  BY <1>2, <1>6, <1>18 DEF BeginReconciliation, hostVars
<1>19. CASE ObserveResult(h)
  BY <1>2, <1>19 DEF ObserveResult
<1>20. ASSUME NEW o \in Order, CreateIntent(h, o) \/ ReserveCancel(h, o) PROVE Alone(h)
  BY <1>4, <1>20 DEF CreateIntent, ReserveCancel
<1>21. ASSUME NEW c \in Command, Retry(h, c) PROVE Alone(h)
  BY <1>4, <1>21 DEF Retry
<1>22. ASSUME NEW r \in emitted, IngestCommandResult(h, r) PROVE Alone(h)
  BY <1>22 DEF IngestCommandResult
<1> QED
  BY <1>7, <1>8, <1>9, <1>10, <1>11, <1>12, <1>13, <1>14, <1>15, <1>16, <1>17, <1>18, <1>19,
     <1>20, <1>21, <1>22 DEF HostMove, HostStep

\* Only a host that is up does anything but start, and a lease changes hands by a start or
\* by running out.
LEMMA HostUp ==
  ASSUME NEW h \in Host, HostMove(h)
  PROVE  HostStart(h) \/ (hpc[h] # "down" /\ (Lapse(h) \/ holder' = holder))
<1> USE DEF At
<1>1. CASE HostCrash(h) \/ Authorize(h) \/ ReserveSubmit(h) \/ NextPlan(h)
  BY <1>1 DEF HostCrash, Authorize, ReserveSubmit, NextPlan
<1>2. CASE LookAt(h) \/ LocateConflict(h) \/ NotFound(h) \/ PublishCheck(h) \/ PublishRename(h)
  BY <1>2 DEF LookAt, LocateConflict, NotFound, PublishCheck, PublishRename
<1>3. CASE RecordState(h) \/ BeginReconciliation(h) \/ ObserveResult(h) \/ RefreshIdentities(h)
  BY <1>3 DEF RecordState, BeginReconciliation, ObserveResult, RefreshIdentities
<1>4. CASE \E o \in Order : CreateIntent(h, o) \/ ReserveCancel(h, o) \/ IngestEvidence(h, o)
  BY <1>4 DEF CreateIntent, ReserveCancel, IngestEvidence
<1>5. CASE \/ \E c \in Command : Retry(h, c)
           \/ \E r \in emitted : IngestCommandResult(h, r)
  BY <1>5 DEF Retry, IngestCommandResult
<1>6. CASE Lapse(h)
  BY <1>6 DEF Lapse
<1> QED
  BY <1>1, <1>2, <1>3, <1>4, <1>5, <1>6 DEF HostMove, HostStep

\* A host that begins to follow a command, or goes on with it: the command has its outbox
\* row, and it is the one the host had in hand unless a scan begins.
LEMMA HostFollows ==
  ASSUME BridgeTypes, HostTypes, Sender, NEW h \in Host, HostMove(h), hpc'[h] \in Sending
  PROVE  /\ dispatch'[hcmd'[h]] # "none"
         /\ \/ hpc[h] \in Sending /\ hcmd'[h] = hcmd[h]
            \/ hpc'[h] = "scan"
<1> DEFINE Goal == /\ dispatch'[hcmd'[h]] # "none"
                   /\ \/ hpc[h] \in Sending /\ hcmd'[h] = hcmd[h]
                      \/ hpc'[h] = "scan"
<1>0. LocalTypes /\ (\A c \in Command : DispatchStep(h, c)) /\ OrderCommand \subseteq Command
      /\ dispatch \in [Command -> DispatchState]
  BY HostDispatch DEF HostTypes, OrderCommand
<1>1. ASSUME hpc[h] \in Sending, hcmd' = hcmd PROVE Goal
  <2>1. hcmd[h] \in Command /\ dispatch[hcmd[h]] # "none"
    BY <1>0, <1>1 DEF LocalTypes, Sender
  <2> QED
    BY <1>0, <1>1, <2>1 DEF DispatchStep
<1>2. ASSUME NEW c \in Command, NEW st, Scanning(h, c, st), dispatch[c] # "none" PROVE Goal
  BY <1>0, <1>2 DEF Scanning, Goto, LocalTypes, DispatchStep
<1>3. ASSUME NEW c \in OrderCommand, NEW st, Scanning(h, c, st), Reserve(h, c) PROVE Goal
  BY <1>0, <1>3 DEF Scanning, Goto, LocalTypes, Reserve
<1>4. ASSUME NEW where, where \notin Sending, Goto(h, where) PROVE FALSE
  BY <1>0, <1>4 DEF Goto, LocalTypes
<1>5. ~Finish(h) /\ ~Dies(h) /\ ~Aborts(h)
  BY <1>4 DEF Finish, Dies, Aborts, Sending
<1>6. CASE HostStart(h) \/ HostCrash(h) \/ LocateConflict(h) \/ ObserveResult(h) \/ Authorize(h)
  BY <1>4, <1>5, <1>6 DEF HostStart, HostCrash, LocateConflict, ObserveResult, Authorize, Sending
<1>7. CASE Lapse(h) \/ RefreshIdentities(h) \/ \E o \in Order : IngestEvidence(h, o)
  BY <1>1, <1>7 DEF Lapse, RefreshIdentities, IngestEvidence, hostVars
<1>8. CASE ReserveSubmit(h)
  BY <1>0, <1>3, <1>8 DEF ReserveSubmit, At, LocalTypes
<1>9. ASSUME NEW o \in Order, ReserveCancel(h, o) PROVE Goal
  <2>1. <<o, "cancel">> \in OrderCommand
    BY <1>9, ScenarioFacts DEF ReserveCancel, OrderCommand, BridgeTypes
  <2> QED
    BY <1>3, <1>9, <2>1 DEF ReserveCancel
<1>10. CASE NextPlan(h)
  <2>1. PICK c \in todo[h] \ {NoCommand} : Scanning(h, c, dispatch[c])
    BY <1>4, <1>10 DEF NextPlan, Sending
  <2>2. c \in Command /\ dispatch[c] # "none"
    BY <1>0, <2>1 DEF LocalTypes, Sender
  <2> QED
    BY <1>2, <2>1, <2>2
<1>11. CASE LookAt(h) \/ NotFound(h) \/ PublishCheck(h) \/ PublishRename(h) \/ RecordState(h)
  BY <1>1, <1>5, <1>11 DEF LookAt, NotFound, PublishCheck, PublishRename, RecordState, At, Sending
<1>12. CASE BeginReconciliation(h)
  BY <1>1, <1>5, <1>12 DEF BeginReconciliation, hostVars, At, Sending
<1>13. ASSUME NEW o \in Order, CreateIntent(h, o) PROVE Goal
  BY <1>4, <1>13 DEF CreateIntent, Sending
<1>14. ASSUME NEW c \in Command, Retry(h, c) PROVE Goal
  BY <1>2, <1>14 DEF Retry
<1>15. ASSUME NEW r \in emitted, IngestCommandResult(h, r) PROVE Goal
  BY <1>4, <1>15 DEF IngestCommandResult, Sending
<1> QED
  BY <1>6, <1>7, <1>8, <1>9, <1>10, <1>11, <1>12, <1>13, <1>14, <1>15 DEF HostMove, HostStep

\* The rows recover_dispatches has still to visit are rows of the outbox.
LEMMA HostTodo ==
  ASSUME BridgeTypes, HostTypes, Sender, NEW h \in Host, HostMove(h)
  PROVE  \A c \in todo'[h] \ {NoCommand} : dispatch[c] # "none"
<1> DEFINE Goal == \A c \in todo'[h] \ {NoCommand} : dispatch[c] # "none"
<1>0. todo \in [Host -> SUBSET (OrderCommand \cup {NoCommand})]
  BY DEF HostTypes, LocalTypes
<1>1. ASSUME todo'[h] \subseteq todo[h] PROVE Goal
  BY <1>1 DEF Sender
<1>2. ASSUME todo' = todo PROVE Goal
  BY <1>1, <1>2
<1>3. Dies(h) \/ Finish(h) \/ Aborts(h) => Goal
  BY <1>0, <1>1 DEF Dies, Finish, Aborts
<1>4. CASE HostStart(h)
  BY <1>0, <1>4 DEF HostStart, Plans
<1>5. CASE NextPlan(h)
  BY <1>0, <1>1, <1>5 DEF NextPlan
<1>6. CASE HostCrash(h) \/ LocateConflict(h) \/ NotFound(h) \/ PublishCheck(h) \/ RecordState(h)
           \/ BeginReconciliation(h) \/ ObserveResult(h)
  BY <1>2, <1>3, <1>6 DEF HostCrash, LocateConflict, NotFound, PublishCheck, RecordState,
     BeginReconciliation, ObserveResult, hostVars
<1>7. CASE Lapse(h) \/ RefreshIdentities(h) \/ Authorize(h) \/ ReserveSubmit(h) \/ LookAt(h)
           \/ PublishRename(h)
  BY <1>2, <1>7 DEF Lapse, RefreshIdentities, Authorize, ReserveSubmit, LookAt, PublishRename,
     hostVars
<1>8. CASE \/ \E o \in Order : CreateIntent(h, o) \/ ReserveCancel(h, o) \/ IngestEvidence(h, o)
           \/ \E c \in Command : Retry(h, c)
           \/ \E r \in emitted : IngestCommandResult(h, r)
  BY <1>2, <1>8 DEF CreateIntent, ReserveCancel, IngestEvidence, Retry, IngestCommandResult, hostVars
<1> QED
  BY <1>4, <1>5, <1>6, <1>7, <1>8 DEF HostMove, HostStep

\* Every step keeps the sender alone.
LEMMA SenderStep ==
  ASSUME BridgeTypes, HostTypes, HostTypes', Sender, [PathNext]_pathVars
  PROVE  Sender'
<1>1. CASE HostKept /\ env' = env
  BY <1>1 DEF HostKept, hostVars, dbVars, Sender
<1>2. ASSUME NEW h \in Host, HostMove(h) PROVE Sender'
  <2>0. env' = env /\ env \in Scenario /\ Alone(h)
        /\ \A c \in Command : DispatchStep(h, c)
    BY <1>2, SenderKeeps, HostAlone, HostDispatch DEF BridgeTypes
  <2>1. \A k \in Host : hpc'[k] # "down" =>
          /\ env.mode = "SIMULATION_CALIBRATION"
          /\ holder' = k \/ env.lapse
          /\ \A j \in Host : hpc'[j] # "down" => j = k
    <3>1. CASE HostStart(h)
      <4>1. ASSUME NEW k \in Host, hpc[k] # "down" PROVE k = h
        <5>1. CASE env.lapse
          BY <2>0, <5>1 DEF Sender, OneWriter
        <5>2. CASE ~env.lapse
          <6>1. holder = k
            BY <4>1, <5>2 DEF Sender
          <6> QED
            BY <3>1, <4>1, <6>1, PathAssumption DEF HostStart
        <5> QED
          BY <5>1, <5>2
      <4>2. holder' = h /\ env.mode = "SIMULATION_CALIBRATION"
        BY <3>1 DEF HostStart
      <4> QED
        BY <2>0, <4>1, <4>2 DEF Alone
    <3>2. CASE hpc[h] # "down" /\ Lapse(h)
      BY <3>2 DEF Lapse, hostVars, Sender
    <3>3. CASE hpc[h] # "down" /\ holder' = holder
      BY <2>0, <3>3 DEF Sender, Alone
    <3> QED
      BY <1>2, <3>1, <3>2, <3>3, HostUp
  <2>2. \A c \in Command : dispatch'[c] # "none" =>
          env.mode = "SIMULATION_CALIBRATION" /\ c \in OrderCommand
    BY <2>0 DEF DispatchStep, Sender
  <2>3. \A k \in Host : hpc'[k] \in Sending => dispatch'[hcmd'[k]] # "none"
    <3>1. ASSUME NEW k \in Host, hpc'[k] \in Sending, k # h PROVE dispatch'[hcmd'[k]] # "none"
      <4>1. hpc[k] \in Sending /\ hcmd'[k] = hcmd[k]
        BY <2>0, <3>1 DEF Alone
      <4>2. hcmd[k] \in Command /\ dispatch[hcmd[k]] # "none"
        BY <4>1 DEF HostTypes, LocalTypes, OrderCommand, Sender
      <4> QED
        BY <2>0, <4>1, <4>2 DEF DispatchStep
    <3> QED
      BY <1>2, <3>1, HostFollows
  <2>4. \A k \in Host : \A c \in todo'[k] \ {NoCommand} : dispatch'[c] # "none"
    <3>1. ASSUME NEW k \in Host, NEW c \in todo'[k] \ {NoCommand} PROVE dispatch[c] # "none"
      BY <1>2, <2>0, HostTodo DEF Alone, Sender
    <3>2. ASSUME NEW k \in Host, NEW c \in todo'[k] \ {NoCommand} PROVE c \in Command
      BY DEF HostTypes, LocalTypes, OrderCommand
    <3> QED
      BY <2>0, <3>1, <3>2 DEF DispatchStep
  <2> QED
    BY <2>0, <2>1, <2>2, <2>3, <2>4 DEF Sender
<1>3. CASE UNCHANGED pathVars
  BY <1>1, <1>3 DEF pathVars, bridgeAll, spoolVars, HostKept
<1> QED
  BY <1>1, <1>2, <1>3, StepCases, BridgeFrame

\* There is one sender in every reachable state.
LEMMA PathSender == OneWriter /\ PathSpec => []Sender
<1>1. OneWriter /\ PathInit => Sender
  BY DEF PathInit, Sender, Sending
<1>2. PathTypes /\ PathTypes' /\ Sender /\ [PathNext]_pathVars => Sender'
  BY SenderStep DEF PathTypes
<1> QED
  BY <1>1, <1>2, PathTyped, PTL DEF PathSpec

(***************************************************************************)
(* A command file is in one directory at a time, and a command is executed *)
(* by the one claim that is ever made of it.                               *)
(***************************************************************************)

OneDirectory == \A c \in Command : \A d, e \in files[c] : d = e

Spool ==
  /\ OneDirectory
  /\ bpc \in {"claimed", "settle"} => "claimed" \in files[hand]
  /\ bpc = "report" => files[hand] \cap Final # {} /\ \A r \in Results : r.cmd # hand
  /\ \A r \in Results : files[r.cmd] \cap Final # {}
  /\ \A h \in Host : hpc[h] = "rename" => files[hcmd[h]] = {}

\* How the files may move in one step: a sender puts a new file into the inbox, the bridge
\* claims one from the inbox, or moves a claimed one to a final directory.
Arrives(c) == files[c] = {} /\ files' = [files EXCEPT ![c] = {"inbox"}]

Claimed(c) == files[c] = {"inbox"} /\ files' = [files EXCEPT ![c] = {"claimed"}]

Leaves(c, d) == files[c] = {"claimed"} /\ files' = [files EXCEPT ![c] = {d}]

\* A host renames a frame into the inbox only where _find_existing has found nothing.
LEMMA HostRenames ==
  ASSUME HostTypes, NEW h \in Host, HostMove(h), hpc'[h] = "rename"
  PROVE  hcmd'[h] = hcmd[h] /\ (hpc[h] = "rename" \/ files[hcmd[h]] = {})
<1>0. LocalTypes
  BY DEF HostTypes
<1>1. ASSUME NEW where, where # "rename", Goto(h, where) PROVE FALSE
  BY <1>0, <1>1 DEF Goto, LocalTypes
<1>2. ~Finish(h) /\ ~Dies(h) /\ ~Aborts(h)
  BY <1>1 DEF Finish, Dies, Aborts
<1>3. \A c, st : ~Scanning(h, c, st)
  BY <1>1 DEF Scanning
<1>4. CASE HostStart(h) \/ HostCrash(h) \/ LocateConflict(h) \/ ObserveResult(h) \/ Authorize(h)
           \/ PublishRename(h)
  BY <1>1, <1>2, <1>4 DEF HostStart, HostCrash, LocateConflict, ObserveResult, Authorize,
     PublishRename
<1>5. CASE Lapse(h) \/ RefreshIdentities(h) \/ LookAt(h) \/ \E o \in Order : IngestEvidence(h, o)
  BY <1>5 DEF Lapse, RefreshIdentities, IngestEvidence, LookAt, At, hostVars
<1>6. CASE ReserveSubmit(h) \/ \E o \in Order : ReserveCancel(h, o)
  BY <1>3, <1>6 DEF ReserveSubmit, ReserveCancel
<1>7. CASE NextPlan(h)
  BY <1>1, <1>3, <1>7 DEF NextPlan
<1>8. CASE NotFound(h)
  BY <1>1, <1>2, <1>8 DEF NotFound
<1>9. CASE PublishCheck(h)
  BY <1>1, <1>2, <1>9 DEF PublishCheck
<1>10. CASE RecordState(h)
  BY <1>1, <1>2, <1>10 DEF RecordState
<1>11. CASE BeginReconciliation(h)
  BY <1>2, <1>11 DEF BeginReconciliation, At, hostVars
<1>12. CASE \/ \E o \in Order : CreateIntent(h, o)
            \/ \E c \in Command : Retry(h, c)
            \/ \E r \in emitted : IngestCommandResult(h, r)
  BY <1>1, <1>3, <1>12 DEF CreateIntent, Retry, IngestCommandResult
<1> QED
  BY <1>4, <1>5, <1>6, <1>7, <1>8, <1>9, <1>10, <1>11, <1>12 DEF HostMove, HostStep

\* A probe never publishes a command that a host is following.
LEMMA ProbeArrives ==
  ASSUME BridgeTypes, HostTypes, Sender, NEW c \in Command, ProbePublish(c)
  PROVE  /\ Arrives(c) /\ HostKept /\ UNCHANGED <<env, broker, bridgeVars>>
         /\ \A h \in Host : hpc[h] \in Sending => hcmd[h] # c
<1>1. Arrives(c) /\ HostKept /\ UNCHANGED <<env, broker, bridgeVars>>
  BY DEF ProbePublish, Publish, Arrives, HostKept
<1>2. ASSUME NEW h \in Host, hpc[h] \in Sending, hcmd[h] = c PROVE FALSE
  <2>1. env.mode = "SIMULATION_CALIBRATION" /\ dispatch[c] # "none" /\ c \in OrderCommand
    BY <1>2 DEF Sender, Sending, HostTypes, LocalTypes
  <2> QED
    BY <2>1 DEF ProbePublish, SimulationProbe, CanaryProbe, ShadowProbe, OrderCommand
<1> QED
  BY <1>1, <1>2

\* A step of a sender, seen from the spool.
LEMMA SenderMoves ==
  ASSUME BridgeTypes, HostTypes, Sender, Spool,
         (\E h \in Host : HostMove(h)) \/ (\E c \in Command : ProbePublish(c))
  PROVE  /\ UNCHANGED <<env, broker, bridgeVars>>
         /\ files' = files \/ \E c \in Command : Arrives(c)
         /\ \A k \in Host : hpc'[k] = "rename" => files'[hcmd'[k]] = {}
<1>1. ASSUME NEW h \in Host, HostMove(h)
      PROVE  /\ files' = files \/ \E c \in Command : Arrives(c)
             /\ \A k \in Host : hpc'[k] = "rename" => files'[hcmd'[k]] = {}
  <2>0. Alone(h) /\ files \in [Command -> SUBSET Dir]
    BY <1>1, HostAlone DEF BridgeTypes, TypeOK
  <2>1. CASE BridgeKept
    <3>1. ASSUME NEW k \in Host, hpc'[k] = "rename" PROVE files[hcmd'[k]] = {}
      BY <1>1, <2>0, <3>1, HostRenames DEF Alone, Spool
    <3> QED
      BY <2>1, <3>1 DEF BridgeKept
  <2>2. CASE PublishRename(h)
    <3>1. hpc[h] = "rename" /\ hcmd[h] \in Command /\ files[hcmd[h]] = {}
      BY <2>2 DEF PublishRename, At, HostTypes, LocalTypes, OrderCommand, Sending, Spool
    <3>2. Arrives(hcmd[h])
      BY <2>0, <2>2, <3>1 DEF PublishRename, Arrives
    <3>3. \A k \in Host : hpc'[k] # "rename"
      BY <2>0, <2>2, <3>1 DEF PublishRename, Goto, Sender, Alone, HostTypes, LocalTypes
    <3> QED
      BY <3>1, <3>2, <3>3
  <2> QED
    BY <1>1, <2>1, <2>2, HostFrame
<1>2. ASSUME NEW c \in Command, ProbePublish(c)
      PROVE  /\ files' = files \/ \E d \in Command : Arrives(d)
             /\ \A k \in Host : hpc'[k] = "rename" => files'[hcmd'[k]] = {}
  <2>1. /\ Arrives(c) /\ UNCHANGED <<hpc, hcmd>>
        /\ \A h \in Host : hpc[h] = "rename" => hcmd[h] # c
    BY <1>2, ProbeArrives DEF HostKept, hostVars, Sending
  <2>2. ASSUME NEW k \in Host, hpc[k] = "rename" PROVE files'[hcmd[k]] = {}
    <3>1. hcmd[k] \in Command /\ files[hcmd[k]] = {} /\ hcmd[k] # c
      BY <2>1, <2>2 DEF HostTypes, LocalTypes, OrderCommand, Sending, Spool
    <3> QED
      BY <2>1, <3>1 DEF Arrives, BridgeTypes, TypeOK
  <2> QED
    BY <2>1, <2>2
<1> QED
  BY <1>1, <1>2, SenderKeeps

\* A move to one directory keeps every file in at most one.
LEMMA OneMove ==
  ASSUME files \in [Command -> SUBSET Dir], OneDirectory, NEW c \in Command, NEW d,
         files' = [files EXCEPT ![c] = {d}]
  PROVE  /\ OneDirectory' /\ files'[c] = {d}
         /\ \A e \in Command : e # c => files'[e] = files[e]
BY DEF OneDirectory

\* A file found in a directory is in no other.
LEMMA Only ==
  ASSUME OneDirectory, NEW c \in Command, NEW d \in files[c]
  PROVE  files[c] = {d}
BY DEF OneDirectory

\* A step of the bridge, seen from the spool.
LEMMA BridgeMovesFiles ==
  ASSUME BridgeTypes, Spool, BridgeMove
  PROVE  \/ files' = files
         \/ \E c \in Command : Claim(c) /\ Claimed(c)
         \/ \E c \in Command : RecoverOrphan(c) /\ Leaves(c, "unknown")
         \/ Settle /\ hand \in Command /\ Leaves(hand, verdict.dir)
         \/ SettleFails /\ hand \in Command /\ Leaves(hand, "unknown")
<1>0. OneDirectory /\ files \in [Command -> SUBSET Dir]
  BY DEF Spool, BridgeTypes, TypeOK
<1>1. ASSUME NEW c \in Command, Claim(c) PROVE Claimed(c)
  <2>1. files[c] = {"inbox"}
    BY <1>0, <1>1, Only DEF Claim
  <2> QED
    BY <1>0, <1>1, <2>1 DEF Claim, Claimed
<1>2. ASSUME NEW c \in Command, RecoverOrphan(c) PROVE Leaves(c, "unknown")
  <2>1. files[c] = {"claimed"}
    BY <1>0, <1>2, Only DEF RecoverOrphan
  <2> QED
    BY <1>0, <1>2, <2>1 DEF RecoverOrphan, Leaves
<1>3. bpc = "settle" => hand \in Command /\ files[hand] = {"claimed"}
  BY <1>0, Only DEF Spool, BridgeTypes, TypeOK
<1>4. CASE Settle
  BY <1>0, <1>3, <1>4 DEF Settle, Leaves
<1>5. CASE SettleFails
  BY <1>0, <1>3, <1>5 DEF SettleFails, Leaves
<1>6. CASE BridgeStart \/ BridgeCrash \/ OrphansDone \/ FrameRefused \/ Process \/ Report \/ Flush
  BY <1>6 DEF BridgeStart, BridgeCrash, OrphansDone, FrameRefused, Process, Report, Flush, spoolVars
<1> QED
  BY <1>1, <1>2, <1>4, <1>5, <1>6, EnvironmentKeeps DEF BridgeMove, BridgeStep

\* Every step keeps the directories in agreement with the bridge and the hosts.
LEMMA SpoolStep ==
  ASSUME BridgeTypes, BridgeTypes', HostTypes, Sender, Spool, [PathNext]_pathVars
  PROVE  Spool'
<1>0. /\ files \in [Command -> SUBSET Dir] /\ OneDirectory
      /\ \A r \in Results : r.cmd \in Command /\ files[r.cmd] \cap Final # {}
      /\ bpc \in {"claimed", "settle", "report"} => hand \in Command
  BY ResultsTyped DEF BridgeTypes, TypeOK, Spool
<1>1. ASSUME NEW c \in Command, Arrives(c), UNCHANGED bridgeVars,
             \A h \in Host : hpc'[h] = "rename" => files'[hcmd'[h]] = {}
      PROVE  Spool'
  <2>1. /\ OneDirectory' /\ files[c] = {}
        /\ \A e \in Command : e # c => files'[e] = files[e]
    BY <1>0, <1>1, OneMove DEF Arrives
  <2>2. Results' = Results
    BY <1>1 DEF Results, bridgeVars
  <2>3. UNCHANGED <<bpc, hand>>
    BY <1>1 DEF bridgeVars
  <2> QED
    BY <1>0, <1>1, <2>1, <2>2, <2>3 DEF Spool
<1>2. ASSUME UNCHANGED <<files, bridgeVars>>,
             \A h \in Host : hpc'[h] = "rename" => files'[hcmd'[h]] = {}
      PROVE  Spool'
  <2>1. Results' = Results
    BY <1>2 DEF Results, bridgeVars
  <2> QED
    BY <1>2, <2>1 DEF Spool, OneDirectory, bridgeVars
<1>3. CASE (\E h \in Host : HostMove(h)) \/ (\E c \in Command : ProbePublish(c))
  BY <1>1, <1>2, <1>3, SenderMoves
<1>4. ASSUME BridgeMove, HostKept PROVE Spool'
  <2>1. UNCHANGED <<hpc, hcmd>> /\ \A h \in Host : hpc[h] = "rename" => hcmd[h] \in Command
    BY <1>4 DEF HostKept, hostVars, HostTypes, LocalTypes, OrderCommand, Sending
  <2>2. ASSUME NEW c \in Command, NEW d, NEW e, files[c] = {e}, files' = [files EXCEPT ![c] = {d}]
        PROVE  \A h \in Host : hpc'[h] = "rename" => files'[hcmd'[h]] = {}
    <3>1. ASSUME NEW h \in Host, hpc[h] = "rename" PROVE hcmd[h] # c /\ files[hcmd[h]] = {}
      BY <2>2, <3>1 DEF Spool
    <3> QED
      BY <1>0, <2>1, <2>2, <3>1
  <2>3. files' = files => \A h \in Host : hpc'[h] = "rename" => files'[hcmd'[h]] = {}
    BY <2>1 DEF Spool
  <2>4. \A c \in Command : files[c] \in {{"inbox"}, {"claimed"}} => \A r \in Results : r.cmd # c
    BY <1>0 DEF Final
  <2>5. CASE files' = files
    <3>1. OneDirectory'
      BY <1>0, <2>5 DEF OneDirectory
    <3>2. CASE Report
      <4>1. Results' = Results \cup {Result} /\ Result.cmd = hand
        BY <3>2, ReportResults DEF Result
      <4>2. bpc' = "idle" /\ files[hand] \cap Final # {}
        BY <3>2 DEF Report, Spool
      <4> HIDE DEF Result
      <4> QED
        BY <1>0, <2>3, <2>5, <3>1, <4>1, <4>2 DEF Spool
    <3>3. CASE Results' \subseteq Results /\ UNCHANGED <<bpc, hand>>
      BY <1>0, <2>3, <2>5, <3>1, <3>3 DEF Spool
    <3>4. CASE Results' \subseteq Results /\ bpc' \in {"idle", "down"}
      BY <1>0, <2>3, <2>5, <3>1, <3>4 DEF Spool
    <3>5. CASE Results' \subseteq Results /\ bpc = "claimed" /\ bpc' = "settle" /\ hand' = hand
      BY <1>0, <2>3, <2>5, <3>1, <3>5 DEF Spool
    <3>6. BridgeStart \/ BridgeCrash \/ SettleFails => bpc' \in {"idle", "down"}
      BY DEF BridgeStart, BridgeCrash, SettleFails
    <3>7. OrphansDone \/ Flush => UNCHANGED <<bpc, hand>>
      BY DEF OrphansDone, Flush
    <3>8. Environment => UNCHANGED <<bpc, hand>>
      BY EnvironmentKeeps DEF bridgeVars
    <3>9. FrameRefused \/ Process => bpc = "claimed" /\ bpc' = "settle" /\ hand' = hand
      BY DEF FrameRefused, Process, Decide
    <3>10. ~Settle /\ \A c \in Command : ~Claim(c) /\ ~RecoverOrphan(c)
      <4>1. ASSUME Settle PROVE FALSE
        <5>1. hand \in Command /\ "claimed" \in files[hand] /\ verdict.dir \in Final
              /\ files' = [files EXCEPT ![hand] = (@ \ {"claimed"}) \cup {verdict.dir}]
          BY <4>1 DEF Settle, Spool, BridgeTypes, TypeOK
        <5> QED
          BY <1>0, <2>5, <5>1 DEF Final
      <4>2. ASSUME NEW c \in Command, Claim(c) PROVE FALSE
        BY <1>0, <2>5, <4>2 DEF Claim
      <4>3. ASSUME NEW c \in Command, RecoverOrphan(c) PROVE FALSE
        BY <1>0, <2>5, <4>3 DEF RecoverOrphan
      <4> QED
        BY <4>1, <4>2, <4>3
    <3> QED
      BY <1>4, <3>2, <3>3, <3>4, <3>5, <3>6, <3>7, <3>8, <3>9, <3>10, ResultsStep
         DEF BridgeMove, BridgeStep
  <2>6. ASSUME NEW c \in Command, Claim(c), Claimed(c) PROVE Spool'
    <3>1. bpc' = "claimed" /\ hand' = c /\ Results' = Results
      BY <2>6 DEF Claim, Results
    <3>2. /\ OneDirectory' /\ files'[c] = {"claimed"} /\ files[c] = {"inbox"}
          /\ \A e \in Command : e # c => files'[e] = files[e]
      BY <1>0, <2>6, OneMove DEF Claimed
    <3>3. \A h \in Host : hpc'[h] = "rename" => files'[hcmd'[h]] = {}
      BY <2>2, <2>6 DEF Claimed
    <3> QED
      BY <1>0, <2>4, <3>1, <3>2, <3>3 DEF Spool
  <2>7. ASSUME NEW c \in Command, NEW d \in Final, Leaves(c, d), UNCHANGED <<queue, emitted>>,
               bpc' = "idle" \/ (bpc' = "report" /\ hand' = c)
        PROVE  Spool'
    <3>1. /\ OneDirectory' /\ files'[c] = {d} /\ files[c] = {"claimed"}
          /\ \A e \in Command : e # c => files'[e] = files[e]
      BY <1>0, <2>7, OneMove DEF Leaves
    <3>2. \A h \in Host : hpc'[h] = "rename" => files'[hcmd'[h]] = {}
      BY <2>2, <2>7 DEF Leaves
    <3>3. Results' = Results
      BY <2>7 DEF Results
    <3> QED
      BY <1>0, <2>4, <2>7, <3>1, <3>2, <3>3 DEF Spool
  <2>8. ASSUME NEW c \in Command, RecoverOrphan(c), Leaves(c, "unknown") PROVE Spool'
    BY <2>7, <2>8 DEF RecoverOrphan, Final
  <2>9. ASSUME Settle, hand \in Command, Leaves(hand, verdict.dir) PROVE Spool'
    BY <2>7, <2>9 DEF Settle, BridgeTypes
  <2>10. ASSUME SettleFails, hand \in Command, Leaves(hand, "unknown") PROVE Spool'
    BY <2>7, <2>10 DEF SettleFails, Final
  <2> QED
    BY <1>4, <2>5, <2>6, <2>8, <2>9, <2>10, BridgeMovesFiles
<1>5. CASE UNCHANGED pathVars
  <2>1. UNCHANGED <<files, bridgeVars>> /\ UNCHANGED <<hpc, hcmd>>
    BY <1>5 DEF pathVars, bridgeAll, spoolVars, hostVars
  <2> QED
    BY <1>2, <2>1 DEF Spool
<1> QED
  BY <1>3, <1>4, <1>5, StepCases

\* The directories agree with the program counters in every reachable state.
LEMMA PathSpool == OneWriter /\ PathSpec => []Spool
<1>1. ASSUME PathInit PROVE Spool
  <2>1. Results = {} /\ bpc = "down" /\ \A h \in Host : hpc[h] = "down"
    BY <1>1 DEF PathInit, BridgeInit, Results
  <2>2. OneDirectory
    BY <1>1 DEF PathInit, BridgeInit, OneDirectory
  <2> QED
    BY <2>1, <2>2 DEF Spool
<1>2. PathTypes /\ PathTypes' /\ Sender /\ Spool /\ [PathNext]_pathVars => Spool'
  BY SpoolStep DEF PathTypes
<1> QED
  BY <1>1, <1>2, PathTyped, PathSender, PTL DEF PathSpec

\* The bridge has taken the command out of the inbox.
Taken(c) == files[c] \cap (Final \cup {"claimed"}) # {}

Calls ==
  /\ \A c \in Command : calls[c] <= 1
  /\ \A c \in Command : calls[c] > 0 => Taken(c)
  /\ bpc = "claimed" => calls[hand] = 0
  /\ bpc \in {"settle", "report"} /\ ~verdict.effect => calls[hand] = 0
  /\ \A c \in Command : env.mode = "SHADOW" \/ c[2] = "snapshot" => calls[c] = 0
  /\ \A r \in Results : ~r.effect => calls[r.cmd] = 0
  /\ \A r, q \in Results : r.cmd = q.cmd => r = q

\* What was taken stays taken: no file returns to the inbox.
LEMMA TakenStep ==
  ASSUME BridgeTypes, HostTypes, Sender, Spool, [PathNext]_pathVars, NEW c \in Command, Taken(c)
  PROVE  Taken(c)'
<1>0. files \in [Command -> SUBSET Dir] /\ "inbox" \notin Final \cup {"claimed"}
  BY DEF BridgeTypes, TypeOK, Final
<1>1. CASE files' = files
  BY <1>1 DEF Taken
<1>2. ASSUME NEW d \in Command, Arrives(d) \/ Claimed(d) PROVE Taken(c)'
  BY <1>0, <1>2 DEF Arrives, Claimed, Taken
<1>3. ASSUME NEW d \in Command, NEW e \in Final, Leaves(d, e) PROVE Taken(c)'
  BY <1>0, <1>3 DEF Leaves, Taken
<1>4. verdict.dir \in Final \/ bpc # "settle"
  BY DEF BridgeTypes
<1>5. ASSUME BridgeMove PROVE Taken(c)'
  <2>1. "unknown" \in Final
    BY DEF Final
  <2> QED
    BY <1>1, <1>2, <1>3, <1>4, <1>5, <2>1, BridgeMovesFiles DEF Settle
<1> QED
  BY <1>1, <1>2, <1>5, StepCases, SenderMoves DEF pathVars, bridgeAll, spoolVars

\* The one call of a command is made by the bridge between its claim and its verdict, and
\* the verdict admits to it (_process_claimed).
LEMMA ProcessCalls ==
  ASSUME BridgeTypes, Calls, Process
  PROVE  /\ hand \in Command /\ hand' = hand /\ bpc' = "settle"
         /\ calls' \in [Command -> Nat] /\ calls'[hand] <= 1
         /\ \A c \in Command : c # hand => calls'[c] = calls[c]
         /\ calls'[hand] > 0 => /\ verdict'.effect /\ env.mode # "SHADOW"
                                /\ hand[2] # "snapshot"
         /\ env.mode # "SHADOW" /\ hand[2] = "submit" /\ verdict'.dir = "processed"
              => calls'[hand] = 1
<1>0. bpc = "claimed" /\ hand \in Command /\ hand' = hand /\ bpc' = "settle" /\ calls[hand] = 0
      /\ calls \in [Command -> Nat] /\ env \in Scenario
  BY DEF Process, Decide, BridgeTypes, TypeOK, Calls
<1>1. CASE hand \in expired
  <2>1. calls' = calls
    BY <1>1 DEF Process
  <2>2. verdict'.dir = "rejected"
    BY <1>1, PlainVerdicts DEF Process, Decide, Final
  <2> QED
    BY <1>0, <2>1, <2>2
<1>2. CASE hand \notin expired /\ hand[2] = "snapshot"
  <2>1. calls' = calls
    BY <1>2 DEF Process
  <2> QED
    BY <1>0, <1>2, <2>1
<1>3. CASE hand \notin expired /\ hand[2] # "snapshot"
  <2>1. PICK out \in Outcomes(hand) :
          /\ verdict' = out.verdict
          /\ calls' = [calls EXCEPT ![hand] = @ + (IF out.called THEN 1 ELSE 0)]
    BY <1>3 DEF Process, Decide
  <2>2. hand \in OrderCommand
    BY <1>0, <1>3 DEF OrderCommand
  <2>3. /\ out.called => out.verdict.effect /\ env.mode # "SHADOW"
        /\ env.mode # "SHADOW" /\ hand[2] = "submit" /\ out.verdict.dir = "processed"
              => out.called
    BY <1>0, <2>2, OutcomeFacts
  <2>4. CASE out.called
    <3>1. calls' = [calls EXCEPT ![hand] = 1]
      BY <1>0, <2>1, <2>4
    <3> QED
      BY <1>0, <1>3, <2>1, <2>3, <2>4, <3>1
  <2>5. CASE ~out.called
    <3>1. calls' = calls
      BY <1>0, <2>1, <2>5
    <3> QED
      BY <1>0, <1>3, <2>1, <2>3, <2>5, <3>1
  <2> QED
    BY <2>4, <2>5
<1> QED
  BY <1>1, <1>2, <1>3

\* Every step keeps the calls in agreement with the directories and the results.
LEMMA CallsStep ==
  ASSUME BridgeTypes, BridgeTypes', HostTypes, Sender, Spool, Calls, [PathNext]_pathVars
  PROVE  Calls'
<1>0. /\ env' = env /\ env \in Scenario /\ calls \in [Command -> Nat] /\ OneDirectory
      /\ files \in [Command -> SUBSET Dir] /\ \A r \in Results : r.cmd \in Command
      /\ bpc \in {"claimed", "settle", "report"} => hand \in Command
  BY StepCases, BridgeFrame, SenderKeeps, ResultsTyped
     DEF BridgeTypes, TypeOK, Spool, pathVars, bridgeAll, spoolVars
<1>1. \A c \in Command : Taken(c) => Taken(c)'
  BY TakenStep
<1>2. ASSUME UNCHANGED <<calls, hand, verdict>>, Results' \subseteq Results,
             bpc' \in {bpc, "down", "idle"} \/ (bpc = "settle" /\ bpc' = "report")
             \/ (bpc = "claimed" /\ bpc' = "settle")
      PROVE  Calls'
  BY <1>0, <1>1, <1>2 DEF Calls
<1>3. ASSUME calls' = calls, Results' \subseteq Results, bpc' \in {"down", "idle"}
      PROVE  Calls'
  BY <1>0, <1>1, <1>3 DEF Calls
<1>4. CASE UNCHANGED bridgeVars
  <2>1. Results' = Results
    BY <1>4 DEF bridgeVars, Results
  <2> QED
    BY <1>2, <1>4, <2>1 DEF bridgeVars
<1>5. CASE BridgeStart \/ BridgeCrash \/ OrphansDone \/ SettleFails
  <2>1. calls' = calls /\ bpc' \in {"down", "idle"} /\ ~Report
    BY <1>5 DEF BridgeStart, BridgeCrash, OrphansDone, SettleFails, Report
  <2> QED
    BY <1>3, <2>1, ResultsStep
<1>6. CASE Flush
  <2>1. calls' = calls /\ bpc' \in {"down", "idle"}
    BY <1>6 DEF Flush
  <2> QED
    BY <1>3, <1>6, <2>1, FlushResults
<1>7. CASE Report
  <2>1. Results' = Results \cup {Result} /\ Result.cmd = hand /\ Result.effect = verdict.effect
    BY <1>7, ReportResults DEF Result
  <2>2. calls' = calls /\ bpc' = "idle" /\ bpc = "report"
    BY <1>7 DEF Report
  <2>3. \A r \in Results : r.cmd # hand
    BY <2>2 DEF Spool
  <2> HIDE DEF Result
  <2> QED
    BY <1>0, <1>1, <2>1, <2>2, <2>3 DEF Calls
<1>8. ASSUME NEW c \in Command, Claim(c) PROVE Calls'
  <2>1. calls' = calls /\ bpc' = "claimed" /\ hand' = c /\ Results' = Results
    BY <1>8 DEF Claim, Results
  <2>2. files[c] = {"inbox"}
    BY <1>0, <1>8, Only DEF Claim
  <2>3. calls[c] = 0
    BY <1>0, <2>2 DEF Calls, Taken, Final
  <2> QED
    BY <1>0, <1>1, <2>1, <2>3 DEF Calls
<1>9. ASSUME NEW c \in Command, RecoverOrphan(c) PROVE Calls'
  <2>1. /\ calls' = calls /\ Results' = Results
        /\ bpc' = "idle" \/ (bpc' = "report" /\ hand' = c /\ verdict' = OrphanVerdict(c))
    BY <1>9 DEF RecoverOrphan, Results
  <2>2. ~OrphanVerdict(c).effect => env.mode = "SHADOW" \/ c[2] = "snapshot"
    BY PlainVerdicts DEF OrphanVerdict, Final
  <2> QED
    BY <1>0, <1>1, <2>1, <2>2 DEF Calls
<1>10. CASE FrameRefused
  <2>1. calls' = calls /\ hand' = hand /\ bpc = "claimed" /\ bpc' = "settle" /\ Results' = Results
    BY <1>10 DEF FrameRefused, Decide, Results
  <2> QED
    BY <1>0, <1>1, <2>1 DEF Calls
<1>11. CASE Settle
  <2>1. calls' = calls /\ Results' = Results
        /\ (bpc' = "idle" \/ (bpc = "settle" /\ bpc' = "report" /\ UNCHANGED <<hand, verdict>>))
    BY <1>11 DEF Settle, Results
  <2> QED
    BY <1>2, <1>3, <2>1
<1>12. CASE Process
  <2>1. /\ hand \in Command /\ hand' = hand /\ bpc' = "settle"
        /\ calls' \in [Command -> Nat] /\ calls'[hand] <= 1
        /\ \A c \in Command : c # hand => calls'[c] = calls[c]
        /\ calls'[hand] > 0 => verdict'.effect /\ env.mode # "SHADOW" /\ hand[2] # "snapshot"
    BY <1>12, ProcessCalls
  <2>2. Results' = Results /\ files' = files /\ "claimed" \in files[hand]
    BY <1>12 DEF Process, Results, spoolVars, Spool
  <2>3. files[hand] = {"claimed"}
    BY <1>0, <2>1, <2>2, Only
  <2>4. \A r \in Results : r.cmd # hand
    BY <2>3 DEF Spool, Final
  <2>5. Taken(hand)
    BY <2>2 DEF Taken
  <2>6. calls'[hand] = 0 \/ calls'[hand] > 0
    BY <2>1
  <2> QED
    BY <1>0, <1>1, <2>1, <2>2, <2>4, <2>5, <2>6 DEF Calls
<1> QED
  BY <1>4, <1>5, <1>6, <1>7, <1>8, <1>9, <1>10, <1>11, <1>12, StepCases, SenderKeeps,
     EnvironmentKeeps DEF BridgeMove, BridgeStep, pathVars, bridgeAll

\* Calls, directories and results agree in every reachable state.
LEMMA PathCalls == OneWriter /\ PathSpec => []Calls
<1>1. ASSUME PathInit PROVE Calls
  <2>1. Results = {} /\ bpc = "down"
    BY <1>1 DEF PathInit, BridgeInit, Results
  <2>2. \A c \in Command : calls[c] = 0
    BY <1>1 DEF PathInit, BridgeInit
  <2> QED
    BY <2>1, <2>2 DEF Calls
<1>2. PathTypes /\ PathTypes' /\ Sender /\ Spool /\ Calls /\ [PathNext]_pathVars => Calls'
  BY CallsStep DEF PathTypes
<1> QED
  BY <1>1, <1>2, PathTyped, PathSender, PathSpool, PTL DEF PathSpec

\* Whatever a host, a probe or the bridge does, and wherever any of them dies, no command
\* reaches the broker twice: the claim by rename is the lock, and an orphaned claim is
\* never executed again (_drain_command_inbox, _recover_orphaned_claims).
THEOREM CommandsCalledOnce == OneWriter /\ PathSpec => []AtMostOneCall
<1>1. Calls => AtMostOneCall
  BY DEF Calls, AtMostOneCall
<1> QED
  BY <1>1, PathCalls, PTL

\* A result that denies a side effect stays true over every restart: the broker is never
\* called for that command, before or after (_command_result).
THEOREM ResultsTruthful == OneWriter /\ PathSpec => []SideEffectReported
<1>1. Calls => SideEffectReported
  BY DEF Calls, Results, SideEffectReported
<1> QED
  BY <1>1, PathCalls, PTL

\* The bridge never reports a command twice with different results, so the journal of the
\* host meets no CommandResultConflict (command_results.py:130-222).
THEOREM ResultsUnique == OneWriter /\ PathSpec => []OneResultPerCommand
<1>1. Calls => OneResultPerCommand
  BY DEF Calls, Results, OneResultPerCommand
<1> QED
  BY <1>1, PathCalls, PTL

(***************************************************************************)
(* Reservations.                                                           *)
(***************************************************************************)

Reserved ==
  /\ \A c \in OrderCommand : files[c] # {} /\ c[1] \notin env.probe => dispatch[c] # "none"
  /\ \A c \in Command : dispatch[c] # "none" =>
       rows[c[1]].submit = 1 /\ (c[2] = "cancel" => rows[c[1]].cancel = 1)
  /\ \A o \in Order : rows[o].status \notin Unsent => rows[o].submit = 1
  /\ \A o \in env.probe : rows[o].status = "ABSENT" \/ rows[o].submit = 1
  /\ \A o \in Order : rows[o].status = "ABSENT" => rows[o].cancel # 1

\* Only a submit that was really sent makes the broker know an order.
Known == \A o \in Order : broker[o] # "none" => <<o, "submit">> \in Command
                                                 /\ calls[<<o, "submit">>] = 1

\* A row of the outbox is made by a reservation and by nothing else.
LEMMA HostReserves ==
  ASSUME BridgeTypes, HostTypes, Sender, NEW h \in Host, HostMove(h), NEW c \in Command,
         dispatch[c] = "none", dispatch'[c] # "none"
  PROVE  \/ ReserveSubmit(h) /\ c = hcmd[h]
         \/ \E o \in Order : ReserveCancel(h, o) /\ c = <<o, "cancel">>
<1>0. dispatch \in [Command -> DispatchState] /\ LocalTypes
  BY DEF HostTypes
<1>1. dispatch' # dispatch
  OBVIOUS
<1>2. ASSUME NEW d, NEW st, dispatch' = [dispatch EXCEPT ![d] = st] PROVE c = d
  BY <1>0, <1>2
<1>3. hpc[h] \in Sending => hcmd[h] # c
  BY DEF Sender
<1>4. CASE ReserveSubmit(h)
  BY <1>2, <1>4 DEF ReserveSubmit, Reserve
<1>5. ASSUME NEW o \in Order, ReserveCancel(h, o) PROVE c = <<o, "cancel">>
  BY <1>2, <1>5 DEF ReserveCancel, Reserve
<1>6. CASE NotFound(h)
  <2>1. hpc[h] \in Sending
    BY <1>6 DEF NotFound, At, Sending
  <2>2. dispatch' = [dispatch EXCEPT ![hcmd[h]] = "MANUAL_REVIEW"] \/ dispatch' = dispatch
    BY <1>6 DEF NotFound, FailManualReview, dbVars
  <2> QED
    BY <1>1, <1>2, <1>3, <2>1, <2>2
<1>7. CASE RecordState(h)
  <2>1. hpc[h] \in Sending
    BY <1>7 DEF RecordState, At, Sending
  <2>2. dispatch' = dispatch \/ \E st : dispatch' = [dispatch EXCEPT ![hcmd[h]] = st]
    BY <1>7 DEF RecordState
  <2> QED
    BY <1>1, <1>2, <1>3, <2>1, <2>2
<1>8. CASE ObserveResult(h)
  <2> DEFINE d == hcmd[h]
             st == IF dispatch[d] = "none" THEN dispatch[d]
                   ELSE IF hread[h] \in {"MUTATION_UNKNOWN", "ORPHANED_UNKNOWN"} THEN "UNKNOWN"
                   ELSE IF hread[h] = "REJECTED_EXPIRED" THEN "OBSERVED_REJECTED"
                   ELSE dispatch[d]
  <2>1. dispatch' = [dispatch EXCEPT ![d] = st]
    BY <1>8 DEF ObserveResult
  <2>2. dispatch[d] = "none" => st = "none"
    OBVIOUS
  <2> HIDE DEF st
  <2> QED
    BY <1>0, <1>2, <2>1, <2>2
<1>9. CASE HostStart(h) \/ HostCrash(h) \/ Lapse(h) \/ RefreshIdentities(h) \/ Authorize(h)
           \/ NextPlan(h) \/ LookAt(h) \/ LocateConflict(h) \/ PublishCheck(h)
           \/ PublishRename(h) \/ BeginReconciliation(h)
  BY <1>1, <1>9 DEF HostStart, HostCrash, Lapse, RefreshIdentities, Authorize, NextPlan, LookAt,
     LocateConflict, PublishCheck, PublishRename, BeginReconciliation, dbVars
<1>10. CASE \/ \E o \in Order : CreateIntent(h, o) \/ IngestEvidence(h, o)
            \/ \E d \in Command : Retry(h, d)
            \/ \E r \in emitted : IngestCommandResult(h, r)
  BY <1>1, <1>10 DEF CreateIntent, IngestEvidence, Retry, IngestCommandResult, dbVars
<1> QED
  BY <1>4, <1>5, <1>6, <1>7, <1>8, <1>9, <1>10 DEF HostMove, HostStep

\* A reservation sets its flag in the same transaction as the outbox row
\* (guojin_sim_oms.py:603-676); a cancel is reserved for a sent order only.
LEMMA ReservedFlags ==
  ASSUME BridgeTypes, HostTypes, Sender, Reserved, NEW h \in Host, HostMove(h),
         NEW c \in Command, dispatch[c] = "none", dispatch'[c] # "none"
  PROVE  rows'[c[1]].submit = 1 /\ (c[2] = "cancel" => rows'[c[1]].cancel = 1)
<1>0. rows \in [Order -> Row] /\ c[1] \in Order /\ LocalTypes
  BY CommandFacts DEF HostTypes
<1>1. CASE ReserveSubmit(h) /\ c = hcmd[h]
  <2>1. c[2] = "submit" /\ Reserve(h, c)
    BY <1>0, <1>1 DEF ReserveSubmit, LocalTypes, At
  <2>2. rows' = [rows EXCEPT ![c[1]] = [@ EXCEPT !.status = "SUBMITTING", !.submit = 1]]
    BY <2>1 DEF Reserve
  <2> QED
    BY <1>0, <2>1, <2>2 DEF Row
<1>2. ASSUME NEW o \in Order, ReserveCancel(h, o), c = <<o, "cancel">>
      PROVE  rows'[c[1]].submit = 1 /\ rows'[c[1]].cancel = 1
  <2>1. c[1] = o /\ c[2] = "cancel" /\ Reserve(h, c)
        /\ rows[o].status \in {"ACKNOWLEDGED", "PARTIALLY_FILLED"}
    BY <1>2 DEF ReserveCancel
  <2>2. rows[o].submit = 1
    BY <2>1 DEF Reserved, Unsent, PreSubmit
  <2>3. rows' = [rows EXCEPT ![o] = [@ EXCEPT !.status = "CANCEL_PENDING", !.cancel = 1,
                                              !.resolved = 0]]
    BY <2>1 DEF Reserve
  <2> QED
    BY <1>0, <2>1, <2>2, <2>3 DEF Row
<1> QED
  BY <1>1, <1>2, HostReserves

\* A row the host has reason to believe sent has its flag.
LEMMA SentFlag ==
  ASSUME BridgeTypes, HostTypes, Sender, Spool, Calls, Reserved, Known, NEW o \in Order,
         \/ broker[o] # "none" /\ (o \notin env.probe \/ rows[o].status # "ABSENT")
         \/ \E h \in Host : hpc[h] = "scan" /\ hcmd[h][1] = o
  PROVE  rows[o].submit = 1
<1>1. ASSUME broker[o] # "none", o \notin env.probe PROVE rows[o].submit = 1
  <2> DEFINE c == <<o, "submit">>
  <2>1. c \in Command /\ calls[c] > 0
    BY <1>1 DEF Known
  <2>2. files[c] # {} /\ c \in OrderCommand /\ c[1] = o
    BY <2>1 DEF Calls, Taken, OrderCommand
  <2>3. dispatch[c] # "none"
    BY <1>1, <2>2 DEF Reserved
  <2> QED
    BY <2>1, <2>2, <2>3 DEF Reserved
<1>2. ASSUME o \in env.probe, rows[o].status # "ABSENT" PROVE rows[o].submit = 1
  BY <1>2 DEF Reserved
<1>3. ASSUME NEW h \in Host, hpc[h] = "scan", hcmd[h][1] = o PROVE rows[o].submit = 1
  <2>1. hcmd[h] \in Command /\ dispatch[hcmd[h]] # "none"
    BY <1>3 DEF Sender, Sending, HostTypes, LocalTypes, OrderCommand
  <2> QED
    BY <1>3, <2>1 DEF Reserved
<1> QED
  BY <1>1, <1>2, <1>3

\* The bridge creates no command file.
LEMMA BridgeMakesNone ==
  ASSUME BridgeTypes, Spool, BridgeMove, NEW c \in Command, files[c] = {}
  PROVE  files'[c] = {}
<1>0. files \in [Command -> SUBSET Dir]
  BY DEF BridgeTypes, TypeOK
<1>1. ASSUME NEW d \in Command, NEW e, Claimed(d) \/ Leaves(d, e) PROVE files'[c] = {}
  BY <1>0, <1>1 DEF Claimed, Leaves
<1> QED
  BY <1>1, BridgeMovesFiles

\* Every step keeps a command in the spool reserved.
LEMMA ReservedStep ==
  ASSUME BridgeTypes, HostTypes, Sender, Spool, Calls, Reserved, Known, [PathNext]_pathVars
  PROVE  Reserved'
<1>0. /\ env \in Scenario /\ env.probe \subseteq Order /\ files \in [Command -> SUBSET Dir]
      /\ rows \in [Order -> Row] /\ OrderCommand \subseteq Command
      /\ \A c \in Command : c[1] \in Order
  BY ScenarioFacts, CommandFacts DEF BridgeTypes, TypeOK, HostTypes, OrderCommand
<1>1. ASSUME HostKept, env' = env,
             \A c \in OrderCommand : files[c] = {} /\ c[1] \notin env.probe => files'[c] = {}
      PROVE  Reserved'
  BY <1>1 DEF HostKept, dbVars, Reserved
<1>2. ASSUME NEW h \in Host, HostMove(h) PROVE Reserved'
  <2>0. env' = env /\ (\A o \in Order : RowStep(h, o)) /\ (\A c \in Command : DispatchStep(h, c))
    BY <1>2, SenderKeeps, HostRows, HostDispatch
  <2>1. \A c \in OrderCommand : files'[c] # {} /\ c[1] \notin env.probe => dispatch'[c] # "none"
    <3>1. CASE files' = files
      BY <1>0, <2>0, <3>1 DEF DispatchStep, Reserved
    <3>2. CASE PublishRename(h)
      <4>1. hcmd[h] \in Command /\ dispatch[hcmd[h]] # "none"
        BY <1>0, <3>2 DEF PublishRename, At, Sender, Sending, HostTypes, LocalTypes
      <4>2. \A c \in Command : c # hcmd[h] => files'[c] = files[c]
        BY <1>0, <3>2 DEF PublishRename
      <4> QED
        BY <1>0, <2>0, <4>1, <4>2 DEF DispatchStep, Reserved
    <3> QED
      BY <1>2, <3>1, <3>2, HostFrame DEF BridgeKept
  <2>2. \A o \in Order : rows[o].submit = 1 => rows'[o].submit = 1
    BY <2>0 DEF RowStep
  <2>3. \A o \in Order : rows[o].cancel = 1 => rows'[o].cancel = 1
    BY <2>0 DEF RowStep, Reserved
  <2>4. \A c \in Command : dispatch'[c] # "none" =>
          rows'[c[1]].submit = 1 /\ (c[2] = "cancel" => rows'[c[1]].cancel = 1)
    <3>1. ASSUME NEW c \in Command, dispatch[c] # "none"
          PROVE  rows'[c[1]].submit = 1 /\ (c[2] = "cancel" => rows'[c[1]].cancel = 1)
      BY <1>0, <2>2, <2>3, <3>1 DEF Reserved
    <3>2. ASSUME NEW c \in Command, dispatch[c] = "none", dispatch'[c] # "none"
          PROVE  rows'[c[1]].submit = 1 /\ (c[2] = "cancel" => rows'[c[1]].cancel = 1)
      BY <1>2, <3>2, ReservedFlags
    <3> QED
      BY <3>1, <3>2
  <2>5. ASSUME NEW o \in Order
        PROVE  /\ rows'[o].status \notin Unsent => rows'[o].submit = 1
               /\ o \in env.probe => rows'[o].status = "ABSENT" \/ rows'[o].submit = 1
               /\ rows'[o].status = "ABSENT" => rows'[o].cancel # 1
    <3>1. RowStep(h, o)
      BY <2>0
    <3>2. CASE rows[o].submit = 1
      BY <2>2, <3>1, <3>2 DEF RowStep, Reserved
    <3>3. CASE rows[o].submit # 1
      <4>1. /\ ~(hpc[h] = "scan" /\ hcmd[h][1] = o)
            /\ broker[o] = "none" \/ (o \in env.probe /\ rows[o].status = "ABSENT")
            /\ rows[o].status \in Unsent
            /\ o \in env.probe => rows[o].status = "ABSENT"
        BY <3>3, SentFlag DEF Reserved
      <4>2. "ABSENT" \in Unsent
        BY DEF Unsent
      <4> QED
        BY <3>1, <4>1, <4>2 DEF RowStep, Reserved
    <3> QED
      BY <3>2, <3>3
  <2> QED
    BY <1>0, <2>0, <2>1, <2>4, <2>5 DEF Reserved
<1>3. ASSUME NEW d \in Command, ProbePublish(d) PROVE Reserved'
  <2>1. HostKept /\ env' = env /\ d[1] \in env.probe /\ files' = [files EXCEPT ![d] = {"inbox"}]
    BY <1>3 DEF ProbePublish, Publish, HostKept
  <2> QED
    BY <1>0, <1>1, <2>1
<1>4. ASSUME BridgeMove, HostKept PROVE Reserved'
  BY <1>0, <1>1, <1>4, BridgeMakesNone, BridgeFrame
<1>5. CASE UNCHANGED pathVars
  BY <1>1, <1>5 DEF pathVars, bridgeAll, spoolVars, HostKept
<1> QED
  BY <1>2, <1>3, <1>4, <1>5, StepCases

\* A call that was made stays on record.
LEMMA CallsKept ==
  ASSUME BridgeTypes, Calls, [PathNext]_pathVars, NEW c \in Command, calls[c] = 1
  PROVE  calls'[c] = 1
<1>1. CASE calls' = calls
  BY <1>1
<1>2. CASE Process
  <2>1. hand # c
    BY <1>2 DEF Process, Calls
  <2> QED
    BY <1>2, <2>1, ProcessCalls
<1>3. CASE \/ BridgeStart \/ BridgeCrash \/ OrphansDone \/ FrameRefused \/ Settle \/ SettleFails
           \/ Report \/ Flush \/ \E d \in Command : RecoverOrphan(d) \/ Claim(d)
  BY <1>1, <1>3 DEF BridgeStart, BridgeCrash, OrphansDone, FrameRefused, Settle, SettleFails,
     Report, Flush, RecoverOrphan, Claim
<1>4. CASE UNCHANGED bridgeVars
  BY <1>1, <1>4 DEF bridgeVars
<1> QED
  BY <1>2, <1>3, <1>4, StepCases, SenderKeeps, EnvironmentKeeps
     DEF BridgeMove, BridgeStep, pathVars, bridgeAll

\* Every step keeps the broker ignorant of orders that were not sent.
LEMMA KnownStep ==
  ASSUME BridgeTypes, Calls, Known, [PathNext]_pathVars
  PROVE  Known'
<1>0. broker \in [Order -> BrokerState] /\ calls \in [Command -> Nat]
  BY DEF BridgeTypes, TypeOK
<1>1. ASSUME \A o \in Order : broker'[o] # "none" => broker[o] # "none"
      PROVE  Known'
  BY <1>1, CallsKept DEF Known
<1>2. CASE broker' = broker
  BY <1>1, <1>2
<1>3. CASE Process
  <2>1. CASE broker' = broker
    BY <1>2, <2>1
  <2>2. CASE broker' # broker
    <3>1. PICK out \in Outcomes(hand) :
            /\ out.called
            /\ calls' = [calls EXCEPT ![hand] = @ + (IF out.called THEN 1 ELSE 0)]
            /\ \/ /\ hand[2] = "submit"
                  /\ broker' = [broker EXCEPT ![hand[1]] = IF @ = "none" THEN "live" ELSE @]
               \/ broker' = [broker EXCEPT ![hand[1]] = IF @ = "live" THEN "cancelled" ELSE @]
      BY <1>3, <2>2 DEF Process
    <3>2. hand \in Command /\ calls[hand] = 0 /\ hand[1] \in Order /\ hand = <<hand[1], hand[2]>>
      BY <1>3, CommandFacts DEF Process, BridgeTypes, TypeOK, Calls
    <3>3. CASE hand[2] = "submit"
               /\ broker' = [broker EXCEPT ![hand[1]] = IF @ = "none" THEN "live" ELSE @]
      <4>1. calls' = [calls EXCEPT ![hand] = 1]
        BY <1>0, <3>1, <3>2
      <4>2. calls'[hand] = 1
        BY <1>0, <3>2, <4>1
      <4>3. <<hand[1], "submit">> = hand
        BY <3>2, <3>3
      <4>4. ASSUME NEW o \in Order, broker'[o] # "none", o # hand[1]
            PROVE  <<o, "submit">> \in Command /\ calls'[<<o, "submit">>] = 1
        <5>1. broker[o] # "none"
          BY <1>0, <3>3, <4>4
        <5> QED
          BY <5>1, CallsKept DEF Known
      <4> QED
        BY <3>2, <4>2, <4>3, <4>4 DEF Known
    <3>4. CASE broker' = [broker EXCEPT ![hand[1]] = IF @ = "live" THEN "cancelled" ELSE @]
      BY <1>0, <1>1, <3>4
    <3> QED
      BY <3>1, <3>3, <3>4
  <2> QED
    BY <2>1, <2>2
<1>4. CASE Environment
  BY <1>0, <1>1, <1>4 DEF Environment, Expires, BrokerFills
<1>5. CASE \/ BridgeStart \/ BridgeCrash \/ OrphansDone \/ FrameRefused \/ Settle \/ SettleFails
           \/ Report \/ Flush \/ \E d \in Command : RecoverOrphan(d) \/ Claim(d)
  BY <1>2, <1>5 DEF BridgeStart, BridgeCrash, OrphansDone, FrameRefused, Settle, SettleFails,
     Report, Flush, RecoverOrphan, Claim
<1> QED
  BY <1>2, <1>3, <1>4, <1>5, StepCases, SenderKeeps DEF BridgeMove, BridgeStep, pathVars, bridgeAll

\* Reservations precede commands in every reachable state.
LEMMA PathReserved == OneWriter /\ PathSpec => [](Reserved /\ Known)
<1>1. ASSUME PathInit PROVE Reserved /\ Known
  <2>1. /\ \A o \in Order : rows[o] = AbsentRow /\ broker[o] = "none"
        /\ \A c \in Command : files[c] = {} /\ dispatch[c] = "none"
        /\ env.probe \subseteq Order /\ OrderCommand \subseteq Command
    BY <1>1, ScenarioFacts DEF PathInit, BridgeInit, OrderCommand
  <2>2. AbsentRow.status = "ABSENT" /\ AbsentRow.cancel = 0 /\ "ABSENT" \in Unsent
    BY DEF AbsentRow, Unsent
  <2> QED
    BY <2>1, <2>2 DEF Reserved, Known
<1>2. PathTypes /\ Sender /\ Spool /\ Calls /\ Reserved /\ Known /\ [PathNext]_pathVars
        => (Reserved /\ Known)'
  BY ReservedStep, KnownStep DEF PathTypes
<1> QED
  BY <1>1, <1>2, PathTyped, PathSender, PathSpool, PathCalls, PTL DEF PathSpec

\* A submit in the processed directory was really sent, and the OMS takes an identity for
\* processed only if its file was there.
Sent ==
  /\ \A c \in Command : env.mode # "SHADOW" /\ c[2] = "submit" /\ "processed" \in files[c]
       => calls[c] = 1
  /\ env.mode # "SHADOW" /\ bpc = "settle" /\ verdict.dir = "processed" /\ hand[2] = "submit"
       => calls[hand] = 1
  /\ \A o \in Order : identity[o] = "processed" =>
       <<o, "submit">> \in Command /\ calls[<<o, "submit">>] = 1

\* refresh_identities (guojin_sim_oms.py:137-284)
LEMMA HostImports ==
  ASSUME BridgeTypes, HostTypes, Sender, Sent, NEW h \in Host, HostMove(h), NEW o \in Order,
         identity'[o] = "processed"
  PROVE  <<o, "submit">> \in Command /\ calls[<<o, "submit">>] = 1
<1>1. CASE identity' = identity
  BY <1>1 DEF Sent
<1>2. ASSUME NEW s, Imported(s), env.mode # "SHADOW"
      PROVE  <<o, "submit">> \in Command /\ calls[<<o, "submit">>] = 1
  <2>1. CASE identity[o] = "processed"
    BY <2>1 DEF Sent
  <2>2. CASE identity[o] # "processed"
    <3>1. PICK c \in Candidates(s) : c[1] = o /\ "processed" \in files[<<o, "submit">>]
      BY <1>2, <2>2 DEF Imported
    <3>2. c \in Command /\ c[2] = "submit" /\ c = <<o, "submit">>
      BY <3>1, CommandFacts DEF Candidates, OrderCommand
    <3> QED
      BY <1>2, <3>1, <3>2 DEF Sent
  <2> QED
    BY <2>1, <2>2
<1>3. CASE HostStart(h)
  BY <1>2, <1>3 DEF HostStart
<1>4. CASE RefreshIdentities(h)
  BY <1>2, <1>4 DEF RefreshIdentities, Sender, At
<1>5. CASE HostCrash(h) \/ Lapse(h) \/ Authorize(h) \/ ReserveSubmit(h) \/ NextPlan(h)
           \/ LookAt(h) \/ LocateConflict(h) \/ NotFound(h) \/ PublishCheck(h) \/ PublishRename(h)
           \/ RecordState(h) \/ BeginReconciliation(h) \/ ObserveResult(h)
  BY <1>1, <1>5 DEF HostCrash, Lapse, Authorize, ReserveSubmit, NextPlan, LookAt, LocateConflict,
     NotFound, PublishCheck, PublishRename, RecordState, BeginReconciliation, ObserveResult, dbVars
<1>6. CASE \/ \E p \in Order : CreateIntent(h, p) \/ ReserveCancel(h, p) \/ IngestEvidence(h, p)
           \/ \E c \in Command : Retry(h, c)
           \/ \E r \in emitted : IngestCommandResult(h, r)
  BY <1>1, <1>6 DEF CreateIntent, ReserveCancel, IngestEvidence, Retry, IngestCommandResult, dbVars
<1> QED
  BY <1>3, <1>4, <1>5, <1>6 DEF HostMove, HostStep

\* Every step keeps processed submits sent.
LEMMA SentStep ==
  ASSUME BridgeTypes, HostTypes, Sender, Spool, Calls, Sent, [PathNext]_pathVars
  PROVE  Sent'
<1>0. /\ env' = env /\ files \in [Command -> SUBSET Dir]
      /\ bpc = "settle" => hand \in Command
  BY StepCases, BridgeFrame, SenderKeeps DEF BridgeTypes, TypeOK, pathVars, bridgeAll, spoolVars
<1>1. \A o \in Order : identity'[o] = "processed" =>
        <<o, "submit">> \in Command /\ calls'[<<o, "submit">>] = 1
  <2>1. ASSUME NEW o \in Order, identity'[o] = "processed"
        PROVE  <<o, "submit">> \in Command /\ calls[<<o, "submit">>] = 1
    <3>1. CASE identity' = identity
      BY <2>1, <3>1 DEF Sent
    <3> QED
      BY <2>1, <3>1, HostImports, StepCases, BridgeFrame DEF pathVars, dbVars, HostKept
  <2> QED
    BY <2>1, CallsKept
<1>2. \A c \in Command : env.mode # "SHADOW" /\ c[2] = "submit" /\ "processed" \in files'[c]
        => calls'[c] = 1
  <2>1. ASSUME NEW c \in Command, env.mode # "SHADOW", c[2] = "submit", "processed" \in files'[c]
        PROVE  calls[c] = 1
    <3>1. CASE files' = files
      BY <2>1, <3>1 DEF Sent
    <3>2. ASSUME NEW d \in Command, NEW e \in {"inbox", "claimed", "unknown"},
                 files' = [files EXCEPT ![d] = {e}]
          PROVE  calls[c] = 1
      <4>1. c # d
        BY <1>0, <2>1, <3>2
      <4>2. files'[c] = files[c]
        BY <1>0, <3>2, <4>1
      <4> QED
        BY <2>1, <4>2 DEF Sent
    <3>3. ASSUME Settle, hand \in Command, Leaves(hand, verdict.dir) PROVE calls[c] = 1
      <4>1. CASE c # hand
        BY <1>0, <2>1, <3>3, <4>1 DEF Leaves, Sent
      <4>2. CASE c = hand
        <5>1. verdict.dir = "processed" /\ bpc = "settle"
          BY <1>0, <2>1, <3>3, <4>2 DEF Leaves, Settle
        <5> QED
          BY <2>1, <4>2, <5>1 DEF Sent
      <4> QED
        BY <4>1, <4>2
    <3>4. CASE BridgeMove
      BY <3>1, <3>2, <3>3, <3>4, BridgeMovesFiles DEF Claimed, Leaves
    <3>5. CASE (\E h \in Host : HostMove(h)) \/ (\E d \in Command : ProbePublish(d))
      BY <3>1, <3>2, <3>5, SenderMoves DEF Arrives
    <3> QED
      BY <3>1, <3>4, <3>5, StepCases DEF pathVars, bridgeAll, spoolVars
  <2> QED
    BY <2>1, CallsKept
<1>3. env.mode # "SHADOW" /\ bpc' = "settle" /\ verdict'.dir = "processed" /\ hand'[2] = "submit"
        => calls'[hand'] = 1
  <2>1. CASE UNCHANGED <<bpc, verdict, hand>>
    BY <1>0, <2>1, CallsKept DEF Sent
  <2>2. CASE bpc' # "settle"
    BY <2>2
  <2>3. CASE Process
    BY <2>3, ProcessCalls
  <2>4. CASE FrameRefused
    <3>1. verdict'.dir = "rejected"
      BY <2>4, PlainVerdicts DEF FrameRefused, Decide, Final
    <3> QED
      BY <3>1
  <2>5. CASE UNCHANGED bridgeVars
    BY <2>1, <2>5 DEF bridgeVars
  <2>6. CASE BridgeStart \/ BridgeCrash \/ OrphansDone \/ Settle \/ SettleFails \/ Report \/ Flush
    BY <2>2, <2>6 DEF BridgeStart, BridgeCrash, OrphansDone, Settle, SettleFails, Report, Flush
  <2>7. CASE \E d \in Command : RecoverOrphan(d) \/ Claim(d)
    BY <2>2, <2>7 DEF RecoverOrphan, Claim
  <2> QED
    BY <2>3, <2>4, <2>5, <2>6, <2>7, StepCases, SenderKeeps, EnvironmentKeeps
       DEF BridgeMove, BridgeStep, pathVars, bridgeAll
<1> QED
  BY <1>0, <1>1, <1>2, <1>3 DEF Sent

\* Processed submits were sent, in every reachable state.
LEMMA PathSent == OneWriter /\ PathSpec => []Sent
<1>1. PathInit => Sent
  BY DEF PathInit, BridgeInit, Sent
<1>2. PathTypes /\ Sender /\ Spool /\ Calls /\ Sent /\ [PathNext]_pathVars => Sent'
  BY SentStep DEF PathTypes
<1> QED
  BY <1>1, <1>2, PathTyped, PathSender, PathSpool, PathCalls, PTL DEF PathSpec

\* A broker call for an order of the OMS was preceded by its reservation and its outbox
\* row, which no crash or retry takes back, and an order that the OMS imports as submitted
\* was really sent (guojin_sim_oms.py:603-676, durable_identity.py:18-155).
THEOREM CallsReserved == OneWriter /\ PathSpec => []CallsAreReserved
<1>1. PathTypes /\ Calls /\ Reserved /\ Sent => CallsAreReserved
  <2> SUFFICES ASSUME PathTypes, Calls, Reserved, Sent PROVE CallsAreReserved
    OBVIOUS
  <2>1. ASSUME NEW c \in OrderCommand, calls[c] > 0, c[1] \notin env.probe
        PROVE  dispatch[c] # "none"
    BY <2>1 DEF Calls, Taken, Reserved, OrderCommand
  <2> QED
    BY <2>1 DEF CallsAreReserved, Reserved, Sent, OrderCommand
<1> QED
  BY <1>1, PathTyped, PathCalls, PathReserved, PathSent, PTL

(***************************************************************************)
(* locate() overlooks no file.                                             *)
(***************************************************************************)

\* While nothing has been found, the file is in none of the directories already looked at:
\* they are looked at in the order in which the bridge moves a file through them.
Scanned(h) ==
  /\ hread[h] = dispatch[hcmd[h]]
  /\ Len(seen[h]) <= 5
  /\ Located(h) = {} => \A i \in 1..Len(seen[h]) : StateDirs[i] \notin files[hcmd[h]]

Scans ==
  /\ \A h \in Host : hpc[h] = "scan" => Scanned(h)
  /\ \A h \in Host : hpc[h] \in {"publish", "rename", "published"} =>
       dispatch[hcmd[h]] # "MANUAL_REVIEW"
  /\ \A c \in OrderCommand : dispatch[c] = "MANUAL_REVIEW" => files[c] = {}

\* locate() looks into the five directories in the order of the bridge's moves.
LEMMA DirsInOrder ==
  /\ Len(StateDirs) = 5 /\ \A i \in 1..5 : StateDirs[i] \in Dir
  /\ StateDirs[1] = "inbox" /\ StateDirs[2] = "claimed"
  /\ \A i \in 1..5 : StateDirs[i] \in Final => i >= 3
  /\ \A d \in Dir : \E i \in 1..5 : StateDirs[i] = d
  /\ "none" \notin Dir
<1>1. /\ StateDirs[1] = "inbox" /\ StateDirs[2] = "claimed" /\ StateDirs[3] = "processed"
      /\ StateDirs[4] = "rejected" /\ StateDirs[5] = "unknown" /\ Len(StateDirs) = 5
  BY DEF StateDirs
<1>2. \A i \in 1..5 : i = 1 \/ i = 2 \/ i = 3 \/ i = 4 \/ i = 5
  OBVIOUS
<1>3. 1 \in 1..5 /\ 2 \in 1..5 /\ 3 \in 1..5 /\ 4 \in 1..5 /\ 5 \in 1..5
  OBVIOUS
<1>4. \A d \in Dir : \E i \in 1..5 : StateDirs[i] = d
  BY <1>1, <1>3 DEF Dir
<1> QED
  BY <1>1, <1>2, <1>4 DEF Dir, Final

\* One more exists(): if nothing has been found still, the file is not in this directory
\* either.
LEMMA LookAtScans ==
  ASSUME BridgeTypes, HostTypes, NEW h \in Host, LookAt(h), Scanned(h)
  PROVE  Scanned(h)'
<1> DEFINE n == Len(seen[h])
           x == IF Looked(h) \in files[hcmd[h]] THEN Looked(h) ELSE "none"
<1>0. LocalTypes /\ seen[h] \in Seq(Dir \cup {"none"}) /\ n \in Nat /\ n < 5
      /\ files \in [Command -> SUBSET Dir] /\ hcmd[h] \in Command
  <2>1. LocalTypes /\ seen[h] \in Seq(Dir \cup {"none"}) /\ files \in [Command -> SUBSET Dir]
    BY DEF HostTypes, LocalTypes, BridgeTypes, TypeOK
  <2>2. n \in Nat
    BY <2>1
  <2>3. n < 5
    BY DirsInOrder DEF LookAt
  <2>4. hcmd[h] \in Command
    BY <2>1 DEF LookAt, LocalTypes, At, Sending, OrderCommand
  <2> QED
    BY <2>1, <2>2, <2>3, <2>4
<1>1. UNCHANGED <<hread, dispatch, hcmd, files>> /\ seen' = [seen EXCEPT ![h] = Append(@, x)]
  BY DEF LookAt, dbVars, bridgeAll, spoolVars
<1>2. x \in Dir \cup {"none"}
  BY <1>0
<1>3. Looked(h) = StateDirs[n + 1] /\ StateDirs[n + 1] \in Dir
  BY <1>0, DirsInOrder DEF Looked
<1>4. x = "none" => StateDirs[n + 1] \notin files[hcmd[h]]
  BY <1>3, DirsInOrder
<1> HIDE DEF x
<1>5. seen'[h] = Append(seen[h], x)
  BY <1>0, <1>1 DEF LocalTypes
<1>6. /\ Len(seen'[h]) = n + 1 /\ seen'[h][n + 1] = x
      /\ \A i \in 1..n : seen'[h][i] = seen[h][i]
  BY <1>0, <1>2, <1>5
<1>7. ASSUME Located(h)' = {} PROVE x = "none" /\ Located(h) = {}
  <2>1. \A i \in 1..(n + 1) : seen'[h][i] = "none"
    BY <1>6, <1>7 DEF Located
  <2>2. n + 1 \in 1..(n + 1) /\ \A i \in 1..n : i \in 1..(n + 1)
    BY <1>0
  <2> QED
    BY <1>6, <2>1, <2>2 DEF Located
<1>8. ASSUME Located(h)' = {} PROVE \A i \in 1..(n + 1) : StateDirs[i] \notin files[hcmd[h]]
  <2>1. \A i \in 1..n : StateDirs[i] \notin files[hcmd[h]]
    BY <1>7, <1>8 DEF Scanned
  <2>2. \A i \in 1..(n + 1) : i \in 1..n \/ i = n + 1
    BY <1>0
  <2> QED
    BY <1>4, <1>7, <1>8, <2>1, <2>2
<1> QED
  BY <1>0, <1>1, <1>6, <1>8 DEF Scanned

\* A host that scans has read the outbox row as it is, and has overlooked nothing.
LEMMA HostScans ==
  ASSUME BridgeTypes, HostTypes, Sender, Scans, NEW h \in Host, HostMove(h), hpc'[h] = "scan"
  PROVE  Scanned(h)'
<1>0. LocalTypes /\ dispatch \in [Command -> DispatchState] /\ OrderCommand \subseteq Command
  BY DEF HostTypes, OrderCommand
<1>1. ASSUME NEW where, where # "scan", Goto(h, where) PROVE FALSE
  BY <1>0, <1>1 DEF Goto, LocalTypes
<1>2. ~Finish(h) /\ ~Dies(h) /\ ~Aborts(h)
  BY <1>1 DEF Finish, Dies, Aborts
<1>3. ASSUME NEW c, NEW st, Scanning(h, c, st), dispatch'[c] = st PROVE Scanned(h)'
  <2>1. hread'[h] = st /\ hcmd'[h] = c /\ seen'[h] = <<>>
    BY <1>0, <1>3 DEF Scanning, LocalTypes
  <2> QED
    BY <1>3, <2>1 DEF Scanned
<1>4. ASSUME hpc[h] = "scan", UNCHANGED <<hread, dispatch, hcmd, seen, files>> PROVE Scanned(h)'
  <2>1. Located(h)' = Located(h)
    BY <1>4 DEF Located
  <2>2. Scanned(h)
    BY <1>4 DEF Scans
  <2> QED
    BY <1>4, <2>1, <2>2 DEF Scanned
<1>5. CASE HostStart(h) \/ HostCrash(h) \/ LocateConflict(h) \/ ObserveResult(h) \/ Authorize(h)
           \/ PublishRename(h)
  BY <1>1, <1>2, <1>5 DEF HostStart, HostCrash, LocateConflict, ObserveResult, Authorize,
     PublishRename
<1>6. CASE Lapse(h) \/ RefreshIdentities(h) \/ \E o \in Order : IngestEvidence(h, o)
  BY <1>4, <1>6 DEF Lapse, RefreshIdentities, IngestEvidence, At, hostVars, dbVars, bridgeAll,
     spoolVars
<1>7. CASE LookAt(h)
  BY <1>7, LookAtScans DEF LookAt, At, Scans
<1>8. ASSUME NEW c \in Command, Reserve(h, c) PROVE dispatch'[c] = "PLANNED"
  BY <1>0, <1>8 DEF Reserve
<1>9. CASE ReserveSubmit(h)
  BY <1>0, <1>3, <1>8, <1>9 DEF ReserveSubmit, At, LocalTypes
<1>10. ASSUME NEW o \in Order, ReserveCancel(h, o) PROVE Scanned(h)'
  <2>1. <<o, "cancel">> \in Command
    BY <1>10, ScenarioFacts DEF ReserveCancel, BridgeTypes
  <2> QED
    BY <1>3, <1>8, <1>10, <2>1 DEF ReserveCancel
<1>11. CASE NextPlan(h)
  BY <1>1, <1>3, <1>11 DEF NextPlan, dbVars
<1>12. ASSUME NEW c \in Command, Retry(h, c) PROVE Scanned(h)'
  BY <1>3, <1>12 DEF Retry, dbVars
<1>13. CASE NotFound(h) \/ PublishCheck(h) \/ RecordState(h)
  BY <1>1, <1>2, <1>13 DEF NotFound, PublishCheck, RecordState
<1>14. CASE BeginReconciliation(h)
  BY <1>2, <1>14 DEF BeginReconciliation, At, hostVars
<1>15. CASE \/ \E o \in Order : CreateIntent(h, o)
            \/ \E r \in emitted : IngestCommandResult(h, r)
  BY <1>1, <1>15 DEF CreateIntent, IngestCommandResult
<1> QED
  BY <1>5, <1>6, <1>7, <1>9, <1>10, <1>11, <1>12, <1>13, <1>14, <1>15 DEF HostMove, HostStep

\* Only a PLANNED row is published: nothing in manual review is ever sent.
LEMMA HostPublishes ==
  ASSUME HostTypes, Scans, NEW h \in Host, HostMove(h),
         hpc'[h] \in {"publish", "rename", "published"}
  PROVE  /\ dispatch' = dispatch /\ hcmd'[h] = hcmd[h]
         /\ dispatch[hcmd[h]] # "MANUAL_REVIEW"
<1> DEFINE Goal == /\ dispatch' = dispatch /\ hcmd'[h] = hcmd[h]
                   /\ dispatch[hcmd[h]] # "MANUAL_REVIEW"
<1>0. LocalTypes
  BY DEF HostTypes
<1>1. ASSUME NEW where, where \notin {"publish", "rename", "published"}, Goto(h, where) PROVE FALSE
  BY <1>0, <1>1 DEF Goto, LocalTypes
<1>2. ~Finish(h) /\ ~Dies(h) /\ ~Aborts(h) /\ \A c, st : ~Scanning(h, c, st)
  BY <1>1 DEF Finish, Dies, Aborts, Scanning
<1>3. ASSUME hpc[h] \in {"publish", "rename", "published"}, UNCHANGED <<dispatch, hcmd>>
      PROVE  Goal
  BY <1>3 DEF Scans
<1>4. CASE HostStart(h) \/ HostCrash(h) \/ LocateConflict(h) \/ ObserveResult(h) \/ Authorize(h)
  BY <1>1, <1>2, <1>4 DEF HostStart, HostCrash, LocateConflict, ObserveResult, Authorize
<1>5. CASE Lapse(h) \/ RefreshIdentities(h) \/ \E o \in Order : IngestEvidence(h, o)
  BY <1>3, <1>5 DEF Lapse, RefreshIdentities, IngestEvidence, At, hostVars, dbVars
<1>6. CASE PublishCheck(h) \/ PublishRename(h)
  BY <1>2, <1>3, <1>6 DEF PublishCheck, PublishRename, At, dbVars
<1>7. CASE NotFound(h)
  <2>1. At(h, "scan") /\ hread[h] = "PLANNED" /\ UNCHANGED <<dispatch, hcmd>>
    BY <1>2, <1>7 DEF NotFound, dbVars
  <2> QED
    BY <2>1 DEF At, Scans, Scanned
<1>8. CASE ReserveSubmit(h) \/ NextPlan(h) \/ \E o \in Order : ReserveCancel(h, o)
  BY <1>1, <1>2, <1>8 DEF ReserveSubmit, ReserveCancel, NextPlan
<1>9. CASE RecordState(h) \/ LookAt(h)
  BY <1>1, <1>2, <1>9 DEF RecordState, LookAt, At
<1>10. CASE BeginReconciliation(h)
  BY <1>2, <1>10 DEF BeginReconciliation, At, hostVars
<1>11. CASE \/ \E o \in Order : CreateIntent(h, o)
            \/ \E c \in Command : Retry(h, c)
            \/ \E r \in emitted : IngestCommandResult(h, r)
  BY <1>1, <1>2, <1>11 DEF CreateIntent, Retry, IngestCommandResult
<1> QED
  BY <1>4, <1>5, <1>6, <1>7, <1>8, <1>9, <1>10, <1>11 DEF HostMove, HostStep

\* A dispatch goes to manual review only when all five directories have been looked at.
LEMMA HostGivesUp ==
  ASSUME HostTypes, NEW h \in Host, HostMove(h), NEW c \in Command,
         dispatch'[c] = "MANUAL_REVIEW", dispatch[c] # "MANUAL_REVIEW"
  PROVE  hpc[h] = "scan" /\ c = hcmd[h] /\ Len(seen[h]) = 5 /\ Located(h) = {} /\ files' = files
<1>0. dispatch \in [Command -> DispatchState] /\ dispatch' # dispatch
  BY DEF HostTypes
<1>1. ASSUME NEW d, NEW st, dispatch' = [dispatch EXCEPT ![d] = st] PROVE c = d /\ st = "MANUAL_REVIEW"
  BY <1>0, <1>1
<1>2. CASE NotFound(h)
  <2>1. FailManualReview(hcmd[h])
    BY <1>0, <1>2 DEF NotFound, dbVars
  <2>2. c = hcmd[h]
    BY <1>1, <2>1 DEF FailManualReview
  <2> QED
    BY <1>2, <2>2, DirsInOrder DEF NotFound, At, bridgeAll, spoolVars
<1>3. CASE ReserveSubmit(h) \/ \E o \in Order : ReserveCancel(h, o)
  <2>1. ASSUME NEW d, Reserve(h, d) PROVE FALSE
    <3>1. dispatch' = [dispatch EXCEPT ![d] = "PLANNED"]
      BY <2>1 DEF Reserve
    <3> QED
      BY <1>1, <3>1
  <2> QED
    BY <1>3, <2>1 DEF ReserveSubmit, ReserveCancel
<1>4. CASE RecordState(h)
  <2>1. \A dir \in Dir : ObservedState(dir) # "MANUAL_REVIEW"
    BY DEF ObservedState, Dir
  <2>2. \/ dispatch' = dispatch \/ dispatch' = [dispatch EXCEPT ![hcmd[h]] = "PUBLISHED"]
        \/ \E dir \in Dir : dispatch' = [dispatch EXCEPT ![hcmd[h]] = ObservedState(dir)]
    BY <1>4 DEF RecordState
  <2> QED
    BY <1>0, <1>1, <2>1, <2>2
<1>5. CASE ObserveResult(h)
  <2> DEFINE d == hcmd[h]
             st == IF dispatch[d] = "none" THEN dispatch[d]
                   ELSE IF hread[h] \in {"MUTATION_UNKNOWN", "ORPHANED_UNKNOWN"} THEN "UNKNOWN"
                   ELSE IF hread[h] = "REJECTED_EXPIRED" THEN "OBSERVED_REJECTED"
                   ELSE dispatch[d]
  <2>1. dispatch' = [dispatch EXCEPT ![d] = st]
    BY <1>5 DEF ObserveResult
  <2>2. st = "MANUAL_REVIEW" => dispatch[d] = "MANUAL_REVIEW"
    OBVIOUS
  <2> HIDE DEF st
  <2> QED
    BY <1>1, <2>1, <2>2
<1>6. CASE HostStart(h) \/ HostCrash(h) \/ Lapse(h) \/ RefreshIdentities(h) \/ Authorize(h)
           \/ NextPlan(h) \/ LookAt(h) \/ LocateConflict(h) \/ PublishCheck(h)
           \/ PublishRename(h) \/ BeginReconciliation(h)
  BY <1>0, <1>6 DEF HostStart, HostCrash, Lapse, RefreshIdentities, Authorize, NextPlan, LookAt,
     LocateConflict, PublishCheck, PublishRename, BeginReconciliation, dbVars
<1>7. CASE \/ \E o \in Order : CreateIntent(h, o) \/ IngestEvidence(h, o)
           \/ \E d \in Command : Retry(h, d)
           \/ \E r \in emitted : IngestCommandResult(h, r)
  BY <1>0, <1>7 DEF CreateIntent, IngestEvidence, Retry, IngestCommandResult, dbVars
<1> QED
  BY <1>2, <1>3, <1>4, <1>5, <1>6, <1>7 DEF HostMove, HostStep

\* The bridge moves a file only forward in the order of StateDirs, so it never moves one
\* into a directory that has been looked at out of one that has not.
LEMMA BridgeScans ==
  ASSUME BridgeTypes, HostTypes, Spool, BridgeMove, HostKept, NEW h \in Host, hpc[h] = "scan",
         Scanned(h)
  PROVE  Scanned(h)'
<1> DEFINE c == hcmd[h]
<1>0. /\ UNCHANGED <<hread, dispatch, hcmd, seen>> /\ c \in Command
      /\ files \in [Command -> SUBSET Dir] /\ Len(seen[h]) \in Nat /\ Len(seen[h]) <= 5
  <2>1. UNCHANGED <<hread, dispatch, hcmd, seen>>
    BY DEF HostKept, hostVars, dbVars
  <2>2. c \in Command /\ seen[h] \in Seq(Dir \cup {"none"})
    BY DEF HostTypes, LocalTypes, Sending, OrderCommand
  <2>3. Len(seen[h]) \in Nat
    BY <2>2
  <2> QED
    BY <2>1, <2>2, <2>3 DEF BridgeTypes, TypeOK, Scanned
<1>1. Located(h)' = Located(h)
  BY <1>0 DEF Located
<1> SUFFICES ASSUME Located(h) = {}, NEW i \in 1..Len(seen[h]) PROVE StateDirs[i] \notin files'[c]
  BY <1>0, <1>1 DEF Scanned
<1>2. i \in 1..5 /\ \A j \in 1..i : StateDirs[j] \notin files[c]
  BY <1>0 DEF Scanned
<1>3. CASE files'[c] = files[c]
  BY <1>2, <1>3
<1>4. ASSUME NEW d \in Command, Claimed(d) PROVE StateDirs[i] \notin files'[c]
  <2>1. d = c => 1 \in 1..i /\ StateDirs[1] \in files[c]
    BY <1>2, <1>4, DirsInOrder DEF Claimed
  <2>2. d # c => files'[c] = files[c]
    BY <1>0, <1>4 DEF Claimed
  <2> QED
    BY <1>2, <1>3, <2>1, <2>2
<1>5. ASSUME NEW d \in Command, NEW e \in Final, Leaves(d, e) PROVE StateDirs[i] \notin files'[c]
  <2>1. CASE d # c
    BY <1>0, <1>3, <1>5, <2>1 DEF Leaves
  <2>2. CASE d = c
    <3>1. files[c] = {"claimed"} /\ files'[c] = {e}
      BY <1>0, <1>5, <2>2 DEF Leaves
    <3>2. 2 \notin 1..i
      BY <1>2, <3>1, DirsInOrder
    <3>3. i < 3
      BY <1>2, <3>2
    <3> QED
      BY <1>2, <3>1, <3>3, DirsInOrder
  <2> QED
    BY <2>1, <2>2
<1>6. "unknown" \in Final /\ (bpc = "settle" => verdict.dir \in Final)
  BY DEF Final, BridgeTypes
<1> HIDE DEF c
<1> QED
  BY <1>3, <1>4, <1>5, <1>6, BridgeMovesFiles DEF Settle

\* Every step keeps what a scan has passed behind it empty.
LEMMA ScansStep ==
  ASSUME BridgeTypes, HostTypes, Sender, Sender', Spool, Scans, [PathNext]_pathVars
  PROVE  Scans'
<1>0. files \in [Command -> SUBSET Dir] /\ OrderCommand \subseteq Command
  BY DEF BridgeTypes, TypeOK, OrderCommand
<1>1. ASSUME HostKept, \A h \in Host : hpc[h] = "scan" => Scanned(h)',
             \A c \in OrderCommand : dispatch[c] = "MANUAL_REVIEW" => files'[c] = {}
      PROVE  Scans'
  <2>1. UNCHANGED <<hpc, hcmd, dispatch>>
    BY <1>1 DEF HostKept, hostVars, dbVars
  <2> QED
    BY <1>1, <2>1 DEF Scans
<1>2. ASSUME NEW h \in Host, HostMove(h) PROVE Scans'
  <2>0. Alone(h)
    BY <1>2, HostAlone
  <2>1. ASSUME NEW k \in Host, k # h PROVE hpc'[k] = "down"
    <3>1. hpc'[k] = hpc[k]
      BY <2>0, <2>1 DEF Alone
    <3>2. CASE HostStart(h)
      <4>1. hpc'[h] = "next"
        BY <3>2 DEF HostStart, Goto, HostTypes, LocalTypes
      <4> QED
        BY <2>1, <4>1 DEF Sender
    <3>3. CASE hpc[h] # "down"
      BY <2>1, <3>1, <3>3 DEF Sender
    <3> QED
      BY <1>2, <3>2, <3>3, HostUp
  <2>2. \A k \in Host : hpc'[k] = "scan" => Scanned(k)'
    BY <1>2, <2>1, HostScans
  <2>3. \A k \in Host : hpc'[k] \in {"publish", "rename", "published"} =>
          dispatch'[hcmd'[k]] # "MANUAL_REVIEW"
    BY <1>2, <2>1, HostPublishes
  <2>4. ASSUME NEW c \in OrderCommand, dispatch'[c] = "MANUAL_REVIEW" PROVE files'[c] = {}
    <3>1. CASE dispatch[c] # "MANUAL_REVIEW"
      <4>1. /\ hpc[h] = "scan" /\ c = hcmd[h] /\ Len(seen[h]) = 5 /\ Located(h) = {}
            /\ files' = files
        BY <1>0, <1>2, <2>4, <3>1, HostGivesUp
      <4>2. \A i \in 1..5 : StateDirs[i] \notin files[c]
        BY <4>1 DEF Scans, Scanned
      <4>3. files[c] \subseteq Dir
        BY <1>0
      <4> QED
        BY <4>1, <4>2, <4>3, DirsInOrder
    <3>2. CASE dispatch[c] = "MANUAL_REVIEW"
      <4>1. files[c] = {}
        BY <3>2 DEF Scans
      <4>2. PublishRename(h) => hcmd[h] # c
        BY <3>2 DEF PublishRename, At, Scans
      <4>3. PublishRename(h) => files'[c] = files[c]
        BY <1>0, <4>2 DEF PublishRename
      <4> QED
        BY <1>2, <4>1, <4>3, HostFrame DEF BridgeKept
    <3> QED
      BY <3>1, <3>2
  <2> QED
    BY <2>2, <2>3, <2>4 DEF Scans
<1>3. ASSUME NEW d \in Command, ProbePublish(d) PROVE Scans'
  <2>1. /\ Arrives(d) /\ HostKept
        /\ \A h \in Host : hpc[h] = "scan" => hcmd[h] # d
    BY <1>3, ProbeArrives DEF Sending
  <2>2. ASSUME NEW c \in Command, c # d PROVE files'[c] = files[c]
    BY <1>0, <2>1, <2>2 DEF Arrives
  <2>3. ASSUME NEW h \in Host, hpc[h] = "scan" PROVE Scanned(h)'
    <3>1. hcmd[h] \in Command /\ Scanned(h)
      BY <2>3 DEF Scans, HostTypes, LocalTypes, Sending, OrderCommand
    <3>2. UNCHANGED <<hread, dispatch, hcmd, seen>>
      BY <2>1 DEF HostKept, hostVars, dbVars
    <3>3. files'[hcmd[h]] = files[hcmd[h]]
      BY <2>1, <2>2, <2>3, <3>1
    <3>4. Located(h)' = Located(h)
      BY <3>2 DEF Located
    <3> QED
      BY <3>1, <3>2, <3>3, <3>4 DEF Scanned
  <2>4. dispatch[d] # "MANUAL_REVIEW"
    BY <1>3 DEF ProbePublish, SimulationProbe, CanaryProbe, ShadowProbe, Sender, OrderCommand
  <2> QED
    BY <1>0, <1>1, <2>1, <2>2, <2>3, <2>4 DEF Scans
<1>4. ASSUME BridgeMove, HostKept PROVE Scans'
  BY <1>0, <1>1, <1>4, BridgeScans, BridgeMakesNone DEF Scans
<1>5. CASE UNCHANGED pathVars
  <2>1. UNCHANGED <<hread, dispatch, hcmd, seen, files, hpc>>
    BY <1>5 DEF pathVars, dbVars, hostVars, bridgeAll, spoolVars
  <2>2. \A h \in Host : Located(h)' = Located(h)
    BY <2>1 DEF Located
  <2> QED
    BY <2>1, <2>2 DEF Scans, Scanned
<1> QED
  BY <1>2, <1>3, <1>4, <1>5, StepCases

\* No command is given up because its file could not be found while the bridge moved it: a
\* dispatch in manual review has no file, for any interleaving of locate()'s five lookups
\* with the bridge's renames (commands.py:296-311, guojin_sim_oms.py:703-718).
THEOREM HistoryNeverMissed == OneWriter /\ PathSpec => []HistoryComplete
<1>1. PathInit => Scans
  BY DEF PathInit, BridgeInit, Scans, OrderCommand
<1>2. PathTypes /\ Sender /\ Sender' /\ Spool /\ Scans /\ [PathNext]_pathVars => Scans'
  BY ScansStep DEF PathTypes
<1>3. Scans => HistoryComplete
  BY DEF Scans, HistoryComplete
<1> QED
  BY <1>1, <1>2, <1>3, PathTyped, PathSender, PathSpool, PTL DEF PathSpec
=============================================================================
