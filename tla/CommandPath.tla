----------------------------- MODULE CommandPath -----------------------------
(***************************************************************************)
(* The command path end to end: GuojinSimOmsRuntime (qmt/guojin_sim_oms.py) *)
(* reserves an order, commits the immutable frame as an outbox row, writes  *)
(* the frame into the spool (qmt/commands.py) and follows it through the    *)
(* state directories, while the bridge (BridgeCommands) moves the file and  *)
(* reports results (qmt/command_results.py).                                *)
(*                                                                         *)
(* A Host is one process with one thread and one lease; hosts share the    *)
(* database and the spool.  One transaction or one file-system call is one  *)
(* step; a host may die between any two.  Orders of env.probe are sent by  *)
(* simulation_probe without the OMS, which later imports them.             *)
(***************************************************************************)
EXTENDS BridgeCommands

CONSTANTS Host, NoHost

\* The broker's id of an order is not told apart from the order (BrokerFact).
ASSUME PathAssumption == NoHost \notin Host /\ Order \subseteq BrokerId

VARIABLES
  \* durable: host_oms.sqlite3
  rows,        \* broker_orders
  dispatch,    \* qmt_execution_dispatches: dispatch_state, or "none"
  identity,    \* qmt_durable_command_identities: command_state, or "none"
  journal,     \* qmt_command_results
  holder,      \* owner of an unexpired oms_leader row
  \* one host
  hpc,         \* where its thread is
  hsession,    \* the QMT session its instance is pinned to
  hcmd,        \* command in hand
  hread,       \* dispatch_state of the row _recover_dispatch was given
  todo,        \* rows recover_dispatches has still to visit; NoCommand stands for
               \* the end of the constructor
  seen         \* what locate() has found so far

dbVars   == <<rows, dispatch, identity, journal>>
hostVars == <<hpc, hsession, hcmd, hread, todo, seen>>
pathVars == <<dbVars, hostVars, holder, bridgeAll>>

\* QmtCommandSpool._STATE_DIRS, the order in which directories are looked at.
StateDirs == <<"inbox", "claimed", "processed", "rejected", "unknown">>

DispatchState == {"none", "PLANNED", "PUBLISHED", "OBSERVED_CLAIMED", "OBSERVED_PROCESSED",
                  "OBSERVED_REJECTED", "UNKNOWN", "MANUAL_REVIEW"}

OrderCommand == {c \in Command : c[2] # "snapshot"}

PathInit ==
  /\ BridgeInit
  /\ rows = [o \in Order |-> AbsentRow]
  /\ dispatch = [c \in Command |-> "none"]
  /\ identity = [o \in Order |-> "none"]
  /\ journal = {}
  /\ holder = NoHost
  /\ hpc = [h \in Host |-> "down"]
  /\ hsession = [h \in Host |-> 0]
  /\ hcmd = [h \in Host |-> NoCommand]
  /\ hread = [h \in Host |-> "none"]
  /\ todo = [h \in Host |-> {}]
  /\ seen = [h \in Host |-> <<>>]

\* _guard_write_in_tx: inside the transaction, so check and write are one step.
Held(h) == holder = h

At(h, where) == hpc[h] = where

Goto(h, where) == hpc' = [hpc EXCEPT ![h] = where]

-----------------------------------------------------------------------------
(* Starting, stopping and losing the lease.                                *)

\* _validate_dispatch_invariants: a reservation whose plan belongs to no or to
\* another session goes to manual review.
Validated(row, o, s) ==
  LET stale(kind) == <<o, kind>> \notin Command
                     \/ dispatch[<<o, kind>>] = "none" \/ pinned[<<o, kind>>] # s
  IN  IF row.status = "SUBMITTING" /\ row.submit = 1 /\ stale("submit")
      THEN ReviewRow(row, row.filled)
      ELSE IF /\ row.cancel = 1 /\ row.resolved = 0
              /\ row.status \in {"ACKNOWLEDGED", "PARTIALLY_FILLED", "CANCEL_PENDING"}
              /\ stale("cancel")
      THEN [ReviewRow(row, row.filled) EXCEPT !.resolved = 1]
      ELSE row

\* recover_dispatches and _restore_dispatch_plan_identities: the rows of this session.
Plans(s) == {c \in OrderCommand : dispatch[c] \notin {"none", "MANUAL_REVIEW"}
                                  /\ pinned[c] = s}

\* The submits refresh_identities imports: finished files of this session, the
\* orders of which are unknown or have a dispatch row.
Candidates(s) ==
  {c \in OrderCommand : /\ c[2] = "submit" /\ pinned[c] = s
                        /\ files[c] \cap {"processed", "unknown"} # {}}

\* register_qmt_durable_submit: an unknown order enters as RECONCILING with its
\* submit call started, a known one is linked.
Imported(s) ==
  LET new == {o \in Order : \E c \in Candidates(s) : c[1] = o /\ identity[o] = "none"}
  IN  /\ rows' = [o \in Order |->
                    IF o \in new /\ rows[o].status = "ABSENT"
                    THEN [AbsentRow EXCEPT !.status = "RECONCILING", !.submit = 1]
                    ELSE Validated(rows[o], o, s)]
      /\ identity' = [o \in Order |->
                        IF o \in new
                        THEN IF "processed" \in files[<<o, "submit">>]
                             THEN "processed" ELSE "unknown"
                        ELSE identity[o]]

\* GuojinSimOmsRuntime.__init__: the instance names the session of the manifest;
\* acquire, restore, refresh, validate, then recover_dispatches.
HostStart(h) ==
  /\ env.mode = "SIMULATION_CALIBRATION" /\ At(h, "down") /\ session > 0
  /\ holder = NoHost \/ (holder \in Host /\ hpc[holder] = "down")
  /\ holder' = h
  /\ hsession' = [hsession EXCEPT ![h] = session]
  /\ Imported(session)
  /\ todo' = [todo EXCEPT ![h] = Plans(session) \cup {NoCommand}]
  /\ Goto(h, "next")
  /\ UNCHANGED <<dispatch, journal, hcmd, hread, seen, bridgeAll>>

\* The host's memory is gone; its lease row stays until it runs out.
Dies(h) ==
  /\ Goto(h, "down")
  /\ hsession' = [hsession EXCEPT ![h] = 0]
  /\ hcmd' = [hcmd EXCEPT ![h] = NoCommand]
  /\ hread' = [hread EXCEPT ![h] = "none"]
  /\ todo' = [todo EXCEPT ![h] = {}]
  /\ seen' = [seen EXCEPT ![h] = <<>>]

\* The process dies, or an exception of the main loop (rollover, lost lease) ends it.
HostCrash(h) ==
  /\ env.crash /\ hpc[h] # "down"
  /\ Dies(h)
  /\ UNCHANGED <<dbVars, holder, bridgeAll>>

\* A host that stalls for longer than its lease.
Lapse(h) ==
  /\ env.lapse /\ Held(h) /\ hpc[h] # "down"
  /\ holder' = NoHost
  /\ UNCHANGED <<dbVars, hostVars, bridgeAll>>

-----------------------------------------------------------------------------
(* execute_intent and cancel_intent.                                       *)

\* create_intent; an id that was used raises DuplicateClientOrderId.
CreateIntent(h, o) ==
  /\ At(h, "idle") /\ Held(h)
  /\ <<o, "submit">> \in env.cmds /\ o \notin env.probe
  /\ dispatch[<<o, "submit">>] = "none" /\ rows[o].status = "ABSENT"
  /\ rows' = [rows EXCEPT ![o].status = "CREATED"]
  /\ hcmd' = [hcmd EXCEPT ![h] = <<o, "submit">>]
  /\ Goto(h, "created")
  /\ UNCHANGED <<dispatch, identity, journal, holder, hsession, hread, todo, seen,
                 bridgeAll>>

\* record_risk_decision: core_execution_decision always accepts.
Authorize(h) ==
  /\ At(h, "created") /\ Held(h)
  /\ rows' = [rows EXCEPT ![hcmd[h][1]] = TransitionRow(@, "RISK_ACCEPTED", FALSE)]
  /\ Goto(h, "authorized")
  /\ UNCHANGED <<dispatch, identity, journal, holder, hsession, hcmd, hread, todo, seen, bridgeAll>>

\* Mutant: the outbox row is committed before the reservation.
Reserve_PlanFirst(h, c) ==
  /\ dispatch' = [dispatch EXCEPT ![c] = "PLANNED"]
  /\ pinned' = [pinned EXCEPT ![c] = hsession[h]]
  /\ UNCHANGED rows

\* _reserve_and_persist_dispatch: prepare_submit_in_tx or prepare_cancel_in_tx and
\* the immutable frame, pinned to the host's session, in one transaction.
Reserve(h, c) ==
  /\ rows' = [rows EXCEPT ![c[1]] =
       IF c[2] = "submit"
       THEN [@ EXCEPT !.status = "SUBMITTING", !.submit = 1]
       ELSE [@ EXCEPT !.status = "CANCEL_PENDING", !.cancel = 1, !.resolved = 0]]
  /\ dispatch' = [dispatch EXCEPT ![c] = "PLANNED"]
  /\ pinned' = [pinned EXCEPT ![c] = hsession[h]]

\* _recover_dispatch begins: locate() will look at one directory at a time.
Scanning(h, c, state) ==
  /\ hcmd' = [hcmd EXCEPT ![h] = c]
  /\ hread' = [hread EXCEPT ![h] = state]
  /\ seen' = [seen EXCEPT ![h] = <<>>]
  /\ Goto(h, "scan")

ReserveSubmit(h) ==
  /\ At(h, "authorized") /\ Held(h)
  /\ rows[hcmd[h][1]].status = "RISK_ACCEPTED"
  /\ Reserve(h, hcmd[h])
  /\ Scanning(h, hcmd[h], "PLANNED")
  /\ UNCHANGED <<identity, journal, holder, hsession, todo, files, expired, env, broker,
                 bridgeVars>>

ReserveCancel(h, o) ==
  /\ At(h, "idle") /\ Held(h)
  /\ <<o, "cancel">> \in env.cmds /\ dispatch[<<o, "cancel">>] = "none"
  /\ files[<<o, "cancel">>] = {}
  /\ rows[o].status \in {"ACKNOWLEDGED", "PARTIALLY_FILLED"}
  /\ rows[o].bid # NoId /\ rows[o].cancel = 0
  /\ Reserve(h, <<o, "cancel">>)
  /\ Scanning(h, <<o, "cancel">>, "PLANNED")
  /\ UNCHANGED <<identity, journal, holder, hsession, todo, files, expired, env, broker,
                 bridgeVars>>

\* A second call for an order that has a row; the frame rebuilt for another
\* session would differ, which is an error.  A closed order's cancel is a no-op.
Retry(h, c) ==
  /\ At(h, "idle") /\ Held(h) /\ c \in OrderCommand
  /\ dispatch[c] # "none" /\ pinned[c] = hsession[h]
  /\ c[2] = "cancel" => rows[c[1]].status \notin Terminal
  /\ Scanning(h, c, dispatch[c])
  /\ UNCHANGED <<dbVars, hsession, todo, holder, bridgeAll>>

\* recover_dispatches: the next row, or the end of the constructor.
NextPlan(h) ==
  /\ At(h, "next") /\ Held(h)
  /\ IF todo[h] = {NoCommand}
     THEN /\ Goto(h, "idle") /\ UNCHANGED <<hcmd, hread, seen>>
          /\ todo' = [todo EXCEPT ![h] = {}]
     ELSE \E c \in todo[h] \ {NoCommand} : /\ Scanning(h, c, dispatch[c])
                                           /\ todo' = [todo EXCEPT ![h] = @ \ {c}]
  /\ UNCHANGED <<dbVars, hsession, holder, bridgeAll>>

-----------------------------------------------------------------------------
(* _recover_dispatch.                                                      *)

\* The operation is over: back to the loop of the constructor, or to idle.
Finish(h) ==
  /\ Goto(h, IF todo[h] = {} THEN "idle" ELSE "next")
  /\ hcmd' = [hcmd EXCEPT ![h] = NoCommand]
  /\ hread' = [hread EXCEPT ![h] = "none"]
  /\ seen' = [seen EXCEPT ![h] = <<>>]
  /\ UNCHANGED <<hsession, todo>>

\* An exception: it ends a host that is starting, else only the operation.
Aborts(h) == IF NoCommand \in todo[h] THEN Dies(h) ELSE Finish(h)

\* Mutant: the directories are looked at from the end.
Looked_Backwards(h) == StateDirs[Len(StateDirs) - Len(seen[h])]

\* The directory exists() is asked about next.
Looked(h) == StateDirs[Len(seen[h]) + 1]

\* locate(), one exists().
LookAt(h) ==
  /\ At(h, "scan") /\ Len(seen[h]) < Len(StateDirs)
  /\ seen' = [seen EXCEPT ![h] = Append(@,
       IF Looked(h) \in files[hcmd[h]] THEN Looked(h) ELSE "none")]
  /\ UNCHANGED <<dbVars, hpc, hsession, hcmd, hread, todo, holder, bridgeAll>>

Located(h) == {seen[h][i] : i \in 1..Len(seen[h])} \ {"none"}

\* locate() raises when it has seen the file in two directories.
LocateConflict(h) ==
  /\ At(h, "scan") /\ Len(seen[h]) = Len(StateDirs) /\ Cardinality(Located(h)) > 1
  /\ Aborts(h)
  /\ UNCHANGED <<dbVars, holder, bridgeAll>>

\* _fail_dispatch_manual_review
FailManualReview(c) ==
  LET row == rows[c[1]] IN
  /\ dispatch' = [dispatch EXCEPT ![c] = "MANUAL_REVIEW"]
  /\ rows' = [rows EXCEPT ![c[1]] = [ReviewRow(row, row.filled) EXCEPT
       !.resolved = IF c[2] = "cancel" THEN 1 ELSE row.resolved]]

\* Nothing found.  A PLANNED row that has expired, and a row that was published
\* before, go to manual review; a PLANNED row is published.
NotFound(h) ==
  LET c == hcmd[h] IN
  /\ At(h, "scan") /\ Len(seen[h]) = Len(StateDirs) /\ Located(h) = {}
  /\ \/ /\ hread[h] = "PLANNED" /\ c \notin expired
        /\ Goto(h, "publish")
        /\ UNCHANGED <<dbVars, hsession, hcmd, hread, todo, seen>>
     \/ /\ Held(h)
        /\ IF hread[h] = "PLANNED" THEN c \in expired ELSE hread[h] # "MANUAL_REVIEW"
        /\ FailManualReview(c)
        /\ Finish(h)
        /\ UNCHANGED <<identity, journal>>
     \/ /\ hread[h] = "MANUAL_REVIEW"
        /\ Finish(h)
        /\ UNCHANGED dbVars
  /\ UNCHANGED <<holder, bridgeAll>>

\* publish(): _find_existing and the expiry check, then the frame is written to a
\* temporary file (a copy that another host published may move before it is read) ...
PublishCheck(h) ==
  /\ At(h, "publish")
  /\ IF hcmd[h] \in expired
     THEN Aborts(h)
     ELSE \/ /\ Goto(h, IF files[hcmd[h]] = {} THEN "rename" ELSE "published")
             /\ UNCHANGED <<hsession, hcmd, hread, todo, seen>>
          \/ files[hcmd[h]] # {} /\ Aborts(h)
  /\ UNCHANGED <<dbVars, holder, bridgeAll>>

\* ... and renamed into the inbox.
PublishRename(h) ==
  /\ At(h, "rename")
  /\ files' = [files EXCEPT ![hcmd[h]] = @ \cup {"inbox"}]
  /\ Goto(h, "published")
  /\ UNCHANGED <<dbVars, hsession, hcmd, hread, todo, seen, holder, pinned, expired, env,
                 broker, bridgeVars>>

\* Mutant: the directory name is stored as it is.
ObservedState_Raw(dir) == dir

ObservedState(dir) ==
  CASE dir = "inbox" -> "PUBLISHED" [] dir = "claimed" -> "OBSERVED_CLAIMED"
    [] dir = "processed" -> "OBSERVED_PROCESSED" [] dir = "rejected" -> "OBSERVED_REJECTED"
    [] OTHER -> "UNKNOWN"

\* _set_dispatch_state, after a publication or for the directory that was found.
\* Reading the located file fails if the bridge has moved it meanwhile.
RecordState(h) ==
  LET c == hcmd[h] IN
  /\ Held(h)
  /\ \/ /\ At(h, "published")
        /\ dispatch' = [dispatch EXCEPT ![c] = "PUBLISHED"]
        /\ Goto(h, "reconcile") /\ UNCHANGED <<hsession, hcmd, hread, todo, seen>>
     \/ /\ At(h, "scan") /\ Len(seen[h]) = Len(StateDirs)
        /\ \E dir \in Dir :
             /\ Located(h) = {dir}
             /\ IF dir \in files[c]
                THEN /\ dispatch' = [dispatch EXCEPT ![c] = ObservedState(dir)]
                     /\ Goto(h, "reconcile")
                     /\ UNCHANGED <<hsession, hcmd, hread, todo, seen>>
                ELSE Aborts(h) /\ UNCHANGED dispatch
  /\ UNCHANGED <<rows, identity, journal, holder, bridgeAll>>

\* _begin_reconciliation: one transaction per status change.
BeginReconciliation(h) ==
  LET o == hcmd[h][1] IN
  /\ At(h, "reconcile") /\ Held(h)
  /\ IF rows[o].status \in {"SUBMITTING", "CANCEL_PENDING", "UNKNOWN"}
     THEN /\ rows' = [rows EXCEPT ![o] = ReconciledRow(@, TRUE)]
          /\ UNCHANGED hostVars
     ELSE Finish(h) /\ UNCHANGED rows
  /\ UNCHANGED <<dispatch, identity, journal, holder, bridgeAll>>

-----------------------------------------------------------------------------
(* Events.                                                                 *)

\* QmtCommandResultJournal.ingest, the transaction: the result is stored and the order
\* moved; a stored one changes nothing, a different one is a conflict.
JournalResult(r) ==
  /\ rows[r.cmd[1]].status # "ABSENT"
  /\ \A j \in journal : j.cmd = r.cmd => j = r
  /\ journal' = journal \cup {r}
  /\ rows' = [rows EXCEPT ![r.cmd[1]] =
       IF r \in journal THEN @ ELSE ReconciledRow(@, BeginsReconciling(r))]

\* _handle_command_result and ingest_execution_command_result: journal the result; an
\* event of another session ends the host (QmtOmsSessionRollover).
IngestCommandResult(h, r) ==
  /\ At(h, "idle") /\ Held(h) /\ r \in emitted
  /\ r.session = hsession[h] /\ r.kind # "snapshot"
  /\ ProtocolAccepts(r) /\ JournalAccepts(r)
  /\ JournalResult(r)
  /\ hcmd' = [hcmd EXCEPT ![h] = r.cmd]
  /\ hread' = [hread EXCEPT ![h] = r.status]
  /\ Goto(h, "observe")
  /\ UNCHANGED <<dispatch, identity, hsession, todo, seen, holder, bridgeAll>>

\* _observe_command_result_dispatch
ObserveResult(h) ==
  LET c == hcmd[h] IN
  /\ At(h, "observe") /\ Held(h)
  /\ dispatch' = [dispatch EXCEPT ![c] =
       IF @ = "none" THEN @
       ELSE IF hread[h] \in {"MUTATION_UNKNOWN", "ORPHANED_UNKNOWN"} THEN "UNKNOWN"
       ELSE IF hread[h] = "REJECTED_EXPIRED" THEN "OBSERVED_REJECTED" ELSE @]
  /\ Finish(h)
  /\ UNCHANGED <<rows, identity, journal, holder, bridgeAll>>

\* _maintain_current_oms_event: refresh_identities at an event boundary.
RefreshIdentities(h) ==
  /\ At(h, "idle") /\ Held(h)
  /\ \E c \in Candidates(hsession[h]) : identity[c[1]] = "none"
  /\ Imported(hsession[h])
  /\ UNCHANGED <<dispatch, journal, hostVars, holder, bridgeAll>>

BrokerFact(o) ==
  LET fact(status, filled) == [eid |-> o, order |-> o, status |-> status, bid |-> o,
                               filled |-> filled]
  IN CASE broker[o] = "live" -> fact("ACKNOWLEDGED", 0)
       [] broker[o] = "filled" -> fact("FILLED", Quantity)
       [] OTHER -> fact("CANCELLED", 0)

\* ingest_broker_evidence with a mapped callback or query row.
IngestEvidence(h, o) ==
  /\ At(h, "idle") /\ Held(h)
  /\ broker[o] # "none" /\ rows[o].status \notin {"ABSENT"}
  /\ MergeOutcome(rows[o], BrokerFact(o)) = "ok"
  /\ rows' = [rows EXCEPT ![o] = MergedRow(@, BrokerFact(o))]
  /\ UNCHANGED <<dispatch, identity, journal, hostVars, holder, bridgeAll>>

\* simulation_probe submits and cancels without the OMS.  Its cancel has an id of its own;
\* here an order is cancelled by one of them only.
SimulationProbe(c) ==
  env.mode = "SIMULATION_CALIBRATION" /\ c[2] # "snapshot" /\ dispatch[c] = "none"

\* live_canary_probe
CanaryProbe(c) == env.mode = "LIVE_CANARY" /\ c[2] # "snapshot"

\* shadow_probe; a snapshot request serves every mode.
ShadowProbe(c) == env.mode = "SHADOW" \/ c[2] = "snapshot"

\* A probe publishes one of its own commands.
ProbePublish(c) ==
  /\ c[1] \in env.probe
  /\ SimulationProbe(c) \/ CanaryProbe(c) \/ ShadowProbe(c)
  /\ Publish(c)
  /\ UNCHANGED <<dbVars, hostVars, holder>>

-----------------------------------------------------------------------------
HostStep(h) ==
  \/ Authorize(h) \/ ReserveSubmit(h) \/ NextPlan(h) \/ LookAt(h) \/ LocateConflict(h)
  \/ NotFound(h) \/ PublishCheck(h) \/ PublishRename(h) \/ RecordState(h)
  \/ BeginReconciliation(h) \/ ObserveResult(h)

BridgeMoves == BridgeStep /\ UNCHANGED <<dbVars, hostVars, holder>>

PathNext ==
  \/ \E h \in Host :
       \/ HostStart(h) \/ HostCrash(h) \/ Lapse(h) \/ HostStep(h) \/ RefreshIdentities(h)
       \/ \E o \in Order : CreateIntent(h, o) \/ ReserveCancel(h, o) \/ IngestEvidence(h, o)
       \/ \E c \in Command : Retry(h, c)
       \/ \E r \in emitted : IngestCommandResult(h, r)
  \/ \E c \in Command : ProbePublish(c)
  \/ BridgeMoves
  \/ (BridgeStart \/ BridgeCrash \/ Environment) /\ UNCHANGED <<dbVars, hostVars, holder>>

\* The terminal calls command_tick every second while the strategy runs.
PathSpec == PathInit /\ [][PathNext]_pathVars /\ WF_pathVars(BridgeMoves)

-----------------------------------------------------------------------------
(* Properties.                                                             *)

\* The tables hold the states their schema allows, a command file is in the known
\* directories only, and the bridge has a command in hand exactly when it works on one
\* (guojin_sim_oms.py:678-686, commands.py:128).
PathTypeOK ==
  /\ TypeOK
  /\ rows \in [Order -> Row]
  /\ dispatch \in [Command -> DispatchState]
  /\ identity \in [Order -> {"none", "processed", "unknown"}]
  /\ holder \in Host \cup {NoHost}
  /\ hsession \in [Host -> Nat]
  /\ hcmd \in [Host -> Command \cup {NoCommand}]

\* A broker call for an order of the OMS has its reservation and its outbox row,
\* committed before the frame left the host (guojin_sim_oms.py:651-676); and an order the
\* OMS imports as submitted was really sent (guojin_sim_oms.py:137-284).
CallsAreReserved ==
  /\ \A c \in OrderCommand : calls[c] > 0 /\ c[1] \notin env.probe =>
       /\ dispatch[c] # "none"
       /\ rows[c[1]].submit = 1 /\ (c[2] = "cancel" => rows[c[1]].cancel = 1)
  /\ \A o \in Order : identity[o] = "processed" => calls[<<o, "submit">>] = 1

\* No row is sent to manual review because its file could not be found while the bridge
\* moved it: that branch is for deleted command history only (guojin_sim_oms.py:706-718).
HistoryComplete ==
  \A c \in OrderCommand : dispatch[c] = "MANUAL_REVIEW" => files[c] = {}
=============================================================================
