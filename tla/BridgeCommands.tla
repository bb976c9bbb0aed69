--------------------------- MODULE BridgeCommands ---------------------------
(***************************************************************************)
(* The command half of the QMT-side bridge (qmt_side/*V05*.py): commands   *)
(* are files that move between state directories, a command is claimed by  *)
(* a rename before anything else happens to it, and its result becomes an  *)
(* event.  Mode selects the generated artifact: the shadow template (also  *)
(* Galaxy), the Guojin simulation and the Guojin live canary differ only in *)
(* _execute_order_command.                                                 *)
(*                                                                         *)
(* The bridge is one thread in the terminal; it may die between any two    *)
(* file operations and a restart has a new session id.  Only files survive. *)
(* A command <<o, kind>> stands for its immutable frame.                   *)
(***************************************************************************)
EXTENDS CommandResults, Sequences

CONSTANTS Command,      \* the command files, a subset of Order \X Kind
          Scenario,     \* the deployments and bounds to check, see IsScenario
          NoCommand

\* mode: EXECUTION_MODE of the artifact; submitFuse, cancelFuse: its call limits per
\* session; cmds: the commands in play; probe: the orders that simulation_probe,
\* live_canary_probe or shadow_probe publishes without the OMS.  Bounds: sessions
\* (terminal starts), expire (commands that may be left to expire), crash (a host may
\* die).  lapse: a running host may miss its 10 s heartbeats for 30 s.
IsScenario(e) ==
  /\ e.mode \in Mode /\ e.cmds \subseteq Command /\ e.expire \subseteq Command
  /\ {e.submitFuse, e.cancelFuse, e.sessions} \subseteq Nat
  /\ e.probe \subseteq Order /\ {e.crash, e.lapse} \subseteq BOOLEAN

ASSUME BridgeAssumption ==
  /\ Command \subseteq Order \X Kind /\ NoCommand \notin Command
  /\ \A e \in Scenario : IsScenario(e)

Dir == {"inbox", "claimed", "processed", "rejected", "unknown"}

VARIABLES
  env,         \* the scenario of this behaviour; never changes
  files,       \* durable: the directories a command file is in
  pinned,      \* expected_qmt_session_id inside the frame (0: not written yet)
  expired,     \* commands whose expires_ms has passed
  emitted,     \* durable: command_result events in the event spool
  session,     \* current terminal session (the manifest names it)
  bpc,         \* "down", "idle" or where the bridge is with the command in hand
  hand,        \* the claimed command being processed
  verdict,     \* what remains to be done: target directory, status, side effect
  orphansDone, \* orphan_recovery_done
  submitCalls, cancelCalls,   \* counters of this session
  halted,      \* live_canary_halted
  queue,       \* command_result events not yet persisted
  \* external: the broker
  broker,      \* "none", "live", "filled", "cancelled" per order
  \* history
  calls,       \* broker calls made for a command
  crossings    \* passorder calls of this session, those that raised included

spoolVars  == <<files, pinned, expired, env>>
bridgeVars == <<session, bpc, hand, verdict, orphansDone, submitCalls, cancelCalls,
                halted, queue, emitted, calls, crossings>>

NoVerdict == [dir |-> "none", status |-> "none", effect |-> FALSE]

Verdict(dir, status, effect) == [dir |-> dir, status |-> status, effect |-> effect]

BridgeInit ==
  /\ env \in Scenario
  /\ files = [c \in Command |-> {}]
  /\ pinned = [c \in Command |-> 0]
  /\ expired = {}
  /\ emitted = {} /\ queue = <<>>
  /\ session = 0 /\ bpc = "down" /\ hand = NoCommand /\ verdict = NoVerdict
  /\ orphansDone = FALSE
  /\ submitCalls = 0 /\ cancelCalls = 0 /\ halted = FALSE
  /\ broker = [o \in Order |-> "none"]
  /\ calls = [c \in Command |-> 0]
  /\ crossings = 0

-----------------------------------------------------------------------------
(* What _execute_order_command may do with a command: a verdict, whether    *)
(* the broker API was called, and whether the call returned.               *)

Outcome(v, called, returned) == [verdict |-> v, called |-> called, returned |-> returned]

\* CommandError: the caller rejects the command.
Refused == Outcome(Verdict("rejected", "REJECTED_SAFETY_GATE", FALSE), FALSE, FALSE)

\* Any other exception, before or after the broker API was entered.
Raised(called) == Outcome(Verdict("unknown", "MUTATION_UNKNOWN", TRUE), called, FALSE)

Answered(status, effect, called) ==
  Outcome(Verdict("processed", status, effect), called, TRUE)

\* The shadow template acknowledges and calls nothing.
ShadowOutcomes(c) == {Answered("SHADOW_ACCEPTED", FALSE, FALSE)}

\* The cancel branch, the same in both mutating artifacts: one exact order must
\* match id and token, else the command is refused.
CancelOutcomes(c) ==
  IF cancelCalls >= env.cancelFuse \/ broker[c[1]] = "none" THEN {Refused}
  ELSE {Refused, Raised(FALSE), Raised(TRUE),
        Answered("CANCEL_NOT_CANCELLABLE", FALSE, FALSE),
        Answered("CANCEL_SIGNAL_SENT", TRUE, TRUE),
        Answered("CANCEL_NOT_SENT", TRUE, TRUE)}

\* The simulation executor.  Refused also stands for an invalid symbol, side,
\* quantity or price.
SimulationOutcomes(c) ==
  IF pinned[c] # session THEN {Refused}
  ELSE IF c[2] = "cancel" THEN CancelOutcomes(c)
  ELSE IF submitCalls >= env.submitFuse THEN {Refused}
  ELSE {Refused, Raised(TRUE), Answered("SUBMIT_CALL_RETURNED", TRUE, TRUE)}

\* How the checks before the canary's call may end it: the case, the trading window and
\* the instrument refuse, the queries of instrument and account may also raise.
CanaryPreflight == {Refused, Raised(FALSE)}

\* Mutant: the quota is compared with > instead of >=.
CanaryOutcomes_OffByOne(c) ==
  IF pinned[c] # session \/ halted THEN {Refused}
  ELSE IF c[2] = "cancel" THEN CancelOutcomes(c)
  ELSE IF submitCalls > env.submitFuse THEN {Refused}
  ELSE CanaryPreflight \cup {Raised(TRUE), Answered("SUBMIT_CALL_RETURNED", TRUE, TRUE)}

\* The canary executor also refuses everything once halted.
CanaryOutcomes(c) ==
  IF pinned[c] # session \/ halted THEN {Refused}
  ELSE IF c[2] = "cancel" THEN CancelOutcomes(c)
  ELSE IF submitCalls >= env.submitFuse THEN {Refused}
  ELSE CanaryPreflight \cup {Raised(TRUE), Answered("SUBMIT_CALL_RETURNED", TRUE, TRUE)}

Outcomes(c) == CASE env.mode = "SHADOW" -> ShadowOutcomes(c)
                 [] env.mode = "SIMULATION_CALIBRATION" -> SimulationOutcomes(c)
                 [] OTHER -> CanaryOutcomes(c)

\* The simulation counts a submit that returned; the canary reserves its quota
\* before the call.
SubmitCounted(out) ==
  IF env.mode = "LIVE_CANARY" THEN out.called ELSE out.called /\ out.returned

-----------------------------------------------------------------------------
(* Session start and orphaned claims.                                      *)

\* Loading the strategy: a fresh _RuntimeState; _bind_runtime publishes the
\* manifest that names the session.
BridgeStart ==
  /\ bpc = "down" /\ session < env.sessions
  /\ session' = session + 1
  /\ bpc' = "idle"
  /\ UNCHANGED <<spoolVars, broker, hand, verdict, orphansDone, submitCalls, cancelCalls,
                 halted, queue, emitted, calls, crossings>>

\* The terminal stops the strategy or dies: memory is lost.
BridgeCrash ==
  /\ bpc # "down"
  /\ bpc' = "down" /\ hand' = NoCommand /\ verdict' = NoVerdict
  /\ orphansDone' = FALSE /\ submitCalls' = 0 /\ cancelCalls' = 0
  /\ halted' = FALSE /\ queue' = <<>> /\ crossings' = 0
  /\ UNCHANGED <<spoolVars, session, emitted, broker, calls>>

\* Mutant: an orphan is reported without side effect.
OrphanVerdict_Harmless(c) == Verdict("unknown", "UNKNOWN_ORPHANED", FALSE)

\* UNKNOWN_ORPHANED, or the mode's own status for an order command.
OrphanVerdict(c) ==
  IF env.mode # "SHADOW" /\ c[2] # "snapshot"
  THEN Verdict("unknown", "ORPHANED_UNKNOWN", TRUE)
  ELSE Verdict("unknown", "UNKNOWN_ORPHANED", FALSE)

\* _recover_orphaned_claims, one file: it moves to unknown and its result follows,
\* unless the frame could not be read.
RecoverOrphan(c) ==
  /\ bpc = "idle" /\ ~orphansDone /\ "claimed" \in files[c]
  /\ files' = [files EXCEPT ![c] = (@ \ {"claimed"}) \cup {"unknown"}]
  /\ \/ bpc' = "report" /\ hand' = c /\ verdict' = OrphanVerdict(c)
     \/ UNCHANGED <<bpc, hand, verdict>>
  /\ UNCHANGED <<pinned, expired, env, broker, session, orphansDone, submitCalls, cancelCalls,
                 halted, queue, emitted, calls, crossings>>

\* The loop is over.  It also ends when the directory cannot be listed or a file cannot
\* be moved, and is not tried again in this session.
OrphansDone ==
  /\ bpc = "idle" /\ ~orphansDone
  /\ orphansDone' = TRUE
  /\ UNCHANGED <<spoolVars, broker, session, bpc, hand, verdict, submitCalls, cancelCalls,
                 halted, queue, emitted, calls, crossings>>

-----------------------------------------------------------------------------
(* One command of the inbox.                                               *)

\* Mutant: nothing is claimed while an earlier claim is still there.
Claim_OneAtATime(c) ==
  /\ bpc = "idle" /\ orphansDone
  /\ "inbox" \in files[c] /\ \A d \in Command : "claimed" \notin files[d]
  /\ files' = [files EXCEPT ![c] = (@ \ {"inbox"}) \cup {"claimed"}]
  /\ bpc' = "claimed" /\ hand' = c
  /\ UNCHANGED <<pinned, expired, env, broker, session, verdict, orphansDone, submitCalls,
                 cancelCalls, halted, queue, emitted, calls, crossings>>

\* _drain_command_inbox: claim by rename.  A file that is already claimed is an
\* error and is left alone.
Claim(c) ==
  /\ bpc = "idle" /\ orphansDone
  /\ "inbox" \in files[c] /\ "claimed" \notin files[c]
  /\ files' = [files EXCEPT ![c] = (@ \ {"inbox"}) \cup {"claimed"}]
  /\ bpc' = "claimed" /\ hand' = c
  /\ UNCHANGED <<pinned, expired, env, broker, session, verdict, orphansDone, submitCalls,
                 cancelCalls, halted, queue, emitted, calls, crossings>>

Decide(v) == bpc' = "settle" /\ verdict' = v

\* _read_command_frame raises (the file, or the account selected in the terminal):
\* rejected without a result.
FrameRefused ==
  /\ bpc = "claimed"
  /\ Decide(Verdict("rejected", "none", FALSE))
  /\ UNCHANGED <<spoolVars, broker, session, hand, orphansDone, submitCalls, cancelCalls,
                 halted, queue, emitted, calls, crossings>>

\* _process_claimed up to the point where the outcome is known: expiry, a
\* snapshot request (which may fail), or the executor.
Process ==
  /\ bpc = "claimed"
  /\ \/ /\ hand \in expired
        /\ Decide(Verdict("rejected", "REJECTED_EXPIRED", FALSE))
        /\ UNCHANGED <<submitCalls, cancelCalls, halted, calls, crossings, broker>>
     \/ /\ hand \notin expired /\ hand[2] = "snapshot"
        /\ \/ Decide(Verdict("processed", "SNAPSHOT_EMITTED", FALSE))
           \/ Decide(Verdict("unknown", "none", FALSE))
        /\ UNCHANGED <<submitCalls, cancelCalls, halted, calls, crossings, broker>>
     \/ /\ hand \notin expired /\ hand[2] # "snapshot"
        /\ \E out \in Outcomes(hand) :
             /\ Decide(out.verdict)
             /\ submitCalls' = submitCalls +
                  (IF hand[2] = "submit" /\ SubmitCounted(out) THEN 1 ELSE 0)
             /\ cancelCalls' = cancelCalls +
                  (IF hand[2] = "cancel" /\ out.called /\ out.returned THEN 1 ELSE 0)
             /\ halted' = (halted \/ (env.mode = "LIVE_CANARY"
                                       /\ out.verdict.status = "MUTATION_UNKNOWN"))
             /\ calls' = [calls EXCEPT ![hand] = @ + (IF out.called THEN 1 ELSE 0)]
             /\ crossings' = crossings + (IF hand[2] = "submit" /\ out.called THEN 1 ELSE 0)
             /\ broker' \in {broker} \cup
                  (IF ~out.called THEN {}
                   ELSE IF hand[2] = "submit"
                        THEN {[broker EXCEPT ![hand[1]] = IF @ = "none" THEN "live" ELSE @]}
                        ELSE {[broker EXCEPT ![hand[1]] = IF @ = "live" THEN "cancelled"
                                                          ELSE @]})
  /\ UNCHANGED <<spoolVars, session, hand, orphansDone, queue, emitted>>

\* The rename into the target directory ...
Settle ==
  /\ bpc = "settle"
  /\ files' = [files EXCEPT ![hand] = (@ \ {"claimed"}) \cup {verdict.dir}]
  /\ IF verdict.status = "none"
     THEN bpc' = "idle" /\ hand' = NoCommand /\ verdict' = NoVerdict
     ELSE bpc' = "report" /\ UNCHANGED <<hand, verdict>>
  /\ UNCHANGED <<pinned, expired, env, broker, session, orphansDone, submitCalls, cancelCalls,
                 halted, queue, emitted, calls, crossings>>

\* Mutant: the result is sent although the claim could not be moved.
SettleFails_Reported ==
  /\ bpc = "settle"
  /\ bpc' = (IF verdict.status = "none" THEN "idle" ELSE "report")
  /\ UNCHANGED <<spoolVars, hand, verdict, broker, session, orphansDone, submitCalls,
                 cancelCalls, halted, queue, emitted, calls, crossings>>

\* Mutant: a claim that cannot be moved is put back.
SettleFails_Retry ==
  /\ bpc = "settle"
  /\ files' = [files EXCEPT ![hand] = (@ \ {"claimed"}) \cup {"inbox"}]
  /\ bpc' = "idle" /\ hand' = NoCommand /\ verdict' = NoVerdict
  /\ UNCHANGED <<pinned, expired, env, broker, session, orphansDone, submitCalls, cancelCalls,
                 halted, queue, emitted, calls, crossings>>

\* ... which may fail: the handler of _drain_command_inbox then tries unknown, and
\* if that fails too the claim stays for the next session.  No result is sent.
SettleFails ==
  /\ bpc = "settle"
  /\ files' \in {[files EXCEPT ![hand] = (@ \ {"claimed"}) \cup {"unknown"}], files}
  /\ bpc' = "idle" /\ hand' = NoCommand /\ verdict' = NoVerdict
  /\ UNCHANGED <<pinned, expired, env, broker, session, orphansDone, submitCalls, cancelCalls,
                 halted, queue, emitted, calls, crossings>>

Result == [cmd |-> hand, kind |-> hand[2], mode |-> env.mode, status |-> verdict.status,
           effect |-> verdict.effect, session |-> session]

\* _command_result: the event is queued; flushing it is tried at once.
Report ==
  /\ bpc = "report"
  /\ queue' = Append(queue, Result)
  /\ bpc' = "idle" /\ hand' = NoCommand /\ verdict' = NoVerdict
  /\ UNCHANGED <<spoolVars, broker, session, orphansDone, submitCalls, cancelCalls, halted,
                 emitted, calls, crossings>>

\* flush_transport, one event.
Flush ==
  /\ bpc = "idle" /\ queue # <<>>
  /\ emitted' = emitted \cup {Head(queue)}
  /\ queue' = Tail(queue)
  /\ UNCHANGED <<spoolVars, broker, session, bpc, hand, verdict, orphansDone, submitCalls,
                 cancelCalls, halted, calls, crossings>>

-----------------------------------------------------------------------------
(* The environment: publishers, time and the broker.                       *)

\* A frame for the current session appears in the inbox (simulation_probe,
\* live_canary_probe or the OMS; CommandPath models the last in detail).
Publish(c) ==
  /\ c \in env.cmds /\ session > 0 /\ files[c] = {}
  /\ files' = [files EXCEPT ![c] = {"inbox"}]
  /\ pinned' = [pinned EXCEPT ![c] = session]
  /\ UNCHANGED <<expired, env, broker, bridgeVars>>

\* Time passes the frame's expires_ms.
Expires(c) ==
  /\ c \in env.expire \ expired
  /\ expired' = expired \cup {c}
  /\ UNCHANGED <<files, pinned, env, broker, bridgeVars>>

\* A live order fills.
BrokerFills(o) ==
  /\ broker[o] = "live"
  /\ broker' = [broker EXCEPT ![o] = "filled"]
  /\ UNCHANGED <<spoolVars, bridgeVars>>

BridgeStep ==
  \/ \E c \in Command : RecoverOrphan(c) \/ Claim(c)
  \/ OrphansDone \/ FrameRefused \/ Process \/ Settle \/ SettleFails \/ Report \/ Flush

Environment == \/ \E c \in Command : Expires(c)
               \/ \E o \in Order : BrokerFills(o)

bridgeAll == <<spoolVars, bridgeVars, broker>>

-----------------------------------------------------------------------------
(* Properties; CommandPath checks them.                                    *)

TypeOK ==
  /\ files \in [Command -> SUBSET Dir]
  /\ pinned \in [Command -> Nat]
  /\ expired \subseteq Command
  /\ session \in Nat
  /\ bpc \in {"down", "idle", "claimed", "settle", "report"}
  /\ hand \in Command \cup {NoCommand}
  /\ bpc \in {"claimed", "settle", "report"} => hand \in Command
  /\ orphansDone \in BOOLEAN /\ halted \in BOOLEAN
  /\ calls \in [Command -> Nat]
  /\ {submitCalls, cancelCalls, crossings} \subseteq Nat

\* Whatever the bridge does, and wherever it dies, a command published once is
\* handed to the broker at most once: a claim is never executed again.
AtMostOneCall == \A c \in Command : calls[c] <= 1

\* A result (queued or durable) that says the command had no side effect is
\* true for ever: the broker was never called for that command.
SideEffectReported ==
  \A r \in emitted \cup {queue[i] : i \in 1..Len(queue)} :
    ~r.effect => calls[r.cmd] = 0

\* A command never has two different results, over all restarts; the result
\* journal of the host relies on it (CommandResultConflict).
OneResultPerCommand ==
  \A r, q \in emitted \cup {queue[i] : i \in 1..Len(queue)} : r.cmd = q.cmd => r = q

\* Every result the bridge emits passes the three lists of statuses and side effects the
\* host checks it against one after the other: the protocol's, the journal's and, where
\* it is in use, the OfflineOms sink's.
ResultsAccepted ==
  \A r \in emitted : /\ ProtocolAccepts(r) /\ JournalAccepts(r)
                     /\ r.mode # "SIMULATION_CALIBRATION" /\ r.kind # "snapshot"
                        => SinkAccepts(r)

\* The number of submit calls the canary makes in one session, those that raised
\* included, stays within its fuse.
SessionFuse == env.mode = "LIVE_CANARY" => crossings <= env.submitFuse

\* Frames that reached the inbox are taken out of it, unless the bridge keeps being
\* stopped: no claim, orphan or failed rename blocks the ones behind it.
InboxDrains == []<>(bpc = "down") \/ []<>(\A c \in Command : "inbox" \notin files[c])
=============================================================================
