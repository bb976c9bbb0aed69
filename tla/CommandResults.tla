--------------------------- MODULE CommandResults ---------------------------
(***************************************************************************)
(* What the host accepts as the result of a bridge command                 *)
(* (qmt/protocol.py, command_results.py, oms_bridge.py) and what an        *)
(* accepted result does to the order (oms/repository.py).  Pure rules;     *)
(* BridgeCommands says which results the bridge produces.                  *)
(*                                                                         *)
(* A result is a record with mode, kind (command_type), status and effect  *)
(* (live_side_effect).  The six mutation statuses exist once per mutating  *)
(* mode, with the mode's prefix; the prefix is left out because a bridge   *)
(* always uses its own.                                                    *)
(***************************************************************************)
EXTENDS OrderLifecycle

Kind == {"submit", "cancel", "snapshot"}

Mode == {"SHADOW", "SIMULATION_CALIBRATION", "LIVE_CANARY"}

\* _LIVE_SIDE_EFFECT_STATUSES and _SIMULATION_SIDE_EFFECT_STATUSES
SideEffectStatus == {"SUBMIT_CALL_RETURNED", "CANCEL_SIGNAL_SENT", "CANCEL_NOT_SENT",
                     "MUTATION_UNKNOWN", "ORPHANED_UNKNOWN"}

MutationStatus == SideEffectStatus \cup {"CANCEL_NOT_CANCELLABLE"}

\* _RESULT_STATUSES
ResultStatus == MutationStatus \cup
  {"SHADOW_ACCEPTED", "SNAPSHOT_EMITTED", "REJECTED_EXPIRED", "UNKNOWN_ORPHANED",
   "REJECTED_SAFETY_GATE"}

\* _validate_command_result_payload: the statuses of each command type and mode.
ProtocolAccepts(r) ==
  /\ r.status \in {"REJECTED_EXPIRED"} \cup
       (IF r.kind = "snapshot" THEN {"SNAPSHOT_EMITTED", "UNKNOWN_ORPHANED"}
        ELSE IF r.mode = "SHADOW" THEN {"SHADOW_ACCEPTED", "UNKNOWN_ORPHANED"}
        ELSE {"MUTATION_UNKNOWN", "ORPHANED_UNKNOWN", "REJECTED_SAFETY_GATE"} \cup
             (IF r.kind = "submit" THEN {"SUBMIT_CALL_RETURNED"}
              ELSE {"CANCEL_SIGNAL_SENT", "CANCEL_NOT_CANCELLABLE", "CANCEL_NOT_SENT"}))
  /\ r.effect = (r.mode # "SHADOW" /\ r.status \in SideEffectStatus)

\* Mutant: an orphaned command is not listed among the side effects.
JournalAccepts_OrphanHarmless(r) ==
  /\ r.status \in ResultStatus
  /\ r.effect = (r.mode # "SHADOW"
                 /\ r.status \in SideEffectStatus \ {"ORPHANED_UNKNOWN"})

\* QmtCommandResultJournal.ingest: the checks that raise ValueError.
JournalAccepts(r) ==
  /\ r.status \in ResultStatus
  /\ r.effect = (r.mode # "SHADOW" /\ r.status \in SideEffectStatus)

\* OmsQmtCommandResultSink.ingest_execution_command_result: the stricter lists of
\* the OfflineOms sink, which has no simulation mode.
SinkAccepts(r) ==
  /\ r.kind # "snapshot"
  /\ \/ /\ r.mode = "SHADOW"
        /\ r.status \in {"SHADOW_ACCEPTED", "REJECTED_EXPIRED", "UNKNOWN_ORPHANED"}
     \/ /\ r.mode = "LIVE_CANARY"
        /\ r.status \in MutationStatus \cup {"REJECTED_SAFETY_GATE", "REJECTED_EXPIRED"}
  /\ JournalAccepts(r)

\* begin_reconciling
BeginsReconciling(r) ==
  \/ r.status = "SHADOW_ACCEPTED"
  \/ r.mode = "SIMULATION_CALIBRATION"
  \/ r.mode = "LIVE_CANARY" /\ r.status \notin {"REJECTED_SAFETY_GATE", "REJECTED_EXPIRED"}

\* record_execution_reconciliation_in_tx: the row after the result.  A result
\* never selects a broker status.
ReconciledRow(row, begin) ==
  TransitionRow(row,
    IF begin /\ row.status \in {"SUBMITTING", "CANCEL_PENDING"} THEN "UNKNOWN"
    ELSE IF begin /\ row.status = "UNKNOWN" THEN "RECONCILING"
    ELSE row.status, FALSE)
=============================================================================
