---------------------------- MODULE WriterLease -----------------------------
(***************************************************************************)
(* What the OMS relies on from oms/leader.py, with time left out: one      *)
(* writer lease that changes hands only when it is free or expired, and    *)
(* that nobody but its holder gives back or renews.                        *)
(* LeaseCoordinator (the SQLite row and the clock) and OmsCore (the        *)
(* sessions that use it) both implement this specification.                *)
(***************************************************************************)
CONSTANTS Session, NoSession

VARIABLES holder,   \* the session named by the oms_leader row, NoSession if none
          lease,    \* "free", "live" or "expired"
          claims    \* the sessions that have a LeaderLease object, still valid or not

leaseVars == <<holder, lease, claims>>

Init == holder = NoSession /\ lease = "free" /\ claims = {}

\* acquire.  The clock was read before the transaction, so the new lease may be
\* over when it commits.  Whoever had it keeps a LeaderLease object.
Take(s) ==
  /\ lease \in {"free", "expired"}
  /\ holder' = s
  /\ lease' \in {"live", "expired"}
  /\ claims' = claims \cup {s}

\* release by the session the row names.
Drop(s) ==
  /\ s \in claims
  /\ holder = s
  /\ holder' = NoSession
  /\ lease' = "free"
  /\ claims' = claims \ {s}

\* release by a session that has lost the lease, or the death of a session: the row
\* stays as it is.
Forget(s) ==
  /\ s \in claims
  /\ claims' = claims \ {s}
  /\ UNCHANGED <<holder, lease>>

\* Time passes.
Expire ==
  /\ lease = "live"
  /\ lease' = "expired"
  /\ UNCHANGED <<holder, claims>>

\* heartbeat with a clock reading older than the expiry: an expired lease that
\* nobody has taken comes back to the same holder.
Renew(s) ==
  /\ s \in claims
  /\ holder = s
  /\ lease = "expired"
  /\ lease' = "live"
  /\ UNCHANGED <<holder, claims>>

Next ==
  \/ Expire
  \/ \E s \in Session : Take(s) \/ Drop(s) \/ Forget(s) \/ Renew(s)

Spec == Init /\ [][Next]_leaseVars
=============================================================================
