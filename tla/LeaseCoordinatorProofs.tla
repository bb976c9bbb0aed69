----------------------- MODULE LeaseCoordinatorProofs -----------------------
(***************************************************************************)
(* The lease of LeaseCoordinator for every number of clients, every lease  *)
(* term and every bound.                                                   *)
(***************************************************************************)
EXTENDS LeaseCoordinator, TLAPS

\* Clock readings are never ahead of the clock, tokens never ahead of the counter,
\* no write was made under a token newer than the row's, a lease object names the
\* client that has it and outlives its heartbeats, and the term is bounded.
LeaseInv ==
  /\ TypeOK
  /\ \A c \in Client : held[c] # NoLease => held[c].session = c
  /\ \A c \in Client : sampled[c].call = "heartbeat" => held[c] # NoLease
  /\ \A c \in Client : sampled[c].at <= now
  /\ \A c \in Client : held[c] # NoLease => held[c].token <= tokens
  /\ row # NoLease => row.token <= tokens /\ written <= row.token
  /\ written <= tokens
  /\ TermBounded

\* The initial state satisfies LeaseInv.
LEMMA InitLeaseInv == Init => LeaseInv
  BY LeaseAssumption, NoLeaseAssumption DEF Init, LeaseInv, TypeOK, TermBounded, Idle

\* Every step of a client or of the clock preserves LeaseInv (leader.py:54-200).
LEMMA NextLeaseInv == LeaseInv /\ [Next]_vars => LeaseInv'
<1> SUFFICES ASSUME LeaseInv, [Next]_vars PROVE LeaseInv'
  OBVIOUS
<1> USE LeaseAssumption, NoLeaseAssumption DEF LeaseInv, TypeOK, TermBounded
<1>1. CASE Tick
  BY <1>1 DEF Tick, LeaseRow
<1>2. ASSUME NEW c \in Client, ReadClock(c) PROVE LeaseInv'
  BY <1>2 DEF ReadClock
<1>3. ASSUME NEW c \in Client, Acquire(c) PROVE LeaseInv'
  <2>1. NextEpoch \in Nat \ {0}
    BY DEF NextEpoch, LeaseRow
  <2>2. /\ tokens' \in Nat \ {0} /\ tokens' = tokens + 1
        /\ row' \in LeaseRow /\ row'.token = tokens'
        /\ row'.expires = sampled[c].at + LeaseSeconds
    BY <1>3, <2>1 DEF Acquire, LeaseRow
  <2>3. held' \in [Client -> Lease \cup {NoLease}]
    BY <1>3, <2>1, <2>2 DEF Acquire, Lease
  <2>4. \A d \in Client : held'[d] # NoLease => held'[d].token <= tokens'
    BY <1>3, <2>2 DEF Acquire, Lease
  <2>5. sampled' \in [Client -> [call : {"none", "acquire", "heartbeat"}, at : Nat]]
        /\ \A d \in Client : sampled'[d].at <= now'
    BY <1>3 DEF Acquire, Idle
  <2>6. /\ held'[c] \in Lease /\ held'[c].session = c
        /\ \A d \in Client \ {c} : held'[d] = held[d] /\ sampled'[d] = sampled[d]
        /\ sampled'[c].call = "none"
    BY <1>3, <2>1, <2>2 DEF Acquire, Lease, Idle
  <2>7. \A d \in Client : /\ held'[d] # NoLease => held'[d].session = d
                          /\ sampled'[d].call = "heartbeat" => held'[d] # NoLease
    BY <2>6
  <2> QED
    BY <1>3, <2>1, <2>2, <2>3, <2>4, <2>5, <2>7 DEF Acquire
<1>4. ASSUME NEW c \in Client, AcquireRefused(c) PROVE LeaseInv'
  BY <1>4 DEF AcquireRefused, Idle
<1>5. ASSUME NEW c \in Client, Heartbeat(c) PROVE LeaseInv'
  <2>1. /\ row \in LeaseRow
        /\ row' = [row EXCEPT !.expires = sampled[c].at + LeaseSeconds]
    BY <1>5 DEF Heartbeat, HeartbeatPasses, Renewed
  <2>2. /\ row' \in LeaseRow /\ row'.token = row.token
        /\ row'.expires = sampled[c].at + LeaseSeconds
    BY <2>1 DEF LeaseRow
  <2> QED
    BY <1>5, <2>1, <2>2 DEF Heartbeat, Idle
<1>6. ASSUME NEW c \in Client, HeartbeatLost(c) PROVE LeaseInv'
  BY <1>6 DEF HeartbeatLost, Idle
<1>7. ASSUME NEW c \in Client, Release(c) PROVE LeaseInv'
  BY <1>7 DEF Release, Idle
<1>8. ASSUME NEW c \in Client, Crash(c) PROVE LeaseInv'
  BY <1>8 DEF Crash, Idle
<1>9. ASSUME NEW c \in Client, GuardedWrite(c) PROVE LeaseInv'
  BY <1>9 DEF GuardedWrite, Matches, Lease, LeaseRow
<1>10. CASE UNCHANGED vars
  BY <1>10 DEF vars
<1> QED
  BY <1>1, <1>2, <1>3, <1>4, <1>5, <1>6, <1>7, <1>8, <1>9, <1>10 DEF Next

\* LeaseInv holds in every reachable state.
THEOREM LeaseInvariance == Spec => []LeaseInv
  BY InitLeaseInv, NextLeaseInv, PTL DEF Spec

\* A lease ends at most LeaseSeconds from now, for every term and any number of
\* clients (leader.py:62, 152).
THEOREM TermIsBounded == Spec => []TermBounded
  BY LeaseInvariance, PTL DEF LeaseInv

\* Writes never run under a lease older than one that has already written, although
\* epochs repeat: the token in the row decides (leader.py:123-140).
THEOREM WritesAreOrdered == Spec => WritesInAcquisitionOrder
<1>1. LeaseInv /\ [Next]_vars => [written' >= written]_vars
  <2> SUFFICES ASSUME LeaseInv, Next PROVE written' >= written
    BY DEF LeaseInv, TypeOK
  <2>1. ASSUME NEW c \in Client, GuardedWrite(c) PROVE written' >= written
    BY <2>1 DEF GuardedWrite, Matches, LeaseInv, TypeOK, Lease, LeaseRow
  <2> QED
    BY <2>1 DEF Next, Tick, ReadClock, Acquire, AcquireRefused, Heartbeat, HeartbeatLost,
                Release, Crash, LeaseInv, TypeOK
<1> QED
  BY <1>1, LeaseInvariance, PTL DEF Spec, WritesInAcquisitionOrder

\* Nobody takes a lease before its term is over by the real clock, because a clock
\* reading is never ahead of the clock (leader.py:93-98).
THEOREM TakeoversAreLate == Spec => NoEarlyTakeover
<1>1. LeaseInv /\ [Next]_vars
        => [row # NoLease /\ tokens' # tokens => row.expires <= now]_vars
  <2> SUFFICES ASSUME LeaseInv, Next, row # NoLease, tokens' # tokens
               PROVE row.expires <= now
    OBVIOUS
  <2>1. ASSUME NEW c \in Client, Acquire(c) PROVE row.expires <= now
    BY <2>1 DEF Acquire, Blocked, Expired, LeaseInv, TypeOK, LeaseRow
  <2> QED
    BY <2>1 DEF Next, Tick, ReadClock, AcquireRefused, Heartbeat, HeartbeatLost,
                Release, Crash, GuardedWrite
<1> QED
  BY <1>1, LeaseInvariance, PTL DEF Spec, NoEarlyTakeover

\* A row is only ever deleted by the client that owns it (leader.py:191-200).
THEOREM ReleasesAreOwn == Spec => NoForeignRelease
<1>1. LeaseInv /\ [Next]_vars => [ReleasedByOwner]_vars
  <2> SUFFICES ASSUME LeaseInv, Next, row # NoLease, row' = NoLease PROVE ReleasedByOwner
    BY DEF ReleasedByOwner
  <2>1. ASSUME NEW c \in Client, Release(c) PROVE ReleasedByOwner
    BY <2>1 DEF ReleasedByOwner, Release, Deletes, Matches, LeaseInv, TypeOK
  <2>2. ASSUME NEW c \in Client, Acquire(c) PROVE FALSE
    <3>1. NextEpoch \in Nat \ {0}
      BY DEF NextEpoch, LeaseRow, LeaseInv, TypeOK
    <3>2. row' \in LeaseRow
      BY <2>2, <3>1, LeaseAssumption DEF Acquire, LeaseRow, LeaseInv, TypeOK
    <3> QED
      BY <3>2, NoLeaseAssumption
  <2>3. ASSUME NEW c \in Client, Heartbeat(c) PROVE FALSE
    <3>1. row' \in LeaseRow
      BY <2>3, LeaseAssumption DEF Heartbeat, HeartbeatPasses, Renewed, LeaseRow, LeaseInv, TypeOK
    <3> QED
      BY <3>1, NoLeaseAssumption
  <2> QED
    BY <2>1, <2>2, <2>3 DEF Next, Tick, ReadClock, AcquireRefused, HeartbeatLost, Crash,
                            GuardedWrite
<1> QED
  BY <1>1, LeaseInvariance, PTL DEF Spec, NoForeignRelease

\* The row and the clock implement the abstract writer lease: a step of a client or of
\* the clock is a Take, a Drop by the client the row names, a Forget, an Expire or a
\* Renew, or leaves the lease as it was (leader.py:54-200).
THEOREM CoordinatorImplementsLease == Spec => ImplementsWriterLease
<1>1. Init => Abstract!Init
  BY DEF Init, Abstract!Init, holder, lease, claims
<1>2. LeaseInv /\ [Next]_vars => [Abstract!Next]_(Abstract!leaseVars)
  <2> SUFFICES ASSUME LeaseInv, [Next]_vars
               PROVE Abstract!Next \/ (holder' = holder /\ lease' = lease /\ claims' = claims)
    BY DEF Abstract!leaseVars
  <2> USE DEF LeaseInv, TypeOK
  <2>1. CASE Tick
    <3>1. holder' = holder /\ claims' = claims
      BY <2>1 DEF Tick, holder, claims
    <3>2. lease' = lease \/ (lease = "live" /\ lease' = "expired")
      BY <2>1 DEF Tick, lease, Expired, LeaseRow
    <3> QED
      BY <3>1, <3>2 DEF Abstract!Next, Abstract!Expire
  <2>2. ASSUME NEW c \in Client, Acquire(c) PROVE Abstract!Next
    <3>1. NextEpoch \in Nat \ {0}
      BY DEF NextEpoch, LeaseRow
    <3>2. row' \in LeaseRow /\ row'.session = c /\ row' # NoLease
      BY <2>2, <3>1, LeaseAssumption, NoLeaseAssumption DEF Acquire, LeaseRow
    <3>3. lease \in {"free", "expired"}
      BY <2>2 DEF Acquire, Blocked, lease, Expired, LeaseRow
    <3>4. holder' = c /\ lease' \in {"live", "expired"}
      BY <3>2 DEF holder, lease
    <3>5. held' \in [Client -> Lease \cup {NoLease}] /\ held'[c] \in Lease
          /\ \A d \in Client \ {c} : held'[d] = held[d]
      BY <2>2, <3>1, LeaseAssumption DEF Acquire, Lease
    <3>6. claims' = claims \cup {c}
      BY <3>5, NoLeaseAssumption DEF claims
    <3> QED
      BY <3>3, <3>4, <3>6 DEF Abstract!Next, Abstract!Take
  <2>3. ASSUME NEW c \in Client, Heartbeat(c)
        PROVE Abstract!Next \/ (holder' = holder /\ lease' = lease /\ claims' = claims)
    <3>1. row \in LeaseRow /\ row # NoLease
      BY <2>3 DEF Heartbeat, HeartbeatPasses
    <3>2. row' \in LeaseRow /\ row' # NoLease /\ row'.session = row.session
      BY <2>3, <3>1, LeaseAssumption, NoLeaseAssumption DEF Heartbeat, Renewed, LeaseRow
    <3>3. holder' = holder /\ claims' = claims
      BY <2>3, <3>1, <3>2 DEF Heartbeat, holder, claims
    <3>4. lease \in {"live", "expired"} /\ lease' \in {"live", "expired"}
      BY <3>1, <3>2 DEF lease
    <3>5. holder = c /\ c \in claims
      BY <2>3, <3>1 DEF Heartbeat, HeartbeatPasses, Matches, holder, claims
    <3> QED
      BY <3>3, <3>4, <3>5 DEF Abstract!Next, Abstract!Expire, Abstract!Renew
  <2>4. ASSUME NEW c \in Client, Release(c) PROVE Abstract!Next
    <3>1. c \in claims /\ claims' = claims \ {c}
      BY <2>4 DEF Release, claims
    <3>2. CASE Deletes(c)
      <4>1. holder = c /\ holder' = NoClient /\ lease' = "free"
        BY <2>4, <3>2 DEF Release, Deletes, Matches, holder, lease
      <4> QED
        BY <3>1, <4>1 DEF Abstract!Next, Abstract!Drop
    <3>3. CASE ~Deletes(c)
      <4>1. holder' = holder /\ lease' = lease
        BY <2>4, <3>3 DEF Release, holder, lease
      <4> QED
        BY <3>1, <4>1 DEF Abstract!Next, Abstract!Forget
    <3> QED
      BY <3>2, <3>3
  <2>5. ASSUME NEW c \in Client, Crash(c)
        PROVE Abstract!Next \/ (holder' = holder /\ lease' = lease /\ claims' = claims)
    <3>1. holder' = holder /\ lease' = lease /\ claims' = claims \ {c}
      BY <2>5 DEF Crash, holder, lease, claims
    <3> QED
      BY <3>1 DEF Abstract!Next, Abstract!Forget
  <2>6. ASSUME row' = row, now' = now, held' = held
        PROVE holder' = holder /\ lease' = lease /\ claims' = claims
    BY <2>6 DEF holder, lease, claims
  <2> QED
    BY <2>1, <2>2, <2>3, <2>4, <2>5, <2>6 DEF Next, vars, ReadClock, AcquireRefused,
                                              HeartbeatLost, GuardedWrite
<1> QED
  BY <1>1, <1>2, LeaseInvariance, PTL DEF Spec, ImplementsWriterLease, Abstract!Spec
=============================================================================
