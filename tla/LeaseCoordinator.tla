-------------------------- MODULE LeaseCoordinator --------------------------
(***************************************************************************)
(* LeaderCoordinator (oms/leader.py): the single oms_leader row, the       *)
(* leases its clients hold, and the clock.                                 *)
(*                                                                         *)
(* OfflineOms reads the clock (service.py:80, 118) and then calls acquire  *)
(* or heartbeat, whose BEGIN IMMEDIATE may have to wait for the database.  *)
(* Reading the clock and committing are therefore two steps, and time, and *)
(* other clients, may move in between.  A guarded write is different: its  *)
(* assert_held runs inside the transaction (repository.py:69), clock       *)
(* reading included.                                                       *)
(***************************************************************************)
EXTENDS Integers

CONSTANTS Client,        \* LeaderCoordinator users; the id is their session_id
          NoLease,       \* no row / no LeaderLease object
          NoClient,      \* no owner, for the abstract lease
          LeaseSeconds,  \* lease_seconds
          MaxTime,       \* bound: the clock stops here
          MaxTokens      \* bound: successful acquires

ASSUME LeaseAssumption ==
  /\ LeaseSeconds \in Nat \ {0}      \* the ValueError check
  /\ MaxTime \in Nat
  /\ MaxTokens \in Nat
  /\ NoClient \notin Client

VARIABLES row,      \* oms_leader: [session, token, epoch, expires] or NoLease
          held,     \* per client: its LeaderLease object [session, token, epoch]
          sampled,  \* per client: [call, at], the clock read for a pending call
          now,      \* wall clock
          tokens,   \* uuid4() tokens written so far; a token is its number
          written   \* history: token under which the last guarded write ran

vars == <<row, held, sampled, now, tokens, written>>

Idle == [call |-> "none", at |-> 0]

Lease == [session : Client, token : Nat \ {0}, epoch : Nat \ {0}]
LeaseRow == [session : Client, token : Nat \ {0}, epoch : Nat \ {0}, expires : Nat]

ASSUME NoLeaseAssumption == NoLease \notin Lease \cup LeaseRow

Init ==
  /\ row = NoLease
  /\ held = [c \in Client |-> NoLease]
  /\ sampled = [c \in Client |-> Idle]
  /\ now = 0
  /\ tokens = 0
  /\ written = 0

Tick ==
  /\ now < MaxTime
  /\ now' = now + 1
  /\ UNCHANGED <<row, held, sampled, tokens, written>>

\* now=self._now(), the argument of acquire (by a client without a lease) or of
\* heartbeat (by one that has, or thinks it has, the lease).
ReadClock(c) ==
  /\ sampled[c] = Idle
  /\ sampled' = [sampled EXCEPT ![c] =
                   [call |-> IF held[c] = NoLease THEN "acquire" ELSE "heartbeat",
                    at   |-> now]]
  /\ UNCHANGED <<row, held, now, tokens, written>>

\* Mutant: the lease can be taken in the last second of its term.
Expired_OffByOne(r, t) == r.expires <= t + 1

\* expires_at is not after the given time.
Expired(r, t) == r.expires <= t

\* Mutant: only the epoch is compared.
Matches_EpochOnly(r, l) == r.epoch = l.epoch

\* The row is this very lease.
Matches(r, l) == r.session = l.session /\ r.token = l.token /\ r.epoch = l.epoch

\* A missing row starts again at 1.
NextEpoch == IF row = NoLease THEN 1 ELSE row.epoch + 1

\* acquire finds an unexpired row.
Blocked(c) == row # NoLease /\ ~Expired(row, sampled[c].at)

\* acquire succeeds: no row, or an expired one.
Acquire(c) ==
  /\ sampled[c].call = "acquire"
  /\ tokens < MaxTokens
  /\ ~Blocked(c)
  /\ tokens' = tokens + 1
  /\ row' = [session |-> c, token |-> tokens', epoch |-> NextEpoch,
             expires |-> sampled[c].at + LeaseSeconds]
  /\ held' = [held EXCEPT ![c] = [session |-> c, token |-> tokens', epoch |-> NextEpoch]]
  /\ sampled' = [sampled EXCEPT ![c] = Idle]
  /\ UNCHANGED <<now, written>>

\* OmsLeaderUnavailable
AcquireRefused(c) ==
  /\ sampled[c].call = "acquire"
  /\ Blocked(c)
  /\ sampled' = [sampled EXCEPT ![c] = Idle]
  /\ UNCHANGED <<row, held, now, tokens, written>>

\* The heartbeat's UPDATE.
Renewed(r, t) == [r EXCEPT !.expires = t + LeaseSeconds]

HeartbeatPasses(c) ==
  row # NoLease /\ Matches(row, held[c]) /\ ~Expired(row, sampled[c].at)

Heartbeat(c) ==
  /\ sampled[c].call = "heartbeat"
  /\ HeartbeatPasses(c)
  /\ row' = Renewed(row, sampled[c].at)
  /\ sampled' = [sampled EXCEPT ![c] = Idle]
  /\ UNCHANGED <<held, now, tokens, written>>

\* OmsLeaderLost; the client keeps its useless lease object.
HeartbeatLost(c) ==
  /\ sampled[c].call = "heartbeat"
  /\ ~HeartbeatPasses(c)
  /\ sampled' = [sampled EXCEPT ![c] = Idle]
  /\ UNCHANGED <<row, held, now, tokens, written>>

\* Mutant: the DELETE has no WHERE clause.
Deletes_Any(c) == row # NoLease

\* The DELETE's WHERE clause matches the row.
Deletes(c) == row # NoLease /\ Matches(row, held[c])

\* release, then the client is closed: it may come back as a new one.
Release(c) ==
  /\ held[c] # NoLease
  /\ sampled[c] = Idle
  /\ row' = IF Deletes(c) THEN NoLease ELSE row
  /\ held' = [held EXCEPT ![c] = NoLease]
  /\ UNCHANGED <<sampled, now, tokens, written>>

\* The process dies; its row stays.
Crash(c) ==
  /\ held[c] # NoLease \/ sampled[c] # Idle
  /\ held' = [held EXCEPT ![c] = NoLease]
  /\ sampled' = [sampled EXCEPT ![c] = Idle]
  /\ UNCHANGED <<row, now, tokens, written>>

\* A repository transaction whose guard (assert_held inside BEGIN IMMEDIATE) passes.
GuardedWrite(c) ==
  /\ held[c] # NoLease
  /\ sampled[c] = Idle
  /\ row # NoLease
  /\ Matches(row, held[c])
  /\ ~Expired(row, now)
  /\ written' = held[c].token
  /\ UNCHANGED <<row, held, sampled, now, tokens>>

Next ==
  \/ Tick
  \/ \E c \in Client :
       \/ ReadClock(c) \/ Acquire(c) \/ AcquireRefused(c) \/ Heartbeat(c)
       \/ HeartbeatLost(c) \/ Release(c) \/ Crash(c) \/ GuardedWrite(c)

Spec == Init /\ [][Next]_vars

-----------------------------------------------------------------------------
\* The row, the lease objects and the clock readings keep their types; epochs are
\* positive, as the schema's CHECK demands (core_migrations/0001_initial.sql:73).
TypeOK ==
  /\ row \in LeaseRow \cup {NoLease}
  /\ held \in [Client -> Lease \cup {NoLease}]
  /\ sampled \in [Client -> [call : {"none", "acquire", "heartbeat"}, at : Nat]]
  /\ now \in Nat
  /\ tokens \in Nat
  /\ written \in Nat

\* Guarded writes happen in the order in which their leases were acquired: once a
\* successor has written, no write of an earlier leader gets through, although epoch
\* numbers start again after a release (leader.py:73, 123-140, repository.py:69).
WritesInAcquisitionOrder == [][written' >= written]_vars

\* A lease that is not released is never taken before its term is over by the real
\* clock, although the taker's clock reading may be old (leader.py:93-98).
NoEarlyTakeover ==
  [][row # NoLease /\ tokens' # tokens => row.expires <= now]_vars

\* However often it is renewed and whatever reading it is renewed with, a lease ends at
\* most LeaseSeconds from now: a dead leader blocks its successor no longer than that
\* (leader.py:62, 152, 173-181).
TermBounded == row # NoLease => row.expires <= now + LeaseSeconds

ReleasedByOwner ==
  row # NoLease /\ row' = NoLease
    => \E c \in Client : /\ held[c] # NoLease /\ held[c].token = row.token
                         /\ held'[c] = NoLease

\* Only the client that owns the row deletes it: a late close() of a superseded leader
\* does not free its successor's lease (leader.py:191-200).
NoForeignRelease == [][ReleasedByOwner]_vars

-----------------------------------------------------------------------------
holder == IF row = NoLease THEN NoClient ELSE row.session
lease  == IF row = NoLease THEN "free"
          ELSE IF Expired(row, now) THEN "expired" ELSE "live"

claims == {c \in Client : held[c] # NoLease}

Abstract == INSTANCE WriterLease WITH Session <- Client, NoSession <- NoClient

\* The row and the clock implement the lease the OMS relies on: it changes hands only
\* when free or expired, and only the client the row names gives it back or renews it,
\* however late the release() of a superseded leader comes (leader.py:54-200).
ImplementsWriterLease == Abstract!Spec
=============================================================================
