------------------------- MODULE MCEvidenceJournal --------------------------
(***************************************************************************)
(* Two orders of two shares.  AnyEvidence is what faulty or contradictory  *)
(* sources might send: overfills, foreign broker ids, every pair of        *)
(* terminal facts, reused event ids, and the coherent histories too.       *)
(***************************************************************************)
EXTENDS EvidenceJournal

CONSTANTS o1, o2, b1, b2

Ev(i, o, st, b, f) == [eid |-> i, order |-> o, status |-> st, bid |-> b, filled |-> f]

AnyEvidence ==
  { e \in { Ev(i, o1, st, b1, f) : i \in 1..3, st \in BrokerStatus, f \in 0..3 }
          \cup { Ev(i, o1, "ACKNOWLEDGED", b2, 0) : i \in 1..3 }
          \cup { Ev(i, o2, st, b2, f) : i \in 1..2, st \in {"ACKNOWLEDGED", "FILLED"},
                                        f \in {0, 2} } :
    ValidFact(e) }
=============================================================================
