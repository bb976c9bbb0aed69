----------------------------- MODULE MCOmsCore ------------------------------
(***************************************************************************)
(* Small instances of OmsCore.  Broker ids are the order ids, so BrokerId  *)
(* is Order.  Sessions are interchangeable.                                *)
(***************************************************************************)
EXTENDS OmsCore, TLC

SessionSymmetry == Permutations(Session)
=============================================================================
