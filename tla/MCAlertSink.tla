---------------------------- MODULE MCAlertSink ----------------------------
(***************************************************************************)
(* Threads and deliveries are interchangeable: no property of a safety run *)
(* tells them apart.                                                       *)
(***************************************************************************)
EXTENDS AlertSink

Symmetry == Permutations(Handlers) \cup Permutations(Deliveries)
=============================================================================
