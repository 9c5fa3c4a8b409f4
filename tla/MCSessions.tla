----------------------------- MODULE MCSessions -----------------------------
(***************************************************************************)
(* Sessions on small instances: session ids and slots are interchangeable. *)
(***************************************************************************)
EXTENDS Sessions, TLC

IdSymmetry == Permutations(SessionIds) \cup Permutations(Handlers)
=============================================================================
