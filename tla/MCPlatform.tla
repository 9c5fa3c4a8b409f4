----------------------------- MODULE MCPlatform -----------------------------
(* Platform on small sets; the values of the constants are in MCPlatform.cfg. *)
EXTENDS Platform, TLC

Symmetry == Permutations(Slots)
=============================================================================
