----------------------------- MODULE MCClients -----------------------------
(* Clients on small sets; the values of the constants are in MCClients.cfg. *)
EXTENDS Clients, TLC

Symmetry == Permutations(Slots)
=============================================================================
