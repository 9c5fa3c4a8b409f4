--------------------------- MODULE MCConnections ---------------------------
(***************************************************************************)
(* Connections on small instances: slots and members are interchangeable.  *)
(***************************************************************************)
EXTENDS Connections, TLC

CallSymmetry == Permutations(Handlers) \cup Permutations(Members)
=============================================================================
