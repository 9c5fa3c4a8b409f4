------------------------------ MODULE Handlers ------------------------------
(***************************************************************************)
(* What the modules of Platform and Clients share: the slots of calls.  A  *)
(* Nest handler runs to its next await without interruption, so a call is  *)
(* split at its database and Redis statements; between two of them any     *)
(* other call may run, and the process may stop.  A slot holds the step    *)
(* its call waits at and what the call has read.                           *)
(***************************************************************************)
EXTENDS Integers, FiniteSets

CONSTANT Slots            \* the calls that may be in flight together
ASSUME SlotsAssumption == IsFiniteSet(Slots)

\* The larger of two numbers.
Larger(a, b) == IF a > b THEN a ELSE b
=============================================================================
