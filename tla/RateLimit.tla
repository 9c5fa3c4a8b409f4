----------------------------- MODULE RateLimit -----------------------------
(***************************************************************************)
(* One counter of RateLimitService in Redis: INCR, and EXPIRE after the    *)
(* first INCR of a window, are two calls.                                  *)
(***************************************************************************)
EXTENDS Handlers

CONSTANTS
  Limit,                  \* the policy's limit for the counter
  MaxCount                \* bound: calls counted in one window
ASSUME RateLimitAssumption == Limit \in Nat \ {0} /\ MaxCount \in Nat

VARIABLES
  counter,                \* the key: its value, and whether it has a time to live
  arming,                 \* the calls between INCR and EXPIRE
  admitted,               \* history: calls let through in this window
  orphaned                \* history: a process stopped between INCR and EXPIRE
rateVars == <<counter, arming, admitted, orphaned>>

RateInit ==
  counter = [n |-> 0, ttl |-> FALSE] /\ arming = {} /\ admitted = 0 /\ orphaned = FALSE

\* Mutant: the call after the limit is let through.
CountInclusive(s) ==
  /\ s \notin arming /\ counter.n < MaxCount
  /\ counter' = [counter EXCEPT !.n = @ + 1]
  /\ IF counter.n = 0
     THEN arming' = arming \cup {s} /\ UNCHANGED admitted
     ELSE admitted' = (IF counter.n <= Limit THEN admitted + 1 ELSE admitted)
          /\ UNCHANGED arming
  /\ UNCHANGED orphaned

\* incrementWithTtl, for any but the first call, and the limit.
Count(s) ==
  /\ s \notin arming /\ counter.n < MaxCount
  /\ counter' = [counter EXCEPT !.n = @ + 1]
  /\ IF counter.n = 0
     THEN arming' = arming \cup {s} /\ UNCHANGED admitted
     ELSE admitted' = (IF counter.n < Limit THEN admitted + 1 ELSE admitted)
          /\ UNCHANGED arming
  /\ UNCHANGED orphaned

\* The first call of the window sets its end, and is let through.
Arm(s) ==
  /\ s \in arming
  /\ counter' = [counter EXCEPT !.ttl = TRUE]
  /\ arming' = arming \ {s} /\ admitted' = admitted + 1
  /\ UNCHANGED orphaned

StopBeforeArming(s) ==
  /\ s \in arming
  /\ arming' = arming \ {s} /\ orphaned' = TRUE
  /\ UNCHANGED <<counter, admitted>>

WindowEnds ==
  /\ counter.ttl
  /\ counter' = [n |-> 0, ttl |-> FALSE] /\ admitted' = 0
  /\ UNCHANGED <<arming, orphaned>>

RateNext == (\E s \in Slots : Count(s) \/ Arm(s) \/ StopBeforeArming(s)) \/ WindowEnds
RateSpec == RateInit /\ [][RateNext]_rateVars

(* Every variable keeps its type. *)
RateTypeOK ==
  /\ counter \in [n: Nat, ttl: BOOLEAN]
  /\ arming \subseteq Slots /\ admitted \in Nat /\ orphaned \in BOOLEAN

(* A window lets through no more calls than the limit, and it ends, unless the *)
(* process stopped between INCR and EXPIRE: then nothing ever arms it again    *)
(* (redis.service.ts:26-31).                                                   *)
WindowHolds ==
  /\ admitted <= Limit
  /\ counter.n > 0 /\ ~counter.ttl => arming # {} \/ orphaned
=============================================================================
