------------------------------ MODULE Consent ------------------------------
(***************************************************************************)
(* What connections and chat promise a pair of members, with no rows, no   *)
(* handlers and no blocks: a conversation opens only when each of the two  *)
(* has, by an act of their own, said yes to the other, and nothing is ever *)
(* said outside an open conversation.  docs/product/phase-2-scope.md calls *)
(* the relation mutual and says both sides consented to it.                *)
(***************************************************************************)
CONSTANT Members

VARIABLES
  willing,   \* <<m, p>>: m has asked, or agreed, to be connected within the pair p
  open,      \* the pairs that have a conversation
  said       \* <<m, n>>: m has sent a message to n

consentVars == <<willing, open, said>>

Init ==
  /\ willing = {}
  /\ open = {}
  /\ said = {}

\* A member of a pair says yes to the other one.
Ask(m, p) ==
  /\ willing' = willing \cup {<<m, p>>}
  /\ UNCHANGED <<open, said>>

\* A member says yes to somebody who said yes before: the conversation opens.
Agree(m, p) ==
  /\ \A n \in p \ {m} : <<n, p>> \in willing
  /\ willing' = willing \cup {<<m, p>>}
  /\ open' = open \cup {p}
  /\ UNCHANGED said

Speak(m, n) ==
  /\ {m, n} \in open
  /\ said' = said \cup {<<m, n>>}
  /\ UNCHANGED <<willing, open>>

Next ==
  \E m, n \in Members :
    /\ m # n
    /\ Ask(m, {m, n}) \/ Agree(m, {m, n}) \/ Speak(m, n)

Spec == Init /\ [][Next]_consentVars
=============================================================================
