------------------------------- MODULE Ledger -------------------------------
(***************************************************************************)
(* What the submission of signed transactions promises: the books follow   *)
(* the chain.  A transaction is recorded only after the chain has accepted *)
(* it, at most once, and a record is never withdrawn.                      *)
(***************************************************************************)
CONSTANT Tx

VARIABLES accepted, \* transactions the chain has accepted
          recorded  \* transactions in the books

vars == <<accepted, recorded>>

Init == accepted = {} /\ recorded = {}

Accept(t) ==
  /\ t \notin accepted
  /\ accepted' = accepted \cup {t}
  /\ UNCHANGED recorded

Record(t) ==
  /\ t \in accepted \ recorded
  /\ recorded' = recorded \cup {t}
  /\ UNCHANGED accepted

Next == \E t \in Tx : Accept(t) \/ Record(t)

Spec == Init /\ [][Next]_vars
=============================================================================
