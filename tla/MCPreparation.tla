--------------------------- MODULE MCPreparation ---------------------------
(***************************************************************************)
(* The preparation of transactions on a small instance: two requests at a  *)
(* time, one role, two tokens.  Of the routes that prepare transactions a  *)
(* behaviour has one or two: entries under different keys meet on the      *)
(* chain only, which others change as well.  Requests that overlap have    *)
(* one key, and are deposits.                                              *)
(***************************************************************************)
EXTENDS Preparation

CONSTANTS q1, q2

OneUnit == [h \in Holder |-> 1]

(* Of two units that are asked for, one is lost in the conversion.         *)
OneIsLost == [n \in 1..Supply |-> IF n = 2 THEN 1 ELSE n]

Use(callers, asks, leaves) ==
  [callers |-> callers, asks |-> asks, leaves |-> leaves]

SomeUses ==
  {Use({q1}, InitializeAsks, FALSE),
   Use({q1, q2}, {a \in DepositAsks : a.arg = 2}, FALSE),
   Use({q1}, {a \in WithdrawAsks : a.arg \in {1, All}}, FALSE),
   Use({q1}, DelegateAsks, FALSE),
   Use({q1}, RevokeAsks, TRUE)}

FirstUse == {Use({q1}, InitializeAsks, FALSE)}
=============================================================================
