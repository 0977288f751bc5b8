---------------------------- MODULE MCSubmission ----------------------------
(* The submission of a few transactions of one user, all of one amount.    *)
EXTENDS EscrowSubmission, TLC

CONSTANTS Initializations, Deposits, Withdrawals \* the operations, by kind

Symmetry == Permutations(Requests)

AllOfThem == Initializations \cup Deposits \cup Withdrawals

OneUser == [t \in Tx |-> "alice"]

Kinds == [t \in Tx |-> CASE t \in Initializations -> "initialize"
                        [] t \in Deposits -> "deposit"
                        [] t \in Withdrawals -> "withdraw"]

OneAmount == [t \in Tx |-> 1]
=============================================================================
