---------------------------- MODULE MCCourierHub ----------------------------
(* Small instances of the courier.                                         *)
EXTENDS CourierHub

CONSTANTS c1, c2, u1, job, global

(* The first two connections are of one user, and the second is the one    *)
(* that does not ask for the ephemeral channel.                            *)
TwoOfOneUser == [c \in Clients |-> IF c \in {c1, c2} THEN u1 ELSE Anonymous]
TwoOnJob == [c \in Clients |-> IF c = c2 THEN global ELSE job]
=============================================================================
