--------------------------- MODULE MCRateLimiter ---------------------------
(***************************************************************************)
(* The courier's rate limiter with two requests per window, and one of the *)
(* limited type.                                                           *)
(***************************************************************************)
EXTENDS RateLimiter

CONSTANTS trade

OnePerWindow == [t \in MessageType |-> 1]
=============================================================================
