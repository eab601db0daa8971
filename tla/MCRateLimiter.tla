---------------------------- MODULE MCRateLimiter ----------------------------
(* Instances of RateLimiter for TLC: a client of the public limiter and one *)
(* of a limiter with more room.                                             *)
EXTENDS RateLimiter

CONSTANTS anyone, admin

Limits == [p \in Caller |-> IF p = admin THEN 2 ELSE 1]
=============================================================================
