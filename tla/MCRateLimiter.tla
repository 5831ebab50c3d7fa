---------------------------- MODULE MCRateLimiter ----------------------------
(* Three calls of one user; the isolate needs at most one map per call and *)
(* one more.                                                               *)
EXTENDS RateLimiter

CONSTANTS c1, c2, c3, m1, m2, m3, m4

MCCalls == {c1, c2, c3}
MCMaps  == {m1, m2, m3, m4}
=============================================================================
