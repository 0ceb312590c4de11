---------------------------- MODULE MCRateLimiter ----------------------------
(* A window of two milliseconds, then one of one, each for one hit; a TTL  *)
(* of one period, the shortest it can be.                                  *)
EXTENDS RateLimiter, TLC

MCPeriod == <<2, 1>>
MCRate == <<1, 1>>
MCSymmetry == Permutations(Calls)
=============================================================================
