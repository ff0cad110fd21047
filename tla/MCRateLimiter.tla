--------------------------- MODULE MCRateLimiter ---------------------------
(* Small instances of RateLimiter for TLC: a ttl of one millisecond is a   *)
(* key of 1000, in steps of a quarter of that.                                  *)
EXTENDS RateLimiter, TLC

CONSTANTS r1, r2, r3
=============================================================================
