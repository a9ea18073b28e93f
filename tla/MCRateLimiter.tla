---------------------------- MODULE MCRateLimiter ----------------------------
(***************************************************************************)
(* Model values for TLC: two callers, so that one's answer can extend the  *)
(* backoff while the other waits.                                          *)
(***************************************************************************)
EXTENDS RateLimiter
=============================================================================
