---------------------------- MODULE MCRateLimiter ----------------------------
(***************************************************************************)
(* Small instances of RateLimiter for TLC: a token costs two units and a   *)
(* tick brings less than that, so fractional tokens are there.             *)
(***************************************************************************)
EXTENDS RateLimiter, TLC

Symmetry == Permutations(Callers)

=============================================================================
