---------------------------- MODULE MCRateLimiter ----------------------------
(* Two checks at a time.  The bucket holds a request and a half, the window *)
(* two; time is long enough for the bucket's hash and the window's set to     *)
(* expire and be made anew.                                                   *)
EXTENDS RateLimiter, TLC

Symmetry == Permutations(Checks)
=============================================================================
