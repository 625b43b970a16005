---------------------------- MODULE MCRateLimiter ----------------------------
(***************************************************************************)
(* RateLimiter for TLC; the instances are in the cfg files.                *)
(***************************************************************************)
EXTENDS RateLimiter

=============================================================================
