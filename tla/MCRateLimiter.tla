---------------------------- MODULE MCRateLimiter ----------------------------
(***************************************************************************)
(* Instances of FinnhubClient, and of the RateLimiter it calls, for TLC.   *)
(***************************************************************************)
EXTENDS FinnhubClient
=============================================================================
