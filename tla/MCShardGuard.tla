---------------------------- MODULE MCShardGuard -----------------------------
(***************************************************************************)
(* Instance of ShardGuard for TLC: as many visitors as worker threads.     *)
(***************************************************************************)
EXTENDS ShardGuard
=============================================================================
