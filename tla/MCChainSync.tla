---------------------------- MODULE MCChainSync ----------------------------
(* ChainSync on small instances: the .cfg files give the constants their values. *)
EXTENDS ChainSync
============================================================================
