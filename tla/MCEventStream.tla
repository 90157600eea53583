---------------------------- MODULE MCEventStream ----------------------------
(* EventStream on a small instance. *)
EXTENDS EventStream

CONSTANTS alice, bob

MintAndMove == {[from |-> bob, to |-> bob], [from |-> bob, to |-> alice]}
============================================================================
