-------------------------- MODULE LedgerProperties --------------------------
(***************************************************************************)
(* What TokenLedger keeps true of its accounts and transfers together: the *)
(* properties that sum over accounts or transfers, and the refinement of   *)
(* Brc20.                                                                  *)
(***************************************************************************)
EXTENDS TokenLedger, Functions

HeldBy(u, t) == Total(Row(u, t))
Outstanding(t) == SumFunctionOnSet([u \in Users |-> HeldBy(u, t)], Users)
PendingOf(u, t) ==
  {l \in Locations : Pending(l) # Nil /\ Pending(l).owner = u /\ Pending(l).tick = t}
Locks(u, t) == [l \in PendingOf(u, t) |-> Pending(l).amt]

(* An account's transferable_balance and transfers_count are what its valid
   transfers, in the cache or in address_location_to_transfer, add up to: this is
   what the panic of a move relies on. *)
TransfersBacked ==
  \A u \in Users, t \in Ticks :
    /\ Row(u, t).transferable = SumFunctionOnSet(Locks(u, t), PendingOf(u, t))
    /\ Row(u, t).count = Cardinality(PendingOf(u, t))

(* Nobody is paid what was not minted: mints, transfers, moves to oneself, leaks
   and burns never make the accounts of a token hold more than its supply. *)
NothingFromNothing ==
  \A t \in Ticks :
    Outstanding(t) <= (IF Token(Lower[t]) = Nil THEN 0 ELSE Token(Lower[t]).supply)

(* An account that processing adds to the cache has no row with tokens in
   address_token_to_balance: everything the block may touch was loaded before, so
   the write-back overwrites no balance ("Used like a cache, loaded from db before
   parsing"). *)
ReadsThrough ==
  phase = "process" =>
    \A u \in Users, t \in Ticks :
      accounts[u][t] = Nil /\ accounts'[u][t] # Nil => Total(OrDefault(balances[u][t])) = 0
CacheReadsThrough == [][ReadsThrough]_vars

(* The cached, block-wise ledger implements the plain ledger of Brc20: loading
   rows, writing them back and moving from phase to phase change nothing, and
   every processed action is one legal step of the token protocol. *)
Ledger == INSTANCE Brc20 WITH
  deployed <- [n \in Names |-> Token(n)],
  free     <- [u \in Users |-> [t \in Ticks |-> Row(u, t).balance]],
  pending  <- [l \in Locations |-> Pending(l)]

LedgerSpec == Ledger!Spec
============================================================================
