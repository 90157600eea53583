------------------------------- MODULE Brc20 -------------------------------
(***************************************************************************)
(* What the token ledger promises to a reader of its tables, with no       *)
(* block, no cache and no database: a token is deployed once, minted up    *)
(* to its maximum, and a transfer inscription locks part of its owner's    *)
(* free balance until the inscription moves, which pays the recipient or   *)
(* burns the amount.                                                       *)
(*                                                                         *)
(* There is no "transferable balance" here: what an owner has locked is    *)
(* exactly what the pending transfers say.                                 *)
(***************************************************************************)
EXTENDS Integers

CONSTANTS
  Users,      \* owners of tokens
  Burned,     \* the recipient that stands for an OP_RETURN output
  Ticks,      \* the spellings of token names
  Lower,      \* [Ticks -> the lower-case name that identifies the token]
  Terms,      \* the deploy terms inscriptions may ask for: [max, lim, dec]
  Amounts,    \* the amounts inscriptions may ask for: [value, scale]
  Locations,  \* the places of transfer inscriptions
  Nil

Names == {Lower[t] : t \in Ticks}

VARIABLES
  deployed,   \* name -> [tick, max, lim, dec, supply], Nil before the deploy
  free,       \* user -> tick -> what the user can inscribe a transfer of
  pending     \* location -> [owner, tick, amt], Nil when no transfer is there

vars == <<deployed, free, pending>>

Init ==
  /\ deployed = [n \in Names |-> Nil]
  /\ free = [u \in Users |-> [t \in Ticks |-> 0]]
  /\ pending = [l \in Locations |-> Nil]

\* The first deploy of a name fixes its spelling and its terms.
Deploy(t, terms) ==
  /\ deployed[Lower[t]] = Nil
  /\ deployed' = [deployed EXCEPT ![Lower[t]] =
       [tick |-> t, max |-> terms.max, lim |-> terms.lim, dec |-> terms.dec, supply |-> 0]]
  /\ UNCHANGED <<free, pending>>

\* A mint is cut at the maximum, and pays nothing but what it adds to the supply.
Mint(u, t, amt) ==
  /\ deployed[Lower[t]] # Nil
  /\ LET d == deployed[Lower[t]]
     IN  /\ amt.scale <= d.dec
         /\ amt.value <= d.lim
         /\ \E paid \in {amt.value, d.max - d.supply} :
              /\ 0 < paid /\ paid <= amt.value /\ paid <= d.max - d.supply
              /\ deployed' = [deployed EXCEPT ![Lower[t]].supply = @ + paid]
              /\ free' = [free EXCEPT ![u][d.tick] = @ + paid]
  /\ UNCHANGED pending

\* A transfer inscription locks its amount.
Inscribe(u, t, amt, l) ==
  /\ deployed[Lower[t]] # Nil
  /\ pending[l] = Nil
  /\ LET d == deployed[Lower[t]]
     IN  /\ amt.scale <= d.dec
         /\ amt.value <= free[u][d.tick]
         /\ free' = [free EXCEPT ![u][d.tick] = @ - amt.value]
         /\ pending' = [pending EXCEPT ![l] = [owner |-> u, tick |-> d.tick, amt |-> amt.value]]
  /\ UNCHANGED deployed

\* A transfer inscription is spent once: it pays exactly the amount it locked.
Send(l, r) ==
  /\ pending[l] # Nil
  /\ pending' = [pending EXCEPT ![l] = Nil]
  /\ IF r = Burned
     THEN UNCHANGED free
     ELSE free' = [free EXCEPT ![r][pending[l].tick] = @ + pending[l].amt]
  /\ UNCHANGED deployed

Next ==
  \/ \E t \in Ticks, terms \in Terms : Deploy(t, terms)
  \/ \E u \in Users, t \in Ticks, amt \in Amounts : Mint(u, t, amt)
  \/ \E u \in Users, t \in Ticks, amt \in Amounts, l \in Locations : Inscribe(u, t, amt, l)
  \/ \E l \in Locations, r \in Users \cup {Burned} : Send(l, r)

Spec == Init /\ [][Next]_vars
============================================================================
