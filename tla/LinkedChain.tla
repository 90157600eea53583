---------------------------- MODULE LinkedChain ----------------------------
(***************************************************************************)
(* What the database promises about the chain it was built from: it is the *)
(* result of applying the blocks of one real chain, each block on top of   *)
(* its parent.  It changes by going back to an earlier block of that chain *)
(* and by applying one child of the block it stands on.                    *)
(***************************************************************************)
EXTENDS Integers, Sequences

VARIABLES
  parent,  \* parent[b]: the parent of block b; blocks are only ever added
  chain    \* the applied blocks, the first one a child of genesis

Genesis == 0
Tip(c) == IF c = <<>> THEN Genesis ELSE c[Len(c)]

Init == chain = <<>>

NewBlocks ==
  /\ SubSeq(parent', 1, Len(parent)) = parent
  /\ UNCHANGED chain

Rollback ==
  /\ \E h \in 0..Len(chain) : chain' = SubSeq(chain, 1, h)
  /\ UNCHANGED parent

\* A reorg and the first block of the new branch reach the database together.
Apply ==
  /\ \E h \in 0..Len(chain), b \in DOMAIN parent :
       /\ parent[b] = Tip(SubSeq(chain, 1, h))
       /\ chain' = Append(SubSeq(chain, 1, h), b)
  /\ UNCHANGED parent

Next == NewBlocks \/ Rollback \/ Apply

Spec == Init /\ [][Next]_<<parent, chain>>
============================================================================
