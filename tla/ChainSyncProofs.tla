--------------------------- MODULE ChainSyncProofs ---------------------------
(***************************************************************************)
(* The tables are one chain, and ChainSync implements LinkedChain, for     *)
(* reorgs within REORG_CACHE_MAX_LEN (WithinCache).                        *)
(*                                                                         *)
(* The difficulty is that the blocks of a reorg are found by the parser    *)
(* thread against the node of one moment, wait in the channel, and are     *)
(* undone and applied by the indexer against the node of another.  The     *)
(* invariant ChainInv therefore speaks of all the chains that the tables   *)
(* will go through: PlanInv says that there is a plan, one chain for the   *)
(* tables now and after each event of the channel, each of them linked,    *)
(* each with savepoints for all of its blocks that have left the best      *)
(* chain (Stage), and the last of them what the parser has sent.  An event *)
(* leads from a chain of the plan to the next (Step), a reorg of the node  *)
(* may orphan blocks of all of them at once, and a clear of the cache      *)
(* happens only where no reorg can reach any more (Settled).  ParserInv    *)
(* relates the checkpoints and a round of the parser to the chain sent:    *)
(* what it has popped is orphaned, and not too far below the tip.          *)
(***************************************************************************)
EXTENDS ChainSync, SumProofs

\* What REORG_CACHE_MAX_LEN is meant for: reorgs of at most that many blocks, on a chain
\* that is long enough for tip - 30 not to wrap where they reach; the node does not run
\* away from a fork that is not handled yet; and no reorg is missed by a killed process.
WithinCache ==
  /\ KeepsUp
  /\ ReorgDepth <= MaxLen /\ ReorgDepth + MaxLen <= InitLen + 1
  /\ \A t \in Troubles : ~("reorg" \in t /\ "kill" \in t)

USE ChainAssumption

----------------------------------------------------------------------------
(* The invariant. *)

Event == [block : Nat, height : Nat, reorgLen : Nat, tip : Nat]
Checkpoints == [base : Nat, ids : Seq(Nat)]

CType ==
  /\ prev \in Seq(Nat) /\ node \in Seq(Nat) /\ trouble \in Troubles
  /\ ppc \in {"files", "poll", "pop", "fetch", "send", "dead"}
  /\ cp \in Checkpoints /\ Len(cp.ids) >= 1
  /\ lastHash \in Nat /\ counter \in Nat /\ best \in Nat /\ next \in Nat /\ files \in Seq(Nat)
  /\ chan \in Seq(Event) /\ sent \in Seq(Nat)
  /\ running \in BOOLEAN /\ cancelled \in BOOLEAN
  /\ prevHeight \in Nat /\ savepoints \in Seq(Nat) /\ applied \in Seq(Nat)

At(c, h) == IF h = 0 THEN Genesis ELSE c[h]

\* b is on chain n (OnBestChain); c is a chain, by the parents in p.
On(n, b) == b = Genesis \/ \E h \in 1..Len(n) : n[h] = b
Linked(p, c) ==
  \A h \in 1..Len(c) : c[h] \in 1..Len(p) /\ p[c[h]] = (IF h = 1 THEN Genesis ELSE c[h - 1])

\* The heights that a reorg may reach when the best chain is n, and those that it may not.
Late(n, h) == h >= MaxLen /\ h > Len(n) - MaxLen
Settled(n, h) == h < MaxLen \/ h <= Len(n) - MaxLen

NodeInv ==
  /\ Linked(prev, node) /\ InitLen <= Len(node)
  /\ "reorg" \notin trouble => \A b \in 1..Len(prev) : On(node, b)

\* c is a chain that the tables hold or will hold, and the blocks above height low have
\* savepoints: what is off the best chain n is above it.
Stage(p, n, t, c, low) ==
  /\ c \in Seq(Nat) /\ Linked(p, c) /\ Len(c) <= Len(n) /\ low \in 0..Len(c)
  /\ \A h \in 1..Len(c) : ~On(n, c[h]) => h > low
  /\ "kill" \notin t => Settled(n, low)

Low == Len(applied) - Len(savepoints)

AppliedInv ==
  /\ Stage(prev, node, trouble, applied, Low)
  /\ dbHeight = Len(applied)
  /\ \A i \in 1..Len(savepoints) : savepoints[i] = Low + i
  /\ savepoints # <<>> => prevHeight = Len(applied)
  /\ ~running => savepoints = <<>> /\ ppc = "dead" /\ chan = <<>>

\* The checkpoints are blocks of the chain that the tables will hold.
CheckpointInv ==
  /\ Linked(prev, sent \o files)
  /\ CpHeight <= Len(sent \o files)
  /\ \A i \in 1..Len(cp.ids) : cp.ids[i] = At(sent \o files, cp.base + i - 1)
  /\ ppc = "files" => /\ counter = 0 /\ lastHash = Tip(sent)
                      /\ CpHeight = Len(sent \o files) /\ CpHeight <= Len(node)
  /\ ppc # "files" => files = <<>> /\ lastHash = CpHash

\* A round of the parser goes back over orphans only, and not too far.
RoundInv ==
  /\ ppc \in {"pop", "fetch", "send"} =>
       InitLen <= best /\ best <= Len(node) /\ counter <= Len(sent) - CpHeight
  /\ ppc = "send" =>
       /\ CpHeight < best /\ next \in 1..Len(prev) /\ prev[next] = CpHash
       /\ ~cancelled /\ CpHeight < Len(sent) => CpHeight + 1 > best - MaxLen
  /\ ppc # "files" /\ ~cancelled => \A h \in CpHeight + 1..Len(sent) : ~On(node, sent[h])
  /\ \A h \in 1..Len(Taken) : ~On(node, Taken[h]) => Late(node, h)

ParserInv == ppc # "dead" => running /\ CheckpointInv /\ RoundInv

LowAfter(low, e) ==
  IF ~HandleReorgs(e) THEN e.height
  ELSE IF e.height - 1 - low = MaxLen THEN low + 1 ELSE low

\* Event e takes the tables from chain c to chain d.
Step(n, c, low, e, d, after) ==
  /\ e.height \in 1..Len(c) + 1 /\ e.height <= e.tip /\ e.tip <= Len(n)
  /\ d = Append(FirstBlocks(c, e.height - 1), e.block)
  /\ e.reorgLen <= Len(c) + 1 - e.height
  /\ e.height <= Len(c) => HandleReorgs(e) /\ low < e.height
  /\ after = LowAfter(low, e)

\* plan[j] is the chain of the tables when j - 1 events of the channel are handled.
IsPlan(plan, lows) ==
  /\ Len(plan) = Len(chan) + 1 /\ Len(lows) = Len(chan) + 1
  /\ plan[1] = applied /\ lows[1] = Low /\ plan[Len(chan) + 1] = sent
  /\ \A j \in 1..Len(chan) + 1 : Stage(prev, node, trouble, plan[j], lows[j])
  /\ \A j \in 1..Len(chan) : Step(node, plan[j], lows[j], chan[j], plan[j + 1], lows[j + 1])

PlanInv == running /\ ~cancelled => \E plan \in Seq(Seq(Nat)), lows \in Seq(Nat) : IsPlan(plan, lows)

----------------------------------------------------------------------------
(* Chains. *)

LEMMA FirstBlocksIs ==
  ASSUME NEW c \in Seq(Nat), NEW n \in 0..Len(c)
  PROVE  /\ FirstBlocks(c, n) \in Seq(Nat) /\ Len(FirstBlocks(c, n)) = n
         /\ \A i \in 1..n : FirstBlocks(c, n)[i] = c[i]
         /\ Tip(FirstBlocks(c, n)) = At(c, n)
<1> DEFINE d == FirstBlocks(c, n)
<1>1. d \in Seq(Nat) /\ Len(d) = n /\ \A i \in 1..n : d[i] = c[i]
  BY DEF FirstBlocks
<1> HIDE DEF d
<1>2. Tip(d) = At(c, n)
  <2>1. CASE n = 0
    <3>1. d = <<>>
      BY <1>1, <2>1
    <3> QED BY <2>1, <3>1 DEF Tip, At
  <2>2. CASE n # 0
    <3>1. d # <<>> /\ n \in 1..n
      BY <1>1, <2>2
    <3> QED BY <1>1, <2>2, <3>1 DEF Tip, At
  <2> QED BY <2>1, <2>2
<1> QED BY <1>1, <1>2 DEF d

LEMMA TipIs ==
  ASSUME NEW c \in Seq(Nat)
  PROVE  Tip(c) = At(c, Len(c))
<1>1. CASE c = <<>>
  BY <1>1 DEF Tip, At
<1>2. CASE c # <<>>
  <2>1. Len(c) # 0
    BY <1>2
  <2> QED BY <1>2, <2>1 DEF Tip, At
<1> QED BY <1>1, <1>2

\* A child of the block at height n, put on the first n blocks.
LEMMA Extended ==
  ASSUME NEW p, NEW c \in Seq(Nat), NEW n \in 0..Len(c), NEW b \in Nat
  PROVE  LET d == Append(FirstBlocks(c, n), b)
         IN  /\ d \in Seq(Nat) /\ Len(d) = n + 1 /\ d[n + 1] = b
             /\ \A i \in 1..n : d[i] = c[i]
             /\ Linked(p, c) /\ b \in 1..Len(p) /\ p[b] = At(c, n) => Linked(p, d)
<1> DEFINE k == FirstBlocks(c, n)
           d == Append(k, b)
<1>1. k \in Seq(Nat) /\ Len(k) = n /\ \A i \in 1..n : k[i] = c[i]
  BY FirstBlocksIs
<1> HIDE DEF k
<1>2. d \in Seq(Nat) /\ Len(d) = n + 1 /\ d[n + 1] = b /\ \A i \in 1..n : d[i] = c[i]
  BY <1>1
<1> HIDE DEF d
<1>3. ASSUME Linked(p, c), b \in 1..Len(p), p[b] = At(c, n) PROVE Linked(p, d)
  <2> SUFFICES ASSUME NEW h \in 1..Len(d)
               PROVE  d[h] \in 1..Len(p) /\ p[d[h]] = (IF h = 1 THEN Genesis ELSE d[h - 1])
    BY DEF Linked
  <2>1. CASE h = n + 1
    <3>1. CASE n = 0
      BY <1>2, <1>3, <2>1, <3>1 DEF At
    <3>2. CASE n # 0
      <4>1. h # 1 /\ h - 1 = n /\ d[h - 1] = c[n]
        BY <1>2, <2>1, <3>2
      <4> QED BY <1>2, <1>3, <2>1, <3>2, <4>1 DEF At
    <3> QED BY <3>1, <3>2
  <2>2. CASE h # n + 1
    <3>1. h \in 1..n /\ h \in 1..Len(c) /\ d[h] = c[h]
      BY <1>2, <2>2
    <3>2. h # 1 => d[h - 1] = c[h - 1]
      BY <1>2, <3>1
    <3> QED BY <1>3, <3>1, <3>2 DEF Linked
  <2> QED BY <2>1, <2>2
<1> QED BY <1>2, <1>3 DEF d, k

\* Two chains with the same block have it at the same height.
LEMMA SameHeight ==
  ASSUME NEW p, NEW c \in Seq(Nat), NEW d \in Seq(Nat), Linked(p, c), Linked(p, d),
         NEW h \in 1..Len(c), NEW k \in 1..Len(d), c[h] = d[k]
  PROVE  h = k
<1> DEFINE P == {n \in Nat : n + 1 <= Len(c) => \A j \in 1..Len(d) : c[n + 1] = d[j] => n + 1 = j}
<1>1. \A i \in 1..Len(c) : c[i] \in Nat /\ c[i] # Genesis
                            /\ p[c[i]] = (IF i = 1 THEN Genesis ELSE c[i - 1])
  <2>1. \A i \in 1..Len(c) : c[i] \in 1..Len(p) /\ p[c[i]] = (IF i = 1 THEN Genesis ELSE c[i - 1])
    BY DEF Linked
  <2>2. ASSUME NEW i \in 1..Len(c) PROVE c[i] \in Nat /\ c[i] # 0
    <3>1. c[i] \in Nat
      OBVIOUS
    <3>2. 0 \notin 1..Len(p)
      OBVIOUS
    <3> QED BY <2>1, <3>1, <3>2
  <2> QED BY <2>1, <2>2 DEF Genesis
<1>2. \A i \in 1..Len(d) : d[i] \in Nat /\ d[i] # Genesis
                            /\ p[d[i]] = (IF i = 1 THEN Genesis ELSE d[i - 1])
  <2>1. \A i \in 1..Len(d) : d[i] \in 1..Len(p) /\ p[d[i]] = (IF i = 1 THEN Genesis ELSE d[i - 1])
    BY DEF Linked
  <2>2. ASSUME NEW i \in 1..Len(d) PROVE d[i] \in Nat /\ d[i] # 0
    <3>1. d[i] \in Nat
      OBVIOUS
    <3>2. 0 \notin 1..Len(p)
      OBVIOUS
    <3> QED BY <2>1, <3>1, <3>2
  <2> QED BY <2>1, <2>2 DEF Genesis
<1>3. 0 \in P
  <2> SUFFICES ASSUME 1 <= Len(c), NEW j \in 1..Len(d), c[1] = d[j] PROVE 1 = j
    OBVIOUS
  <2>1. p[d[j]] = Genesis
    <3>1. 1 \in 1..Len(c)
      OBVIOUS
    <3>2. p[c[1]] = Genesis
      BY <1>1, <3>1
    <3> QED BY <3>2
  <2>2. j # 1 => j - 1 \in 1..Len(d)
    OBVIOUS
  <2> QED BY <1>2, <2>1, <2>2
<1>4. ASSUME NEW n \in P PROVE n + 1 \in P
  <2>0. n \in Nat
    OBVIOUS
  <2>1. ASSUME n + 2 <= Len(c), NEW j \in 1..Len(d), c[n + 2] = d[j] PROVE n + 2 = j
    <3>1. n + 1 \in 1..Len(c) /\ n + 2 \in 1..Len(c) /\ n + 2 # 1 /\ (n + 2) - 1 = n + 1
      BY <2>0, <2>1
    <3>2. p[c[n + 2]] = c[n + 1] /\ c[n + 1] # Genesis
      BY <1>1, <3>1
    <3>3. j # 1
      BY <1>2, <2>1, <3>2
    <3>4. j - 1 \in 1..Len(d) /\ p[d[j]] = d[j - 1]
      BY <1>2, <3>3
    <3>5. c[n + 1] = d[j - 1]
      BY <2>1, <3>2, <3>4
    <3>6. n + 1 = j - 1
      BY <3>1, <3>4, <3>5
    <3> QED BY <2>0, <3>6
  <2>3. n + 1 \in Nat /\ (n + 1) + 1 = n + 2
    BY <2>0
  <2> QED BY <2>1, <2>3
<1>5. P = Nat
  BY <1>3, <1>4, SetInduction
<1>6. h - 1 \in Nat /\ (h - 1) + 1 = h /\ h <= Len(c)
  OBVIOUS
<1>7. h - 1 \in P
  <2> HIDE DEF P
  <2> QED BY <1>5, <1>6
<1> QED BY <1>6, <1>7

\* A block of a chain that is on the best chain is there at its height.
LEMMA OnAtHeight ==
  ASSUME NEW p, NEW n \in Seq(Nat), Linked(p, n), NEW c \in Seq(Nat), Linked(p, c),
         NEW h \in 1..Len(c), On(n, c[h])
  PROVE  h \in 1..Len(n) /\ n[h] = c[h]
<1>1. c[h] # Genesis
  BY DEF Linked, Genesis
<1>2. PICK k \in 1..Len(n) : n[k] = c[h]
  BY <1>1 DEF On
<1>3. h = k
  BY <1>2, SameHeight
<1> QED BY <1>2, <1>3

\* A chain of blocks of the best chain is the beginning of it.
LEMMA PrefixOfNode ==
  ASSUME NEW p, NEW n \in Seq(Nat), Linked(p, n), NEW c \in Seq(Nat), Linked(p, c),
         \A h \in 1..Len(c) : On(n, c[h])
  PROVE  /\ Len(c) <= Len(n) /\ \A h \in 1..Len(c) : n[h] = c[h]
<1>1. \A h \in 1..Len(c) : h \in 1..Len(n) /\ n[h] = c[h]
  BY OnAtHeight
<1>2. Len(c) <= Len(n)
  <2>1. CASE Len(c) = 0
    BY <2>1
  <2>2. CASE Len(c) # 0
    <3>1. Len(c) \in 1..Len(c)
      BY <2>2
    <3> QED BY <1>1, <3>1
  <2> QED BY <2>1, <2>2
<1> QED BY <1>1, <1>2

\* The fork of two chains.
LEMMA ForkIs ==
  ASSUME NEW c \in Seq(Nat), NEW d \in Seq(Nat)
  PROVE  /\ ForkHeight(c, d) \in 0..Len(c) /\ ForkHeight(c, d) <= Len(d)
         /\ \A i \in 1..ForkHeight(c, d) : c[i] = d[i]
<1> DEFINE Good(h) == /\ h <= Len(d) /\ SubSeq(c, 1, h) = SubSeq(d, 1, h)
                      /\ h < Len(c) /\ h < Len(d) => c[h + 1] # d[h + 1]
           S == {k \in 0..Len(c) : k <= Len(d) /\ (k < Len(c) /\ k < Len(d) => c[k + 1] # d[k + 1])}
<1>0. Len(c) \in Nat /\ Len(d) \in Nat
  OBVIOUS
<1>1. S # {} /\ S \subseteq Nat
  <2>1. CASE Len(c) <= Len(d)
    <3>1. Len(c) \in S
      BY <1>0, <2>1
    <3> QED BY <3>1
  <2>2. CASE Len(d) < Len(c)
    <3>1. Len(d) \in S
      BY <1>0, <2>2
    <3> QED BY <3>1
  <2> QED BY <1>0, <2>1, <2>2
<1> PICK m \in S : \A n \in S : m <= n
  BY <1>1, Least
<1>2. \A i \in 1..m : c[i] = d[i]
  <2> SUFFICES ASSUME NEW i \in 1..m, c[i] # d[i] PROVE FALSE
    OBVIOUS
  <2>1. i - 1 \in S
    BY <1>0
  <2>2. m <= i - 1
    BY ONLY <2>1, \A n \in S : m <= n
  <2>3. m \in Nat
    BY <1>1
  <2> QED BY ONLY <2>2, <2>3, i \in 1..m
<1>3. SubSeq(c, 1, m) = SubSeq(d, 1, m)
  <2>1. m \in Nat /\ m <= Len(c) /\ m <= Len(d)
    OBVIOUS
  <2>2. SubSeq(c, 1, m) = [i \in 1..m |-> c[i]] /\ SubSeq(d, 1, m) = [i \in 1..m |-> d[i]]
    BY <2>1
  <2> HIDE DEF S
  <2> QED BY <1>2, <2>2
<1>4. \E h \in 0..Len(c) : Good(h)
  BY <1>3
<1> DEFINE f == CHOOSE h \in 0..Len(c) : Good(h)
<1>5. f \in 0..Len(c) /\ Good(f)
  BY <1>4
<1>6. ForkHeight(c, d) = f
  BY DEF ForkHeight
<1> HIDE DEF f
<1>7. \A i \in 1..f : c[i] = d[i]
  <2> SUFFICES ASSUME NEW i \in 1..f PROVE c[i] = d[i]
    OBVIOUS
  <2>1. SubSeq(c, 1, f)[i] = c[i] /\ SubSeq(d, 1, f)[i] = d[i]
    BY <1>0, <1>5
  <2> QED BY <1>5, <2>1
<1> QED BY <1>5, <1>6, <1>7

----------------------------------------------------------------------------
(* The node: a branch m on the first f blocks of n, of blocks that are new after p. *)

Branch(p, n, q, m, f) ==
  /\ q \in Seq(Nat) /\ m \in Seq(Nat) /\ f \in 0..Len(n)
  /\ Len(p) <= Len(q) /\ Len(n) <= Len(m)
  /\ \A b \in 1..Len(p) : q[b] = p[b]
  /\ \A h \in 1..f : m[h] = n[h]
  /\ \A h \in f + 1..Len(m) : m[h] > Len(p)
  /\ \A b \in Len(p) + 1..Len(q) : On(m, b)
  /\ Linked(q, m)

\* Two sequences one after the other.
LEMMA Joined ==
  ASSUME NEW a \in Seq(Nat), NEW b \in Seq(Nat)
  PROVE  /\ a \o b \in Seq(Nat) /\ Len(a \o b) = Len(a) + Len(b)
         /\ \A i \in 1..Len(a) : (a \o b)[i] = a[i]
         /\ \A i \in 1..Len(b) : (a \o b)[Len(a) + i] = b[i]
<1>1. /\ a \o b \in Seq(Nat) /\ Len(a \o b) = Len(a) + Len(b)
      /\ \A i \in 1..Len(a) : (a \o b)[i] = a[i]
  OBVIOUS
<1>2. ASSUME NEW i \in 1..Len(b) PROVE (a \o b)[Len(a) + i] = b[i]
  <2>1. Len(a) + i \in 1..Len(a) + Len(b) /\ ~(Len(a) + i <= Len(a)) /\ (Len(a) + i) - Len(a) = i
    OBVIOUS
  <2> QED BY <2>1
<1> QED BY <1>1, <1>2

\* The blocks of a branch are parents of one another.
Parts(p, n, f, k, a, new, up) ==
  /\ a \in Seq(Nat) /\ Len(a) = f /\ \A i \in 1..f : a[i] = n[i]
  /\ new \in Seq(Nat) /\ Len(new) = k /\ \A i \in 1..k : new[i] = Len(p) + i
  /\ up \in Seq(Nat) /\ Len(up) = k
  /\ \A i \in 1..k : up[i] = (IF i = 1 THEN At(n, f) ELSE Len(p) + i - 1)

LEMMA BranchOf ==
  ASSUME NEW p \in Seq(Nat), NEW n \in Seq(Nat), Linked(p, n), NEW f \in 0..Len(n), NEW k \in Nat,
         k > 0, f + k >= Len(n), NEW a, NEW new, NEW up, Parts(p, n, f, k, a, new, up)
  PROVE  Branch(p, n, p \o up, a \o new, f)
<1> DEFINE m == a \o new
           q == p \o up
<1>0. Len(n) \in Nat /\ Len(p) \in Nat /\ f \in Nat /\ k \in Nat /\ k > 0 /\ f + k >= Len(n) /\ f <= Len(n)
  OBVIOUS
<1>1. a \in Seq(Nat) /\ Len(a) = f /\ \A i \in 1..f : a[i] = n[i]
  BY DEF Parts
<1>2. new \in Seq(Nat) /\ Len(new) = k /\ \A i \in 1..k : new[i] = Len(p) + i
  BY DEF Parts
<1>3. up \in Seq(Nat) /\ Len(up) = k
      /\ \A i \in 1..k : up[i] = (IF i = 1 THEN At(n, f) ELSE Len(p) + i - 1)
  BY DEF Parts
<1>4. /\ m \in Seq(Nat) /\ Len(m) = Len(a) + Len(new)
      /\ \A i \in 1..Len(a) : m[i] = a[i]
  <2>1. a \in Seq(Nat) /\ new \in Seq(Nat)
    BY <1>1, <1>2
  <2> QED BY ONLY <2>1, Joined
<1>5. /\ q \in Seq(Nat) /\ Len(q) = Len(p) + Len(up)
      /\ \A b \in 1..Len(p) : q[b] = p[b]
  <2>1. p \in Seq(Nat) /\ up \in Seq(Nat)
    BY <1>3
  <2> QED BY ONLY <2>1, Joined
<1>6. m \in Seq(Nat) /\ Len(m) = f + k
  <2> HIDE DEF m
  <2> QED BY <1>1, <1>2, <1>4
<1>7. /\ \A h \in 1..f : m[h] = n[h]
      /\ \A h \in f + 1..f + k : m[h] = Len(p) + (h - f)
  <2>1. \A h \in 1..f : m[h] = n[h]
    <3> HIDE DEF m
    <3> QED BY ONLY <1>1, <1>4
  <2>2. ASSUME NEW h \in f + 1..f + k PROVE m[h] = Len(p) + (h - f)
    <3>1. h - f \in 1..k /\ h = Len(a) + (h - f)
      BY <1>0, <1>1
    <3>2. m[h] = new[h - f]
      <4>1. a \in Seq(Nat) /\ new \in Seq(Nat)
        BY <1>1, <1>2
      <4>2. h - f \in 1..Len(new)
        BY <1>2, <3>1
      <4>3. \A i \in 1..Len(new) : m[Len(a) + i] = new[i]
        BY <4>1, Joined
      <4> HIDE DEF m
      <4> QED BY <3>1, <4>2, <4>3
    <3> QED BY <1>2, <3>1, <3>2
  <2> QED BY <2>1, <2>2
<1>8. q \in Seq(Nat) /\ Len(q) = Len(p) + k
  <2> HIDE DEF q
  <2> QED BY ONLY <1>3, <1>5
<1>9. /\ \A b \in 1..Len(p) : q[b] = p[b]
      /\ \A i \in 1..k : q[Len(p) + i] = (IF i = 1 THEN At(n, f) ELSE Len(p) + i - 1)
  <2>1. \A b \in 1..Len(p) : q[b] = p[b]
    BY <1>5
  <2>2. \A i \in 1..Len(up) : q[Len(p) + i] = up[i]
    BY <1>3, Joined
  <2> HIDE DEF q
  <2>3. \A i \in 1..k : q[Len(p) + i] = up[i]
    BY <1>3, <2>2
  <2> QED BY <1>3, <2>1, <2>3
<1> HIDE DEF m, q
<1>16. 1..Len(p) + k = 1..Len(q)
  BY <1>8
<1>10. Linked(q, m)
  <2> SUFFICES ASSUME NEW h \in 1..Len(m)
               PROVE  m[h] \in 1..Len(q) /\ q[m[h]] = (IF h = 1 THEN Genesis ELSE m[h - 1])
    BY DEF Linked
  <2>1. CASE h <= f
    <3>1. h \in 1..f /\ h \in 1..Len(n) /\ m[h] = n[h] /\ (h # 1 => h - 1 \in 1..f)
      <4>1. h \in Nat /\ h >= 1
        BY <1>6
      <4>2. h \in 1..f /\ h \in 1..Len(n) /\ (h # 1 => h - 1 \in 1..f)
        BY <1>0, <2>1, <4>1
      <4> QED BY <1>7, <4>2
    <3>2. n[h] \in 1..Len(p) /\ p[n[h]] = (IF h = 1 THEN Genesis ELSE n[h - 1])
      BY <3>1 DEF Linked
    <3>3. q[m[h]] = p[n[h]]
      BY <1>9, <3>1, <3>2
    <3>4. m[h] \in 1..Len(q)
      <4>1. 1..Len(p) \subseteq 1..Len(p) + k
        BY <1>0
      <4> QED BY <1>16, <3>1, <3>2, <4>1
    <3>5. h # 1 => m[h - 1] = n[h - 1]
      BY <1>7, <3>1
    <3> QED BY <3>2, <3>3, <3>4, <3>5
  <2>2. CASE h = f + 1
    <3>1. m[h] = Len(p) + 1 /\ m[h] \in 1..Len(q)
      <4>1. h \in f + 1..f + k /\ h - f = 1
        BY <1>0, <2>2
      <4>2. m[h] = Len(p) + 1
        BY <1>7, <4>1
      <4>3. m[h] \in 1..Len(p) + k
        BY <1>0, <4>2
      <4> QED BY <1>16, <4>2, <4>3
    <3>2. q[m[h]] = At(n, f)
      BY <1>9, <3>1
    <3>3. CASE f = 0
      BY <2>2, <3>1, <3>2, <3>3 DEF At
    <3>4. CASE f # 0
      <4>1. h # 1 /\ h - 1 = f /\ f \in 1..f
        BY <1>0, <2>2, <3>4
      <4>2. m[h - 1] = n[f]
        BY <1>7, <4>1
      <4> QED BY <3>1, <3>2, <3>4, <4>1, <4>2 DEF At
    <3> QED BY <3>3, <3>4
  <2>3. CASE h > f + 1
    <3>1. m[h] = Len(p) + (h - f) /\ m[h] \in 1..Len(q)
      <4>1. h \in f + 1..f + k
        BY <1>0, <1>6, <2>3
      <4>2. m[h] = Len(p) + (h - f)
        BY <1>7, <4>1
      <4>3. m[h] \in 1..Len(p) + k
        BY <1>0, <4>1, <4>2
      <4> QED BY <1>16, <4>2, <4>3
    <3>2. h - f \in 1..k /\ h - f # 1 /\ h # 1 /\ h - 1 \in f + 1..f + k
      BY <1>0, <1>6, <2>3
    <3>3. q[m[h]] = Len(p) + (h - f) - 1
      BY <1>9, <3>1, <3>2
    <3>4. m[h - 1] = Len(p) + ((h - 1) - f)
      BY <1>7, <3>2
    <3>5. Len(p) + (h - f) - 1 = Len(p) + ((h - 1) - f)
      BY <1>0, <1>6
    <3> QED BY <3>1, <3>2, <3>3, <3>4, <3>5
  <2> QED BY <1>0, <1>6, <2>1, <2>2, <2>3
<1>11. \A h \in f + 1..Len(m) : m[h] > Len(p)
  BY <1>0, <1>6, <1>7
<1>12. ASSUME NEW b \in Len(p) + 1..Len(q) PROVE On(m, b)
  <2>1. f + (b - Len(p)) \in f + 1..f + k /\ f + (b - Len(p)) \in 1..Len(m)
    <3>1. b - Len(p) \in 1..k
      BY <1>0, <1>8
    <3>2. f + (b - Len(p)) \in f + 1..f + k /\ f + (b - Len(p)) \in 1..f + k
      BY <1>0, <3>1
    <3> QED BY <1>6, <3>2
  <2>2. m[f + (b - Len(p))] = b
    <3>1. m[f + (b - Len(p))] = Len(p) + ((f + (b - Len(p))) - f)
      BY <1>7, <2>1
    <3>2. Len(p) + ((f + (b - Len(p))) - f) = b
      BY <1>0
    <3> QED BY <3>1, <3>2
  <2> QED BY <2>1, <2>2 DEF On
<1>13. Len(p) <= Len(q) /\ Len(n) <= Len(m)
  BY <1>0, <1>6, <1>8
<1>14. \A b \in Len(p) + 1..Len(q) : On(m, b)
  BY <1>12
<1>15. Branch(p, n, q, m, f)
  BY <1>6, <1>7, <1>8, <1>9, <1>10, <1>11, <1>13, <1>14 DEF Branch
<1> QED BY <1>15 DEF m, q

LEMMA BranchIs ==
  ASSUME NEW p \in Seq(Nat), NEW n \in Seq(Nat), Linked(p, n), NEW f \in 0..Len(n), NEW k \in Nat,
         k > 0, f + k >= Len(n)
  PROVE  Branch(p, n, p \o [i \in 1..k |-> IF i = 1 THEN At(n, f) ELSE Len(p) + i - 1],
                SubSeq(n, 1, f) \o [i \in 1..k |-> Len(p) + i], f)
<1> DEFINE a == SubSeq(n, 1, f)
           new == [i \in 1..k |-> Len(p) + i]
           up == [i \in 1..k |-> IF i = 1 THEN At(n, f) ELSE Len(p) + i - 1]
<1>0. Len(n) \in Nat /\ Len(p) \in Nat /\ f \in Nat /\ k \in Nat
  OBVIOUS
<1>1. At(n, f) \in Nat
  BY <1>0 DEF At, Genesis
<1>2. a \in Seq(Nat) /\ Len(a) = f /\ \A i \in 1..f : a[i] = n[i]
  BY <1>0
<1>3. new \in Seq(Nat) /\ Len(new) = k /\ \A i \in 1..k : new[i] = Len(p) + i
  BY <1>0
<1>4. up \in Seq(Nat) /\ Len(up) = k /\ \A i \in 1..k : up[i] = (IF i = 1 THEN At(n, f) ELSE Len(p) + i - 1)
  BY <1>0, <1>1
<1> HIDE DEF a, new, up
<1>5. Branch(p, n, p \o up, a \o new, f)
  <2>1. Parts(p, n, f, k, a, new, up)
    BY <1>2, <1>3, <1>4 DEF Parts
  <2> QED BY <2>1, BranchOf
<1> QED BY <1>5 DEF a, new, up

\* A block that was not on the best chain is not on a later one, and one that leaves it
\* is above the fork.
LEMMA BranchKeeps ==
  ASSUME NEW p \in Seq(Nat), NEW n \in Seq(Nat), NEW q, NEW m, NEW f, Branch(p, n, q, m, f),
         Linked(p, n), NEW c \in Seq(Nat), Linked(p, c)
  PROVE  /\ Linked(q, c)
         /\ \A h \in 1..Len(c) : On(m, c[h]) => On(n, c[h])
         /\ \A h \in 1..Len(c) : On(n, c[h]) /\ ~On(m, c[h]) => h > f /\ h <= Len(n)
<1>0. Len(p) \in Nat /\ Len(q) \in Nat /\ Len(n) \in Nat /\ Len(m) \in Nat /\ f \in Nat
      /\ Len(p) <= Len(q) /\ Len(n) <= Len(m) /\ f <= Len(n)
  BY DEF Branch
<1>1. \A h \in 1..Len(c) : c[h] \in 1..Len(p) /\ c[h] # Genesis
  BY <1>0 DEF Linked, Genesis
<1>2. Linked(q, c)
  <2>1. \A b \in 1..Len(p) : b \in 1..Len(q) /\ q[b] = p[b]
    BY <1>0 DEF Branch
  <2> QED BY <2>1 DEF Linked
<1>3. ASSUME NEW h \in 1..Len(c), On(m, c[h]) PROVE On(n, c[h])
  <2>1. PICK k \in 1..Len(m) : m[k] = c[h]
    BY <1>1, <1>3 DEF On
  <2>2. c[h] <= Len(p)
    BY <1>0, <1>1
  <2>3. k \in 1..f
    <3>1. ~(k \in f + 1..Len(m))
      <4>1. ASSUME k \in f + 1..Len(m) PROVE FALSE
        <5>1. m[k] > Len(p)
          BY <4>1 DEF Branch
        <5>2. c[h] \in Nat
          BY <1>1
        <5> QED BY <1>0, <2>1, <2>2, <5>1, <5>2
      <4> QED BY <4>1
    <3> QED BY <1>0, <3>1
  <2>4. n[k] = c[h] /\ k \in 1..Len(n)
    BY <1>0, <2>1, <2>3 DEF Branch
  <2> QED BY <2>4 DEF On
<1>4. ASSUME NEW h \in 1..Len(c), On(n, c[h]), ~On(m, c[h]) PROVE h > f /\ h <= Len(n)
  <2>1. h \in 1..Len(n) /\ n[h] = c[h]
    BY <1>4, OnAtHeight
  <2>2. ~(h \in 1..f)
    <3>1. ASSUME h \in 1..f PROVE FALSE
      <4>1. m[h] = c[h] /\ h \in 1..Len(m)
        BY <1>0, <2>1, <3>1 DEF Branch
      <4> QED BY <1>4, <4>1 DEF On
    <3> QED BY <3>1
  <2> QED BY <1>0, <2>1, <2>2
<1> QED BY <1>2, <1>3, <1>4

\* What the node may do in this history t.
Allowed(n, t, f) ==
  /\ f # Len(n) => "reorg" \in t /\ f >= Len(n) - ReorgDepth
  /\ InitLen <= Len(n) /\ t \in Troubles

\* No reorg within the depth that the cache is made for reaches a block that has no savepoint.
LEMMA StageKept ==
  ASSUME WithinCache,
         NEW p \in Seq(Nat), NEW n \in Seq(Nat), NEW q, NEW m, NEW f, Branch(p, n, q, m, f),
         Linked(p, n), NEW t, Allowed(n, t, f), NEW c, NEW low, Stage(p, n, t, c, low)
  PROVE  Stage(q, m, t, c, low)
<1>0. c \in Seq(Nat) /\ Linked(p, c) /\ Len(c) <= Len(n) /\ low \in 0..Len(c)
  BY DEF Stage
<1>1. Len(n) \in Nat /\ Len(m) \in Nat /\ f \in Nat /\ Len(n) <= Len(m) /\ f <= Len(n)
      /\ Len(c) \in Nat /\ low \in Nat
  BY <1>0 DEF Branch
<1>2. Linked(q, c) /\ Len(c) <= Len(m)
  BY <1>0, <1>1, BranchKeeps
<1>3. ASSUME NEW h \in 1..Len(c), ~On(m, c[h]) PROVE h > low
  <2>1. CASE ~On(n, c[h])
    BY <2>1 DEF Stage
  <2>2. CASE On(n, c[h])
    <3>1. h > f /\ h <= Len(n)
      BY <1>0, <1>3, <2>2, BranchKeeps
    <3>2. f # Len(n)
      BY <1>1, <3>1
    <3>3. "reorg" \in t /\ f >= Len(n) - ReorgDepth /\ InitLen <= Len(n) /\ t \in Troubles
      BY <3>2 DEF Allowed
    <3>4. "kill" \notin t
      BY <3>3 DEF WithinCache
    <3>5. Settled(n, low)
      BY <3>4 DEF Stage
    <3>6. low < MaxLen \/ low <= Len(n) - MaxLen
      BY <3>5 DEF Settled
    <3>7. ReorgDepth \in Nat /\ MaxLen \in Nat /\ InitLen \in Nat
          /\ ReorgDepth <= MaxLen /\ ReorgDepth + MaxLen <= InitLen + 1
      BY DEF WithinCache
    <3> QED BY <1>1, <3>1, <3>3, <3>6, <3>7
  <2> QED BY <2>1, <2>2
<1>4. ASSUME "kill" \notin t PROVE Settled(m, low)
  <2>1. low < MaxLen \/ low <= Len(n) - MaxLen
    BY <1>4 DEF Stage, Settled
  <2>2. MaxLen \in Nat
    OBVIOUS
  <2> QED BY <1>1, <2>1, <2>2 DEF Settled
<1> QED BY <1>0, <1>2, <1>3, <1>4 DEF Stage

----------------------------------------------------------------------------
(* A step of the node. *)

ChainInv == CType /\ NodeInv /\ AppliedInv /\ ParserInv /\ PlanInv

NodeOnly == UNCHANGED <<trouble, parserVars, chan, indexerVars, cancelled, faults, starts, sent>>

LEMMA NewBranchIs ==
  ASSUME CType, NodeInv, NEW f \in 0..Len(node), NEW k \in Nat, k > 0, f + k >= Len(node),
         NewBranch(f, k)
  PROVE  Branch(prev, node, prev', node', f) /\ WithinReach(node') /\ NodeOnly
<1> DEFINE new == [i \in 1..k |-> Len(prev) + i]
           up == [i \in 1..k |-> IF i = 1 THEN At(node, f) ELSE Len(prev) + i - 1]
<1>1. prev \in Seq(Nat) /\ node \in Seq(Nat) /\ Linked(prev, node)
  BY DEF CType, NodeInv
<1>2. node' = SubSeq(node, 1, f) \o new
  BY DEF NewBranch
<1>3. prev' = prev \o [i \in 1..k |-> IF i = 1 THEN NodeAt(f) ELSE new[i - 1]]
  BY DEF NewBranch
<1>4. [i \in 1..k |-> IF i = 1 THEN NodeAt(f) ELSE new[i - 1]] = up
  <2>1. NodeAt(f) = At(node, f)
    BY DEF NodeAt, At
  <2>2. ASSUME NEW i \in 1..k, i # 1 PROVE new[i - 1] = Len(prev) + i - 1
    <3>1. i - 1 \in 1..k /\ Len(prev) + (i - 1) = Len(prev) + i - 1
      BY <1>1, <2>2
    <3> QED BY <3>1
  <2> HIDE DEF new
  <2> QED BY <2>1, <2>2
<1>5. Branch(prev, node, prev \o up, SubSeq(node, 1, f) \o new, f)
  BY <1>1, BranchIs
<1>6. Branch(prev, node, prev', node', f)
  <2> HIDE DEF up, new
  <2> QED BY <1>2, <1>3, <1>4, <1>5
<1>7. WithinReach(node') /\ NodeOnly
  BY DEF NewBranch, NodeOnly
<1> QED BY <1>6, <1>7

LEMMA NodeForks ==
  ASSUME CType, NodeInv, Mine \/ NodeReorg
  PROVE  \E f \in Nat : /\ Branch(prev, node, prev', node', f) /\ Allowed(node, trouble, f)
                        /\ WithinReach(node') /\ NodeOnly
<1>0. Len(node) \in Nat /\ trouble \in Troubles /\ InitLen <= Len(node) /\ ReorgDepth \in Nat
  BY DEF CType, NodeInv
<1>1. CASE Mine
  <2>1. NewBranch(Len(node), 1) /\ Len(node) \in 0..Len(node) /\ Len(node) + 1 >= Len(node)
    BY <1>0, <1>1 DEF Mine
  <2>2. Branch(prev, node, prev', node', Len(node)) /\ WithinReach(node') /\ NodeOnly
    BY <2>1, NewBranchIs
  <2>3. Allowed(node, trouble, Len(node))
    BY <1>0 DEF Allowed
  <2> QED BY <1>0, <2>2, <2>3
<1>2. CASE NodeReorg
  <2>1. PICK d \in 1..ReorgDepth : d < Len(node) /\ NewBranch(Len(node) - d, d + 1)
    BY <1>2 DEF NodeReorg
  <2>2. Len(node) - d \in 0..Len(node) /\ Len(node) - d \in Nat /\ d + 1 \in Nat /\ d + 1 > 0
        /\ (Len(node) - d) + (d + 1) >= Len(node) /\ Len(node) - d >= Len(node) - ReorgDepth
    BY <1>0, <2>1
  <2>3. Branch(prev, node, prev', node', Len(node) - d) /\ WithinReach(node') /\ NodeOnly
    BY <2>1, <2>2, NewBranchIs
  <2>4. Allowed(node, trouble, Len(node) - d)
    BY <1>0, <1>2, <2>2 DEF Allowed, NodeReorg
  <2> QED BY <2>2, <2>3, <2>4
<1> QED BY <1>1, <1>2

\* The chain that the parser has read is a chain.
LEMMA TakenIs ==
  ASSUME CType, CheckpointInv, ppc = "send" => next \in 1..Len(prev) /\ prev[next] = CpHash,
         ppc # "dead"
  PROVE  /\ Taken \in Seq(Nat) /\ Linked(prev, Taken)
         /\ sent \in Seq(Nat) /\ Linked(prev, sent)
         /\ CpHeight \in 0..Len(sent \o files) /\ CpHash = At(sent \o files, CpHeight)
         /\ ppc # "files" => CpHeight \in 0..Len(sent) /\ CpHash = At(sent, CpHeight)
<1>0. sent \in Seq(Nat) /\ files \in Seq(Nat) /\ next \in Nat /\ sent \o files \in Seq(Nat)
  BY DEF CType
<1>1. Linked(prev, sent \o files)
  BY DEF CheckpointInv
<1>2. Linked(prev, sent)
  <2>1. Len(sent) \in Nat /\ Len(sent \o files) \in Nat /\ Len(sent) <= Len(sent \o files)
        /\ \A i \in 1..Len(sent) : (sent \o files)[i] = sent[i]
    BY <1>0
  <2> SUFFICES ASSUME NEW h \in 1..Len(sent)
               PROVE  sent[h] \in 1..Len(prev)
                      /\ prev[sent[h]] = (IF h = 1 THEN Genesis ELSE sent[h - 1])
    BY DEF Linked
  <2>2. h \in 1..Len(sent \o files) /\ (h # 1 => h - 1 \in 1..Len(sent))
    BY <2>1
  <2> DEFINE c == sent \o files
  <2>3. c[h] = sent[h] /\ (h # 1 => c[h - 1] = sent[h - 1])
    BY <2>1, <2>2
  <2>4. c[h] \in 1..Len(prev) /\ prev[c[h]] = (IF h = 1 THEN Genesis ELSE c[h - 1])
    BY <1>1, <2>2 DEF Linked
  <2> QED BY <2>3, <2>4
<1>3. CpHeight \in 0..Len(sent \o files) /\ CpHash = At(sent \o files, CpHeight)
  <2>1. cp.base \in Nat /\ cp.ids \in Seq(Nat) /\ Len(cp.ids) \in Nat /\ Len(cp.ids) >= 1
    BY DEF CType, Checkpoints
  <2>2. CpHeight <= Len(sent \o files)
        /\ \A i \in 1..Len(cp.ids) : cp.ids[i] = At(sent \o files, cp.base + i - 1)
    BY DEF CheckpointInv
  <2>3. Len(cp.ids) \in 1..Len(cp.ids)
    BY <2>1
  <2>4. CpHash = At(sent \o files, CpHeight)
    BY <2>2, <2>3 DEF CpHash, CpHeight
  <2>5. CpHeight \in Nat /\ Len(sent \o files) \in Nat
    BY <1>0, <2>1 DEF CpHeight
  <2> QED BY <2>2, <2>4, <2>5
<1>4. ASSUME ppc # "files" PROVE CpHeight \in 0..Len(sent) /\ CpHash = At(sent, CpHeight)
  <2>1. files = <<>>
    BY <1>4 DEF CheckpointInv
  <2>2. sent \o files = sent
    BY <1>0, <2>1
  <2> QED BY <1>3, <2>2
<1>5. Taken \in Seq(Nat) /\ Linked(prev, Taken)
  <2>1. CASE ppc = "send"
    <3>1. Taken = Append(FirstBlocks(sent, CpHeight), next)
      BY <2>1 DEF Taken
    <3>2. next \in 1..Len(prev) /\ prev[next] = At(sent, CpHeight) /\ CpHeight \in 0..Len(sent)
      BY <1>4, <2>1
    <3> QED BY <1>0, <1>2, <3>1, <3>2, Extended
  <2>2. CASE ppc # "send"
    <3>1. Taken = sent \o files
      BY <2>2 DEF Taken
    <3> QED BY <1>0, <1>1, <3>1
  <2> QED BY <2>1, <2>2
<1> QED BY <1>0, <1>2, <1>3, <1>4, <1>5

LEMMA NodeStep ==
  ASSUME WithinCache, ChainInv, Mine \/ NodeReorg
  PROVE  ChainInv'
<1>0. CType /\ NodeInv /\ AppliedInv /\ ParserInv /\ PlanInv
  BY DEF ChainInv
<1>1. PICK f \in Nat : /\ Branch(prev, node, prev', node', f) /\ Allowed(node, trouble, f)
                       /\ WithinReach(node') /\ NodeOnly
  BY <1>0, NodeForks
<1>2. prev \in Seq(Nat) /\ node \in Seq(Nat) /\ Linked(prev, node)
  BY <1>0 DEF CType, NodeInv
<1>3. prev' \in Seq(Nat) /\ node' \in Seq(Nat) /\ Linked(prev', node')
      /\ Len(prev) <= Len(prev') /\ Len(node) <= Len(node') /\ f \in 0..Len(node)
      /\ \A b \in 1..Len(prev) : prev'[b] = prev[b]
  BY <1>1 DEF Branch
<1>4. Len(node) \in Nat /\ Len(node') \in Nat /\ Len(prev) \in Nat /\ Len(prev') \in Nat
  BY <1>2, <1>3
<1>5. /\ trouble' = trouble /\ ppc' = ppc /\ cp' = cp /\ lastHash' = lastHash /\ counter' = counter
      /\ best' = best /\ next' = next /\ files' = files /\ chan' = chan /\ sent' = sent
      /\ running' = running /\ cancelled' = cancelled /\ prevHeight' = prevHeight
      /\ savepoints' = savepoints /\ applied' = applied /\ dbHeight' = dbHeight
  BY <1>1 DEF NodeOnly, parserVars, indexerVars
<1>6. CpHeight' = CpHeight /\ CpHash' = CpHash /\ Taken' = Taken /\ Low' = Low
  BY <1>5 DEF CpHeight, CpHash, Taken, FirstBlocks, Low
<1>7. CType'
  BY <1>0, <1>3, <1>5 DEF CType
<1>8. NodeInv'
  <2>1. InitLen <= Len(node) /\ InitLen \in Nat
    BY <1>0 DEF NodeInv
  <2>2. InitLen <= Len(node')
    BY <1>3, <1>4, <2>1
  <2>3. ASSUME "reorg" \notin trouble, NEW b \in 1..Len(prev') PROVE On(node', b)
    <3>1. CASE b \in 1..Len(prev)
      <4>1. f = Len(node)
        BY <1>1, <2>3 DEF Allowed
      <4>2. On(node, b) /\ b # Genesis
        BY <1>0, <2>3, <3>1 DEF NodeInv, Genesis
      <4>3. PICK h \in 1..Len(node) : node[h] = b
        BY <4>2 DEF On
      <4>4. node'[h] = b /\ h \in 1..Len(node')
        BY <1>1, <1>3, <1>4, <4>1, <4>3 DEF Branch
      <4> QED BY <4>4 DEF On
    <3>2. CASE b \notin 1..Len(prev)
      <4>1. b \in Len(prev) + 1..Len(prev')
        BY <1>4, <3>2
      <4> QED BY <1>1, <4>1 DEF Branch
    <3> QED BY <3>1, <3>2
  <2> QED BY <1>3, <1>5, <2>2, <2>3 DEF NodeInv
<1>9. \A c, low : Stage(prev, node, trouble, c, low) => Stage(prev', node', trouble', c, low)
  <2> SUFFICES ASSUME NEW c, NEW low, Stage(prev, node, trouble, c, low)
               PROVE  Stage(prev', node', trouble, c, low)
    BY <1>5
  <2> QED BY <1>1, <1>2, StageKept
<1>10. AppliedInv'
  <2>1. Stage(prev', node', trouble', applied', Low')
    BY <1>0, <1>5, <1>6, <1>9 DEF AppliedInv
  <2> QED BY <1>0, <1>5, <1>6, <2>1 DEF AppliedInv
<1>11. ASSUME ppc # "dead" PROVE running' /\ CheckpointInv' /\ RoundInv'
  <2>1. running /\ CheckpointInv /\ RoundInv
    BY <1>0, <1>11 DEF ParserInv
  <2>2. /\ Taken \in Seq(Nat) /\ Linked(prev, Taken)
        /\ sent \in Seq(Nat) /\ Linked(prev, sent)
        /\ ppc # "files" => CpHeight \in 0..Len(sent)
    <3>1. ppc = "send" => next \in 1..Len(prev) /\ prev[next] = CpHash
      BY <2>1 DEF RoundInv
    <3> QED BY <1>0, <1>11, <2>1, <3>1, TakenIs
  <2>3. CheckpointInv'
    <3>1. sent \o files \in Seq(Nat) /\ Linked(prev, sent \o files)
      BY <1>0, <2>1 DEF CType, CheckpointInv
    <3>2. Linked(prev', sent \o files)
      BY <1>1, <1>2, <3>1, BranchKeeps
    <3>3. CpHeight <= Len(node) => CpHeight <= Len(node')
      <4>1. CpHeight \in Int
        BY <1>0 DEF CpHeight, CType, Checkpoints
      <4> QED BY <1>3, <1>4, <4>1
    <3> QED BY <1>5, <1>6, <2>1, <3>2, <3>3 DEF CheckpointInv
  <2>4. ASSUME NEW h \in 1..Len(sent), ~On(node, sent[h]) PROVE ~On(node', sent[h])
    BY <1>1, <1>2, <2>2, <2>4, BranchKeeps
  <2>5. ASSUME NEW h \in 1..Len(Taken), ~On(node', Taken[h]) PROVE Late(node', h)
    <3>1. KeepsUp
      BY DEF WithinCache
    <3>2. ForkHeight(Taken, node') = Len(Taken) \/ Len(node') <= ForkHeight(Taken, node') + MaxLen
      BY <1>1, <3>1 DEF WithinReach
    <3>3. ForkHeight(Taken, node') \in 0..Len(Taken) /\ ForkHeight(Taken, node') <= Len(node')
          /\ \A i \in 1..ForkHeight(Taken, node') : Taken[i] = node'[i]
      BY <1>3, <2>2, ForkIs
    <3>4. h > ForkHeight(Taken, node')
      <4>1. ASSUME h <= ForkHeight(Taken, node') PROVE FALSE
        <5>1. h \in 1..ForkHeight(Taken, node') /\ h \in 1..Len(node')
          BY <1>4, <3>3, <4>1
        <5>2. Taken[h] = node'[h]
          BY <3>3, <5>1
        <5> QED BY <2>5, <5>1, <5>2 DEF On
      <4> QED BY <3>3, <4>1
    <3>5. h > Len(node') - MaxLen
      <4> DEFINE k == ForkHeight(Taken, node')
      <4>1. k \in Nat /\ k < h /\ (k = Len(Taken) \/ Len(node') <= k + MaxLen)
        BY <3>2, <3>3, <3>4
      <4>2. h \in Nat /\ h <= Len(Taken) /\ MaxLen \in Nat /\ Len(Taken) \in Nat
        BY <2>2
      <4> HIDE DEF k
      <4> QED BY <1>4, <4>1, <4>2
    <3>6. h >= MaxLen
      <4>1. CASE ~On(node, Taken[h])
        BY <2>1, <4>1 DEF RoundInv, Late
      <4>2. CASE On(node, Taken[h])
        <5>1. h > f /\ h <= Len(node)
          BY <1>1, <1>2, <2>2, <2>5, <4>2, BranchKeeps
        <5>2. f # Len(node)
          BY <1>4, <5>1
        <5>3. f >= Len(node) - ReorgDepth /\ InitLen <= Len(node)
          BY <1>1, <5>2 DEF Allowed
        <5>4. ReorgDepth \in Nat /\ MaxLen \in Nat /\ InitLen \in Nat
              /\ ReorgDepth <= MaxLen /\ ReorgDepth + MaxLen <= InitLen + 1
          BY DEF WithinCache
        <5>5. h \in Nat
          BY <2>2
        <5> QED BY <1>3, <1>4, <5>1, <5>3, <5>4, <5>5
      <4> QED BY <4>1, <4>2
    <3> QED BY <3>5, <3>6 DEF Late
  <2>6. RoundInv'
    <3>1. ppc \in {"pop", "fetch", "send"} =>
            InitLen <= best /\ best <= Len(node') /\ counter <= Len(sent) - CpHeight
      <4>1. best \in Nat
        BY <1>0 DEF CType
      <4> QED BY <1>3, <1>4, <2>1, <4>1 DEF RoundInv
    <3>2. ppc = "send" =>
            /\ CpHeight < best /\ next \in 1..Len(prev') /\ prev'[next] = CpHash
            /\ ~cancelled /\ CpHeight < Len(sent) => CpHeight + 1 > best - MaxLen
      <4>1. \A b \in 1..Len(prev) : b \in 1..Len(prev') /\ prev'[b] = prev[b]
        BY <1>3, <1>4
      <4> QED BY <2>1, <4>1 DEF RoundInv
    <3>3. ppc # "files" /\ ~cancelled => \A h \in CpHeight + 1..Len(sent) : ~On(node', sent[h])
      <4> SUFFICES ASSUME ppc # "files", ~cancelled, NEW h \in CpHeight + 1..Len(sent)
                   PROVE  ~On(node', sent[h])
        OBVIOUS
      <4>1. h \in 1..Len(sent)
        BY <2>2
      <4>2. ~On(node, sent[h])
        BY <2>1 DEF RoundInv
      <4> QED BY <2>4, <4>1, <4>2
    <3>4. \A h \in 1..Len(Taken) : ~On(node', Taken[h]) => Late(node', h)
      BY <2>5
    <3> QED BY <1>5, <1>6, <3>1, <3>2, <3>3, <3>4 DEF RoundInv
  <2> QED BY <1>5, <2>1, <2>3, <2>6
<1>12. ParserInv'
  BY <1>5, <1>11 DEF ParserInv
<1>13. PlanInv'
  <2> SUFFICES ASSUME running, ~cancelled
               PROVE  \E plan \in Seq(Seq(Nat)), lows \in Seq(Nat) : IsPlan(plan, lows)'
    BY <1>5 DEF PlanInv
  <2>1. PICK plan \in Seq(Seq(Nat)), lows \in Seq(Nat) : IsPlan(plan, lows)
    BY <1>0 DEF PlanInv
  <2>2. \A j \in 1..Len(chan) + 1 : Stage(prev', node', trouble', plan[j], lows[j])
    BY <1>9, <2>1 DEF IsPlan
  <2>3. ASSUME NEW j \in 1..Len(chan)
        PROVE  Step(node', plan[j], lows[j], chan[j], plan[j + 1], lows[j + 1])
    <3>1. Step(node, plan[j], lows[j], chan[j], plan[j + 1], lows[j + 1])
      BY <2>1 DEF IsPlan
    <3>2. chan[j] \in Event
      BY <1>0 DEF CType
    <3>3. chan[j].tip \in Nat
      BY <3>2 DEF Event
    <3>4. chan[j].tip <= Len(node) => chan[j].tip <= Len(node')
      BY <1>3, <1>4, <3>3
    <3> QED BY <3>1, <3>4 DEF Step
  <2>4. IsPlan(plan, lows)'
    BY <1>5, <1>6, <2>1, <2>2, <2>3 DEF IsPlan
  <2> QED BY <2>1, <2>4
<1> QED BY <1>7, <1>8, <1>10, <1>12, <1>13 DEF ChainInv

----------------------------------------------------------------------------
(* The parser thread sends a block. *)

\* The tables after the event: what may leave the best chain still has a savepoint, also
\* when the cache is cleared or its oldest savepoint is dropped.
LEMMA SendStage ==
  ASSUME NEW p, NEW n \in Seq(Nat), NEW t, NEW c, NEW low, Stage(p, n, t, c, low),
         NEW e \in Event, NEW d, NEW after, Step(n, c, low, e, d, after),
         Linked(p, d), \A h \in 1..Len(d) : ~On(n, d[h]) => Late(n, h)
  PROVE  Stage(p, n, t, d, after) /\ after \in Nat
<1> DEFINE k == e.height
<1>0. /\ c \in Seq(Nat) /\ Len(c) \in Nat /\ Len(c) <= Len(n) /\ Len(n) \in Nat /\ Linked(p, c)
      /\ low \in Nat /\ low <= Len(c) /\ MaxLen \in Nat /\ MaxLen > 0
  BY DEF Stage
<1>1. e.block \in Nat /\ e.tip \in Nat /\ k \in Nat
  BY DEF Event
<1>2. k \in 1..Len(c) + 1 /\ k <= e.tip /\ e.tip <= Len(n)
  BY DEF Step
<1>3. k <= Len(c) => HandleReorgs(e) /\ low < k
  BY DEF Step
<1>4. after = (IF ~HandleReorgs(e) THEN k ELSE IF k - 1 - low = MaxLen THEN low + 1 ELSE low)
  BY DEF Step, LowAfter
<1>5. k - 1 \in 0..Len(c) /\ (k - 1) + 1 = k
  BY <1>0, <1>1, <1>2
<1>6. d \in Seq(Nat) /\ Len(d) = k /\ \A i \in 1..k - 1 : d[i] = c[i]
  <2> DEFINE j == k - 1
             b == e.block
  <2>1. d = Append(FirstBlocks(c, j), b)
    BY DEF Step
  <2>2. j \in 0..Len(c) /\ j + 1 = k /\ b \in Nat
    BY <1>1, <1>5
  <2> HIDE DEF j, b
  <2>3. d \in Seq(Nat) /\ Len(d) = j + 1 /\ \A i \in 1..j : d[i] = c[i]
    <3>1. \A q : LET x == Append(FirstBlocks(c, j), b)
                IN  /\ x \in Seq(Nat) /\ Len(x) = j + 1 /\ x[j + 1] = b
                    /\ \A i \in 1..j : x[i] = c[i]
                    /\ Linked(q, c) /\ b \in 1..Len(q) /\ q[b] = At(c, j) => Linked(q, x)
      BY <1>0, <2>2, Extended
    <3> QED BY <2>1, <3>1
  <2>4. d \in Seq(Nat) /\ Len(d) = k /\ \A i \in 1..j : d[i] = c[i]
    BY <2>2, <2>3
  <2> QED BY <2>4 DEF j
<1>7. HandleReorgs(e) => e.tip >= MaxLen /\ k > e.tip - MaxLen
  BY DEF HandleReorgs
<1>8. ~HandleReorgs(e) => e.tip < MaxLen \/ k <= e.tip - MaxLen
  BY <1>0, <1>1 DEF HandleReorgs
<1>9. low < k
  BY <1>0, <1>1, <1>2, <1>3
<1> HIDE DEF k
<1>10. after \in 0..k
  BY <1>0, <1>1, <1>4, <1>9
<1>11. ASSUME NEW h \in 1..k, ~On(n, d[h]) PROVE h > after
  <2>1. h >= MaxLen /\ h > Len(n) - MaxLen
    BY <1>6, <1>11 DEF Late
  <2>2. HandleReorgs(e)
    <3>1. Len(n) \in Nat /\ k \in Nat /\ e.tip \in Nat /\ e.tip <= Len(n) /\ k <= e.tip
      BY <1>0, <1>1, <1>2
    <3> QED BY <1>8, <2>1, <3>1
  <2>3. h > low
    <3>1. CASE h = k
      BY <1>9, <3>1
    <3>2. CASE h # k
      <4>1. h \in 1..k - 1 /\ h \in 1..Len(c)
        BY <1>0, <1>1, <1>2, <3>2
      <4>2. ~On(n, c[h])
        BY <1>6, <1>11, <4>1
      <4> QED BY <4>1, <4>2 DEF Stage
    <3> QED BY <3>1, <3>2
  <2>4. k - 1 - low = MaxLen => h > low + 1
    BY <1>0, <1>1, <1>2, <2>1
  <2> QED BY <1>4, <2>2, <2>3, <2>4
<1>12. ASSUME "kill" \notin t PROVE after < MaxLen \/ after <= Len(n) - MaxLen
  <2>0. Len(n) \in Nat /\ k \in Nat /\ e.tip \in Nat /\ e.tip <= Len(n) /\ k <= e.tip
    BY <1>0, <1>1, <1>2
  <2>1. low < MaxLen \/ low <= Len(n) - MaxLen
    BY <1>12 DEF Stage, Settled
  <2>2. CASE HandleReorgs(e)
    <3>1. k - 1 - low = MaxLen => low + 1 <= Len(n) - MaxLen
      BY <1>0, <1>1, <1>2
    <3> QED BY <1>4, <2>1, <2>2, <3>1
  <2>3. CASE ~HandleReorgs(e)
    <3>1. after = k
      BY <1>4, <2>3
    <3>2. k < MaxLen \/ k <= Len(n) - MaxLen
      BY <1>8, <2>0, <2>3
    <3> QED BY <3>1, <3>2
  <2> QED BY <2>2, <2>3
<1>13. Len(d) <= Len(n)
  BY <1>0, <1>1, <1>2, <1>6
<1>14. Stage(p, n, t, d, after)
  BY <1>6, <1>10, <1>11, <1>12, <1>13 DEF Stage, Settled
<1>15. after \in Nat
  BY <1>1, <1>10
<1> QED BY <1>14, <1>15

\* A longer channel, and a longer plan.
LEMMA PlanSent ==
  ASSUME CType, NodeInv, NEW e \in Event, running,
         NEW plan \in Seq(Seq(Nat)), NEW lows \in Seq(Nat), IsPlan(plan, lows),
         NEW d, NEW low, low = LowAfter(lows[Len(chan) + 1], e),
         Step(node, sent, lows[Len(chan) + 1], e, d, low),
         Linked(prev, d), \A h \in 1..Len(d) : ~On(node, d[h]) => Late(node, h),
         chan' = Append(chan, e), sent' = d, applied' = applied, savepoints' = savepoints,
         prev' = prev, node' = node, trouble' = trouble
  PROVE  \E plan1 \in Seq(Seq(Nat)), lows1 \in Seq(Nat) : IsPlan(plan1, lows1)'
<1> DEFINE N == Len(chan)
           plan1 == Append(plan, d)
           lows1 == Append(lows, low)
<1>0. node \in Seq(Nat) /\ chan \in Seq(Event) /\ N \in Nat
  BY DEF CType
<1>1. /\ Len(plan) = N + 1 /\ Len(lows) = N + 1
      /\ plan[1] = applied /\ lows[1] = Low /\ plan[N + 1] = sent
  BY DEF IsPlan
<1>2. /\ \A j \in 1..N + 1 : Stage(prev, node, trouble, plan[j], lows[j])
      /\ \A j \in 1..N : Step(node, plan[j], lows[j], chan[j], plan[j + 1], lows[j + 1])
  BY DEF IsPlan
<1>3. Stage(prev, node, trouble, d, low) /\ low \in Nat
  <2>1. N + 1 \in 1..N + 1
    BY <1>0
  <2>2. Stage(prev, node, trouble, sent, lows[N + 1])
    BY <1>1, <1>2, <2>1
  <2> QED BY <1>0, <2>2, SendStage
<1>4. d \in Seq(Nat)
  BY <1>3 DEF Stage
<1>5. /\ chan' \in Seq(Event) /\ Len(chan') = N + 1 /\ chan'[N + 1] = e
      /\ \A j \in 1..N : chan'[j] = chan[j]
  BY <1>0
<1> HIDE DEF N
<1>6. /\ plan1 \in Seq(Seq(Nat)) /\ Len(plan1) = N + 2 /\ plan1[N + 2] = d
      /\ \A j \in 1..N + 1 : plan1[j] = plan[j]
  BY <1>0, <1>1, <1>4
<1>7. /\ lows1 \in Seq(Nat) /\ Len(lows1) = N + 2 /\ lows1[N + 2] = low
      /\ \A j \in 1..N + 1 : lows1[j] = lows[j]
  BY <1>0, <1>1, <1>3
<1> HIDE DEF plan1, lows1
<1>8. ASSUME NEW j \in 1..N + 2 PROVE Stage(prev, node, trouble, plan1[j], lows1[j])
  <2>1. CASE j = N + 2
    BY <1>3, <1>6, <1>7, <2>1
  <2>2. CASE j # N + 2
    <3>1. j \in 1..N + 1
      BY <1>0, <2>2
    <3>2. plan1[j] = plan[j] /\ lows1[j] = lows[j]
      BY <1>6, <1>7, <3>1
    <3>3. Stage(prev, node, trouble, plan[j], lows[j])
      BY <1>2, <3>1
    <3> QED BY <3>2, <3>3
  <2> QED BY <2>1, <2>2
<1>9. ASSUME NEW j \in 1..N + 1
      PROVE  Step(node, plan1[j], lows1[j], chan'[j], plan1[j + 1], lows1[j + 1])
  <2>0. plan1[j] = plan[j] /\ lows1[j] = lows[j]
    BY <1>6, <1>7
  <2>1. CASE j = N + 1
    <3>1. j + 1 = N + 2
      BY <1>0, <2>1
    <3>2. plan1[j] = sent /\ lows1[j] = lows[N + 1] /\ chan'[j] = e
          /\ plan1[j + 1] = d /\ lows1[j + 1] = low
      BY <1>1, <1>5, <1>6, <1>7, <2>0, <2>1, <3>1
    <3>3. Step(node, sent, lows[N + 1], e, d, low)
      BY DEF N
    <3> QED BY <3>2, <3>3
  <2>2. CASE j # N + 1
    <3>1. j \in 1..N /\ j + 1 \in 1..N + 1
      BY <1>0, <2>2
    <3>2. chan'[j] = chan[j] /\ plan1[j + 1] = plan[j + 1] /\ lows1[j + 1] = lows[j + 1]
      BY <1>5, <1>6, <1>7, <3>1
    <3>3. Step(node, plan[j], lows[j], chan[j], plan[j + 1], lows[j + 1])
      BY <1>2, <3>1
    <3> QED BY <2>0, <3>2, <3>3
  <2> QED BY <2>1, <2>2
<1>10. (N + 1) + 1 = N + 2 /\ 1 \in 1..N + 1
  BY <1>0
<1>11. plan1[1] = applied /\ lows1[1] = Low
  BY <1>1, <1>6, <1>7, <1>10
<1>12. Low' = Low
  BY DEF Low
<1>13. IsPlan(plan1, lows1)'
  BY <1>5, <1>6, <1>7, <1>8, <1>9, <1>10, <1>11, <1>12 DEF IsPlan
<1> QED BY <1>6, <1>7, <1>13

----------------------------------------------------------------------------
(* The other steps of the parser thread. *)

LEMMA CheckpointsOf ==
  ASSUME NEW c \in Checkpoints, NEW s \in Seq(Nat)
  PROVE  LET d == [c EXCEPT !.ids = s]
         IN  d \in Checkpoints /\ d.base = c.base /\ d.ids = s
BY DEF Checkpoints

\* A step that neither sends a block nor forgets that the token is cancelled.
LEMMA QuietFrame ==
  ASSUME ChainInv, ppc # "dead", InParser, chan' = chan, sent' = sent,
         cancelled' = cancelled \/ cancelled' = TRUE, CType', ParserInv'
  PROVE  ChainInv'
<1>0. CType /\ NodeInv /\ AppliedInv /\ ParserInv /\ PlanInv
  BY DEF ChainInv
<1>1. /\ prev' = prev /\ node' = node /\ trouble' = trouble /\ running' = running
      /\ prevHeight' = prevHeight /\ savepoints' = savepoints /\ applied' = applied
      /\ dbHeight' = dbHeight
  BY DEF InParser, nodeVars, indexerVars
<1>2. running
  BY <1>0 DEF ParserInv
<1>3. NodeInv'
  BY <1>0, <1>1 DEF NodeInv
<1>4. Low' = Low
  BY <1>1 DEF Low
<1>5. AppliedInv'
  BY <1>0, <1>1, <1>2, <1>4 DEF AppliedInv
<1>6. PlanInv'
  <2> SUFFICES ASSUME ~cancelled'
               PROVE  \E plan \in Seq(Seq(Nat)), lows \in Seq(Nat) : IsPlan(plan, lows)'
    BY DEF PlanInv
  <2>1. ~cancelled
    BY <1>0 DEF CType
  <2>2. PICK plan \in Seq(Seq(Nat)), lows \in Seq(Nat) : IsPlan(plan, lows)
    BY <1>0, <1>2, <2>1 DEF PlanInv
  <2>3. IsPlan(plan, lows)'
    BY <1>1, <1>4, <2>2 DEF IsPlan
  <2> QED BY <2>3
<1> QED BY <1>3, <1>5, <1>6 DEF ChainInv

LEMMA DyingStep ==
  ASSUME ChainInv, ppc # "dead", InParser, Dies, cancelled' = cancelled \/ cancelled' = TRUE
  PROVE  ChainInv'
<1>0. CType
  BY DEF ChainInv
<1>1. /\ prev' = prev /\ node' = node /\ trouble' = trouble /\ running' = running
      /\ prevHeight' = prevHeight /\ savepoints' = savepoints /\ applied' = applied
  BY DEF InParser, nodeVars, indexerVars
<1>2. /\ ppc' = "dead" /\ cp' = cp /\ lastHash' = lastHash /\ counter' = counter /\ best' = best
      /\ next' = next /\ files' = files /\ chan' = chan /\ sent' = sent
  BY DEF Dies
<1>3. cancelled' \in BOOLEAN
  BY <1>0 DEF CType
<1>4. CType'
  BY <1>0, <1>1, <1>2, <1>3 DEF CType
<1>5. ParserInv'
  BY <1>2 DEF ParserInv
<1> QED BY <1>2, <1>4, <1>5, QuietFrame

\* A step between two states of the parser's loop: no checkpoint and no block changes.
LEMMA LoopStep ==
  ASSUME ChainInv, ppc \in {"files", "poll", "pop", "fetch", "send"}, InParser,
         UNCHANGED <<cp, lastHash, files, chan, sent, cancelled>>,
         ppc' \in {"poll", "pop", "fetch", "send"}, counter' \in Nat, best' \in Nat, next' \in Nat,
         ppc = "files" => files = <<>>,
         CheckpointInv' => RoundInv'
  PROVE  ChainInv'
<1>0. CType /\ ParserInv /\ ppc # "dead"
  BY DEF ChainInv
<1>1. /\ prev' = prev /\ node' = node /\ trouble' = trouble /\ running' = running
      /\ prevHeight' = prevHeight /\ savepoints' = savepoints /\ applied' = applied
  BY DEF InParser, nodeVars, indexerVars
<1>2. /\ cp' = cp /\ lastHash' = lastHash /\ files' = files /\ chan' = chan /\ sent' = sent
      /\ cancelled' = cancelled
  OBVIOUS
<1>3. ppc' \in {"files", "poll", "pop", "fetch", "send", "dead"}
  OBVIOUS
<1>4. CType'
  BY <1>0, <1>1, <1>2, <1>3 DEF CType
<1>5. running /\ CheckpointInv /\ RoundInv
  BY <1>0 DEF ParserInv
<1>6. CpHeight' = CpHeight /\ CpHash' = CpHash
  BY <1>2 DEF CpHeight, CpHash
<1>7. files = <<>> /\ lastHash = CpHash
  <2>1. CASE ppc = "files"
    <3>1. files = <<>> /\ lastHash = Tip(sent) /\ CpHeight = Len(sent \o files)
      BY <1>5, <2>1 DEF CheckpointInv
    <3>2. sent \o files = sent /\ sent \in Seq(Nat)
      BY <1>0, <3>1 DEF CType
    <3>3. Tip(sent) = At(sent, Len(sent))
      BY <3>2, TipIs
    <3>4. ppc = "send" => next \in 1..Len(prev) /\ prev[next] = CpHash
      BY <1>5 DEF RoundInv
    <3>5. CpHash = At(sent \o files, CpHeight)
      BY <1>0, <1>5, <3>4, TakenIs
    <3> QED BY <3>1, <3>2, <3>3, <3>5
  <2>2. CASE ppc # "files"
    BY <1>5, <2>2 DEF CheckpointInv
  <2> QED BY <2>1, <2>2
<1>8. CheckpointInv'
  <2>1. Linked(prev, sent \o files) /\ CpHeight <= Len(sent \o files)
        /\ \A i \in 1..Len(cp.ids) : cp.ids[i] = At(sent \o files, cp.base + i - 1)
    BY <1>5 DEF CheckpointInv
  <2>2. ppc' # "files"
    OBVIOUS
  <2> QED BY <1>1, <1>2, <1>6, <1>7, <2>1, <2>2 DEF CheckpointInv
<1>9. ParserInv'
  BY <1>1, <1>5, <1>8 DEF ParserInv
<1> QED BY <1>0, <1>2, <1>4, <1>9, QuietFrame

\* What the parser has read when it is not about to send.
LEMMA Reading ==
  ASSUME CType, CheckpointInv, RoundInv, ppc # "dead"
  PROVE  /\ Taken \in Seq(Nat) /\ Linked(prev, Taken)
         /\ sent \in Seq(Nat) /\ Linked(prev, sent) /\ Len(sent) \in Nat
         /\ CpHeight \in 0..Len(sent \o files) /\ CpHash = At(sent \o files, CpHeight)
         /\ ppc # "files" => CpHeight \in 0..Len(sent) /\ CpHash = At(sent, CpHeight)
         /\ ppc # "send" => Taken = sent \o files
         /\ ppc # "files" => files = <<>>
         /\ files = <<>> => sent \o files = sent
         /\ ppc = "send" => Taken = Append(FirstBlocks(sent, CpHeight), next)
<1>1. ppc = "send" => next \in 1..Len(prev) /\ prev[next] = CpHash
  BY DEF RoundInv
<1>2. ppc # "files" => files = <<>>
  BY DEF CheckpointInv
<1>3. ppc # "send" => Taken = sent \o files
  BY DEF Taken
<1>4. ppc = "send" => Taken = Append(FirstBlocks(sent, CpHeight), next)
  BY DEF Taken
<1>5. files = <<>> => sent \o files = sent
  BY DEF CType
<1>6. sent \in Seq(Nat) /\ Len(sent) \in Nat
  BY DEF CType
<1> QED BY <1>1, <1>2, <1>3, <1>4, <1>5, <1>6, TakenIs

LEMMA LoopSteps ==
  ASSUME ChainInv, FilesDone \/ Poll \/ ForkFound \/ Fetch \/ RoundDone
  PROVE  ChainInv'
<1>0. CType /\ NodeInv /\ ParserInv
  BY DEF ChainInv
<1>1. ppc # "dead"
  BY DEF FilesDone, Poll, ForkFound, Fetch, RoundDone
<1>2. running /\ CheckpointInv /\ RoundInv
  BY <1>0, <1>1 DEF ParserInv
<1>3. /\ Taken \in Seq(Nat) /\ sent \in Seq(Nat) /\ Len(sent) \in Nat
      /\ ppc # "files" => CpHeight \in 0..Len(sent) /\ CpHash = At(sent, CpHeight)
      /\ ppc # "send" => Taken = sent \o files
      /\ ppc # "files" => files = <<>>
      /\ files = <<>> => sent \o files = sent
  BY <1>0, <1>1, <1>2, Reading
<1>4. ppc # "send" /\ (ppc = "files" => files = <<>>)
  BY DEF FilesDone, Poll, ForkFound, Fetch, RoundDone
<1>5. Taken = sent
  BY <1>3, <1>4
<1>6. InParser /\ UNCHANGED <<cp, lastHash, files, chan, sent, cancelled>>
  BY DEF FilesDone, Poll, ForkFound, Fetch, RoundDone, NoFault
<1>7. cp' = cp /\ lastHash' = lastHash /\ files' = files /\ sent' = sent /\ cancelled' = cancelled
      /\ node' = node /\ prev' = prev
  BY <1>6 DEF InParser, nodeVars
<1>8. CpHeight' = CpHeight /\ CpHash' = CpHash
  BY <1>7 DEF CpHeight, CpHash
<1>9. Len(node) \in Nat /\ InitLen <= Len(node) /\ InitLen \in Nat /\ best \in Nat /\ next \in Nat
      /\ counter \in Nat /\ node \in Seq(Nat) /\ Linked(prev, node)
  BY <1>0 DEF CType, NodeInv
<1>10. \A h \in 1..Len(sent) : ~On(node, sent[h]) => Late(node, h)
  BY <1>2, <1>5 DEF RoundInv
<1>11. ppc \in {"files", "poll", "pop", "fetch", "send"}
  BY <1>0, <1>1 DEF CType
<1>12. CASE FilesDone
  <2>1. ppc' = "poll" /\ counter' = counter /\ best' = best /\ next' = next /\ ppc = "files"
        /\ files = <<>>
    BY <1>12 DEF FilesDone
  <2>2. CpHeight = Len(sent)
    BY <1>2, <1>3, <2>1 DEF CheckpointInv
  <2>3. Taken' = sent
    BY <1>3, <1>7, <2>1 DEF Taken
  <2>4. RoundInv'
    <3>1. \A h \in CpHeight + 1..Len(sent) : FALSE
      BY <1>3, <2>2
    <3> QED BY <1>7, <1>8, <1>10, <2>1, <2>3, <3>1 DEF RoundInv
  <2>5. counter' \in Nat /\ best' \in Nat /\ next' \in Nat /\ ppc' \in {"poll", "pop", "fetch", "send"}
    BY <1>9, <2>1
  <2> QED BY <1>4, <1>6, <1>11, <2>4, <2>5, LoopStep
<1>13. ASSUME ppc # "files", ~cancelled, NEW h \in CpHeight + 1..Len(sent)
       PROVE  ~On(node, sent[h])
  BY <1>2, <1>13 DEF RoundInv
<1>14. CASE Poll
  <2>1. ppc' = "pop" /\ counter' = 0 /\ best' = Len(node) /\ next' = next /\ ppc = "poll"
    BY <1>14 DEF Poll
  <2>2. Taken' = sent
    BY <1>3, <1>7, <2>1 DEF Taken
  <2>3. 0 <= Len(sent) - CpHeight
    BY <1>3, <2>1
  <2>4. RoundInv'
    BY <1>7, <1>8, <1>9, <1>10, <1>13, <2>1, <2>2, <2>3 DEF RoundInv
  <2>5. counter' \in Nat /\ best' \in Nat /\ next' \in Nat /\ ppc' \in {"poll", "pop", "fetch", "send"}
    BY <1>9, <2>1
  <2> QED BY <1>4, <1>6, <1>11, <2>4, <2>5, LoopStep
<1>15. CASE ForkFound
  <2>1. ppc' = "fetch" /\ counter' = counter /\ best' = best /\ next' = next /\ ppc = "pop"
    BY <1>15 DEF ForkFound
  <2>2. Taken' = sent
    BY <1>3, <1>7, <2>1 DEF Taken
  <2>3. InitLen <= best /\ best <= Len(node) /\ counter <= Len(sent) - CpHeight
    BY <1>2, <2>1 DEF RoundInv
  <2>4. RoundInv'
    BY <1>7, <1>8, <1>9, <1>10, <1>13, <2>1, <2>2, <2>3 DEF RoundInv
  <2>5. counter' \in Nat /\ best' \in Nat /\ next' \in Nat /\ ppc' \in {"poll", "pop", "fetch", "send"}
    BY <1>9, <2>1
  <2> QED BY <1>4, <1>6, <1>11, <2>4, <2>5, LoopStep
<1>16. CASE RoundDone
  <2>1. ppc' = "poll" /\ counter' = counter /\ best' = best /\ next' = next /\ ppc = "fetch"
    BY <1>16 DEF RoundDone
  <2>2. Taken' = sent
    BY <1>3, <1>7, <2>1 DEF Taken
  <2>4. RoundInv'
    BY <1>7, <1>8, <1>9, <1>10, <1>13, <2>1, <2>2 DEF RoundInv
  <2>5. counter' \in Nat /\ best' \in Nat /\ next' \in Nat /\ ppc' \in {"poll", "pop", "fetch", "send"}
    BY <1>9, <2>1
  <2> QED BY <1>4, <1>6, <1>11, <2>4, <2>5, LoopStep
<1>17. CASE Fetch
  <2>1. ppc = "fetch" /\ CpHeight < best /\ counter' = counter /\ best' = best
    BY <1>17 DEF Fetch, Behind
  <2>2. InitLen <= best /\ best <= Len(node) /\ counter <= Len(sent) - CpHeight
    BY <1>2, <2>1 DEF RoundInv
  <2>3. CpHeight \in 0..Len(sent)
    BY <1>3, <2>1
  <2>4. CpHeight + 1 \in 1..Len(node)
    BY <1>9, <2>1, <2>2, <2>3
  <2> DEFINE b == node[CpHeight + 1]
  <2>5. CASE Continues(b)
    <3>1. ppc' = "send" /\ next' = b
      BY <1>17, <2>5 DEF Fetch
    <3>2. b \in 1..Len(prev) /\ prev[b] = CpHash /\ b \in Nat
      BY <1>9, <2>4, <2>5 DEF Linked, Continues
    <3>3. On(node, b)
      BY <2>4 DEF On
    <3> HIDE DEF b
    <3>4. Taken' = Append(FirstBlocks(sent, CpHeight), b)
      <4>1. FirstBlocks(sent, CpHeight)' = FirstBlocks(sent, CpHeight)
        BY <1>7, <1>8 DEF FirstBlocks
      <4> QED BY <3>1, <4>1 DEF Taken
    <3>5. /\ Len(Taken') = CpHeight + 1 /\ Taken'[CpHeight + 1] = b
          /\ \A i \in 1..CpHeight : Taken'[i] = sent[i]
      <4> DEFINE x == Append(FirstBlocks(sent, CpHeight), b)
      <4>1. Linked(prev, sent)
        BY <1>0, <1>1, <1>2, Reading
      <4>2. Len(x) = CpHeight + 1 /\ x[CpHeight + 1] = b /\ \A i \in 1..CpHeight : x[i] = sent[i]
        BY <1>3, <2>3, <3>2, <4>1, Extended
      <4> HIDE DEF x
      <4>3. Taken' = x
        BY <3>4 DEF x
      <4> QED BY <4>2, <4>3
    <3>6. ASSUME NEW h \in 1..Len(Taken'), ~On(node, Taken'[h]) PROVE Late(node, h)
      <4>1. h # CpHeight + 1
        BY <3>3, <3>5, <3>6
      <4>2. h \in 1..CpHeight /\ h \in 1..Len(sent)
        BY <1>3, <2>3, <3>5, <4>1
      <4>3. ~On(node, sent[h])
        BY <3>5, <3>6, <4>2
      <4> QED BY <1>10, <4>2, <4>3
    <3>7. ASSUME ~cancelled, CpHeight < Len(sent) PROVE CpHeight + 1 > best - MaxLen
      <4>1. CpHeight + 1 \in CpHeight + 1..Len(sent) /\ CpHeight + 1 \in 1..Len(sent)
        BY <1>3, <2>3, <3>7
      <4>2. ~On(node, sent[CpHeight + 1])
        BY <1>13, <2>1, <3>7, <4>1
      <4>3. Late(node, CpHeight + 1)
        BY <1>10, <4>1, <4>2
      <4>4. MaxLen \in Nat
        OBVIOUS
      <4> QED BY <1>9, <2>2, <2>3, <4>3, <4>4 DEF Late
    <3>8. ASSUME ~cancelled, NEW h \in CpHeight + 1..Len(sent) PROVE ~On(node, sent[h])
      BY <1>13, <2>1, <3>8
    <3>9. RoundInv'
      BY <1>7, <1>8, <2>1, <2>2, <3>1, <3>2, <3>6, <3>7, <3>8 DEF RoundInv
    <3>10. counter' \in Nat /\ best' \in Nat /\ next' \in Nat
           /\ ppc' \in {"poll", "pop", "fetch", "send"}
      BY <1>9, <2>1, <3>1, <3>2
    <3> QED BY <1>4, <1>6, <1>11, <3>9, <3>10, LoopStep
  <2>6. CASE ~Continues(b)
    <3>1. ppc' = "poll" /\ next' = next
      BY <1>17, <2>6 DEF Fetch
    <3>2. Taken' = sent
      BY <1>3, <1>7, <2>1, <3>1 DEF Taken
    <3>3. RoundInv'
      BY <1>7, <1>8, <1>9, <1>10, <1>13, <2>1, <3>1, <3>2 DEF RoundInv
    <3>4. counter' \in Nat /\ best' \in Nat /\ next' \in Nat
          /\ ppc' \in {"poll", "pop", "fetch", "send"}
      BY <1>9, <2>1, <3>1
    <3> QED BY <1>4, <1>6, <1>11, <3>3, <3>4, LoopStep
  <2> QED BY <2>5, <2>6
<1> QED BY <1>12, <1>14, <1>15, <1>16, <1>17

LEMMA OnIs ==
  ASSUME CType, NEW b
  PROVE  OnBestChain(b) <=> On(node, b)
<1>1. DOMAIN node = 1..Len(node)
  BY DEF CType
<1> QED BY <1>1 DEF OnBestChain, On

\* One checkpoint back: the block that is left behind is an orphan, unless an error was
\* taken for one, and then nothing is handled any more.
LEMMA PopStep ==
  ASSUME ChainInv, PopCheckpoint, InParser, files' = files,
         cancelled' = TRUE \/ (cancelled' = cancelled /\ ~OnBestChain(CpHash))
  PROVE  ChainInv'
<1>0. CType /\ NodeInv /\ ParserInv /\ ppc = "pop"
  BY DEF ChainInv, PopCheckpoint
<1>1. /\ prev' = prev /\ node' = node /\ trouble' = trouble /\ running' = running
      /\ prevHeight' = prevHeight /\ savepoints' = savepoints /\ applied' = applied
  BY DEF InParser, nodeVars, indexerVars
<1>2. /\ counter' = counter + 1 /\ best' = best /\ next' = next /\ chan' = chan /\ sent' = sent
      /\ files' = files
  BY DEF PopCheckpoint
<1>3. running /\ CheckpointInv /\ RoundInv
  BY <1>0 DEF ParserInv
<1> DEFINE ids == cp.ids
           N == Len(ids)
<1>4. /\ counter \in Nat /\ counter' \in Nat /\ cancelled' \in BOOLEAN /\ best \in Nat
      /\ cp \in Checkpoints /\ cp.base \in Nat /\ ids \in Seq(Nat) /\ N \in Nat /\ N >= 1
  <2>1. counter \in Nat /\ best \in Nat /\ cp \in Checkpoints /\ Len(cp.ids) >= 1 /\ cancelled \in BOOLEAN
    BY <1>0 DEF CType
  <2>2. cp.base \in Nat /\ cp.ids \in Seq(Nat)
    BY <2>1 DEF Checkpoints
  <2>3. counter' \in Nat
    BY <1>2, <2>1
  <2>4. cancelled' \in BOOLEAN
    BY <2>1
  <2> QED BY <2>1, <2>2, <2>3, <2>4
<1>5. CASE Len(cp.ids) = 1
  <2>1. ppc' = "dead" /\ cp' = cp /\ lastHash' = lastHash
    BY <1>5 DEF PopCheckpoint
  <2>2. CType'
    BY <1>0, <1>1, <1>2, <1>4, <2>1 DEF CType
  <2>3. ParserInv'
    BY <2>1 DEF ParserInv
  <2> QED BY <1>0, <1>2, <2>2, <2>3, QuietFrame
<1>6. CASE Len(cp.ids) # 1
  <2> DEFINE l == Len(cp.ids) - 1
             s == SubSeq(cp.ids, 1, l)
  <2>1. ppc' = "pop" /\ cp' = [cp EXCEPT !.ids = s] /\ lastHash' = cp.ids[l]
    BY <1>0, <1>6 DEF PopCheckpoint
  <2>2. l \in 1..N /\ l \in Nat /\ N = l + 1 /\ l >= 1
    <3>1. N # 1 /\ l = N - 1
      BY <1>6
    <3> HIDE DEF N, l
    <3> QED BY <1>4, <3>1
  <2> HIDE DEF l
  <2>3. s \in Seq(Nat) /\ Len(s) = l /\ \A i \in 1..l : s[i] = ids[i]
    <3>1. s = SubSeq(ids, 1, l) /\ N = Len(ids)
      OBVIOUS
    <3> HIDE DEF ids, N, s
    <3> QED BY <1>4, <2>2, <3>1
  <2> HIDE DEF s
  <2>4. cp' \in Checkpoints /\ cp'.base = cp.base /\ cp'.ids = s
    BY <1>4, <2>1, <2>3, CheckpointsOf
  <2>5. CpHeight = cp.base + l /\ CpHeight' = cp.base + l - 1 /\ CpHash' = s[l] /\ CpHash' = lastHash'
    <3>1. CpHeight = cp.base + l
      BY <1>4, <2>2 DEF CpHeight
    <3>2. CpHeight' = cp.base + l - 1
      BY <2>3, <2>4 DEF CpHeight
    <3>3. CpHash' = s[l]
      BY <2>3, <2>4 DEF CpHash
    <3>4. s[l] = cp.ids[l]
      BY <2>2, <2>3
    <3> QED BY <2>1, <3>1, <3>2, <3>3, <3>4
  <2>6. lastHash' \in Nat
    <3>1. l \in 1..Len(s)
      BY <2>2, <2>3
    <3>2. s[l] \in Nat
      BY <2>3, <3>1
    <3> QED BY <2>5, <3>2
  <2>7. Len(cp'.ids) >= 1
    BY <2>2, <2>3, <2>4
  <2>8. CType'
    BY <1>0, <1>1, <1>2, <1>4, <2>1, <2>4, <2>6, <2>7 DEF CType
  <2>9. /\ sent \in Seq(Nat) /\ Len(sent) \in Nat /\ CpHeight \in 0..Len(sent)
        /\ CpHash = At(sent, CpHeight) /\ files = <<>> /\ sent \o files = sent /\ Taken = sent
    BY <1>0, <1>3, Reading
  <2>10. CheckpointInv'
    <3>1. Linked(prev, sent) /\ \A i \in 1..Len(cp.ids) : cp.ids[i] = At(sent, cp.base + i - 1)
      BY <1>3, <2>9 DEF CheckpointInv
    <3>2. CpHeight' <= Len(sent)
      BY <1>4, <2>2, <2>5, <2>9
    <3>3. ASSUME NEW i \in 1..l PROVE s[i] = At(sent, cp.base + i - 1)
      <4>1. i \in 1..Len(cp.ids)
        BY <2>2
      <4> QED BY <2>3, <3>1, <4>1
    <3>4. \A i \in 1..Len(cp'.ids) : cp'.ids[i] = At(sent, cp'.base + i - 1)
      BY <2>3, <2>4, <3>3
    <3>5. sent' \o files' = sent
      BY <1>2, <2>9
    <3> QED BY <1>1, <1>2, <2>1, <2>5, <2>9, <3>1, <3>2, <3>4, <3>5 DEF CheckpointInv
  <2>11. RoundInv'
    <3>1. InitLen <= best /\ best <= Len(node) /\ counter <= Len(sent) - CpHeight
      BY <1>0, <1>3 DEF RoundInv
    <3>2. counter' <= Len(sent) - CpHeight'
      <4>1. CpHeight' = CpHeight - 1
        BY <1>4, <2>2, <2>5
      <4>2. CpHeight \in Int
        BY <2>9
      <4> HIDE DEF ids, N
      <4> QED BY <1>2, <1>4, <2>9, <3>1, <4>1, <4>2
    <3>3. Taken' = sent
      BY <1>2, <2>1, <2>9 DEF Taken
    <3>4. \A h \in 1..Len(sent) : ~On(node, sent[h]) => Late(node, h)
      BY <1>3, <2>9 DEF RoundInv
    <3>5. ASSUME ~cancelled', NEW h \in CpHeight' + 1..Len(sent) PROVE ~On(node, sent[h])
      <4>0. ~cancelled /\ ~On(node, CpHash)
        BY <1>0, <3>5, OnIs
      <4>1. CASE h = CpHeight
        <5>1. CpHeight # 0
          BY <1>4, <2>2, <2>5
        <5>2. CpHash = sent[h]
          BY <2>9, <4>1, <5>1 DEF At
        <5> QED BY <4>0, <5>2
      <4>2. CASE h # CpHeight
        <5>0. CpHeight' = CpHeight - 1 /\ CpHeight \in Int
          BY <1>4, <2>2, <2>5, <2>9, SMTT(30)
        <5>1. h \in CpHeight + 1..Len(sent)
          BY <4>2, <5>0
        <5> QED BY <1>0, <1>3, <4>0, <5>1 DEF RoundInv
      <4> QED BY <4>1, <4>2
    <3> QED BY <1>1, <1>2, <2>1, <3>1, <3>2, <3>3, <3>4, <3>5 DEF RoundInv
  <2>12. ParserInv'
    BY <1>1, <1>3, <2>10, <2>11 DEF ParserInv
  <2>13. cancelled' = cancelled \/ cancelled' = TRUE
    OBVIOUS
  <2> QED BY <1>0, <1>2, <2>8, <2>12, <2>13, QuietFrame
<1> QED BY <1>5, <1>6

LEMMA PopAndDie ==
  ASSUME ChainInv, PopOrphan \/ PopOnError \/ TooLong \/ RpcPanic \/ SeesCancel
  PROVE  ChainInv'
<1>1. CASE PopOrphan
  <2>1. PopCheckpoint /\ InParser /\ cancelled' = cancelled /\ ~OnBestChain(CpHash)
    BY <1>1 DEF PopOrphan, NoFault
  <2>2. files' = files
    BY <2>1 DEF PopCheckpoint
  <2> QED BY <2>1, <2>2, PopStep
<1>2. CASE PopOnError
  <2>1. PopCheckpoint /\ InParser /\ cancelled' = TRUE
    BY <1>2 DEF PopOnError
  <2>2. files' = files
    BY <2>1 DEF PopCheckpoint
  <2> QED BY <2>1, <2>2, PopStep
<1>3. CASE TooLong
  <2>1. ppc # "dead" /\ InParser /\ Dies /\ cancelled' = cancelled
    BY <1>3 DEF TooLong, NoFault
  <2> QED BY <2>1, DyingStep
<1>4. CASE RpcPanic
  <2>1. ppc # "dead" /\ InParser /\ Dies /\ cancelled' = TRUE
    BY <1>4 DEF RpcPanic
  <2> QED BY <2>1, DyingStep
<1>5. CASE SeesCancel
  <2>1. ppc # "dead" /\ InParser /\ Dies /\ cancelled' = cancelled
    BY <1>5 DEF SeesCancel, NoFault
  <2> QED BY <2>1, DyingStep
<1> QED BY <1>1, <1>2, <1>3, <1>4, <1>5

----------------------------------------------------------------------------
(* A block is sent: the event continues the plan. *)

LEMMA SendFrame ==
  ASSUME ChainInv, ppc # "dead", InParser, NoFault, NEW e \in Event, NEW d,
         chan' = Append(chan, e), sent' = d, d = Append(FirstBlocks(sent, e.height - 1), e.block),
         Linked(prev, d), \A h \in 1..Len(d) : ~On(node, d[h]) => Late(node, h),
         e.height \in 1..Len(sent) + 1, e.height <= e.tip, e.tip <= Len(node),
         e.reorgLen <= Len(sent) + 1 - e.height,
         ~cancelled /\ e.height <= Len(sent) => HandleReorgs(e) /\ ~On(node, sent[e.height]),
         CType', ParserInv'
  PROVE  ChainInv'
<1>0. CType /\ NodeInv /\ AppliedInv /\ ParserInv /\ PlanInv
  BY DEF ChainInv
<1>1. /\ prev' = prev /\ node' = node /\ trouble' = trouble /\ running' = running
      /\ prevHeight' = prevHeight /\ savepoints' = savepoints /\ applied' = applied
      /\ dbHeight' = dbHeight /\ cancelled' = cancelled
  BY DEF InParser, nodeVars, indexerVars, NoFault
<1>2. running
  BY <1>0 DEF ParserInv
<1>3. NodeInv'
  BY <1>0, <1>1 DEF NodeInv
<1>4. Low' = Low
  BY <1>1 DEF Low
<1>5. AppliedInv'
  BY <1>0, <1>1, <1>2, <1>4 DEF AppliedInv
<1>6. PlanInv'
  <2> SUFFICES ASSUME ~cancelled
               PROVE  \E plan \in Seq(Seq(Nat)), lows \in Seq(Nat) : IsPlan(plan, lows)'
    BY <1>1 DEF PlanInv
  <2>1. PICK plan \in Seq(Seq(Nat)), lows \in Seq(Nat) : IsPlan(plan, lows)
    BY <1>0, <1>2 DEF PlanInv
  <2> DEFINE last == lows[Len(chan) + 1]
             low == LowAfter(last, e)
  <2>2. Stage(prev, node, trouble, sent, last)
    <3>1. Len(chan) + 1 \in 1..Len(chan) + 1
      BY <1>0 DEF CType
    <3>2. plan[Len(chan) + 1] = sent
          /\ \A j \in 1..Len(chan) + 1 : Stage(prev, node, trouble, plan[j], lows[j])
      BY <2>1 DEF IsPlan
    <3> QED BY <3>1, <3>2
  <2>3. e.height <= Len(sent) => HandleReorgs(e) /\ last < e.height
    <3> SUFFICES ASSUME e.height <= Len(sent) PROVE HandleReorgs(e) /\ last < e.height
      OBVIOUS
    <3>1. e.height \in 1..Len(sent) /\ HandleReorgs(e) /\ ~On(node, sent[e.height])
      BY <1>0 DEF CType, Event
    <3>2. e.height > last
      BY <2>2, <3>1 DEF Stage
    <3>3. last \in Nat /\ e.height \in Nat
      <4>1. last \in 0..Len(sent)
        BY <2>2 DEF Stage
      <4> QED BY <3>1, <4>1
    <3> QED BY <3>1, <3>2, <3>3
  <2> HIDE DEF last, low
  <2>4. Step(node, sent, last, e, d, low)
    BY <2>3 DEF Step, low
  <2> QED BY <1>0, <1>1, <1>2, <2>1, <2>4, PlanSent DEF last, low
<1> QED BY <1>3, <1>5, <1>6 DEF ChainInv

LEMMA SendNextStep ==
  ASSUME ChainInv, SendNext
  PROVE  ChainInv'
<1>0. CType /\ NodeInv /\ ParserInv /\ ppc = "send" /\ InParser /\ NoFault
  BY DEF ChainInv, SendNext
<1>1. running /\ CheckpointInv /\ RoundInv
  BY <1>0 DEF ParserInv
<1>2. CASE ~InOrder(next)
  <2>1. Dies /\ cancelled' = cancelled
    BY <1>0, <1>2 DEF SendNext, NoFault
  <2> QED BY <1>0, <2>1, DyingStep
<1>3. CASE InOrder(next)
  <2> DEFINE H == CpHeight
             d == Append(FirstBlocks(sent, H), next)
             e == [block |-> next, height |-> H + 1, reorgLen |-> counter, tip |-> best]
             ids == cp.ids
  <2>1. /\ Send(next, H + 1, best) /\ cp' = [cp EXCEPT !.ids = Append(ids, next)]
        /\ counter' = 0 /\ ppc' = "fetch" /\ best' = best /\ next' = next /\ files' = files
    BY <1>3 DEF SendNext
  <2>2. /\ sent \in Seq(Nat) /\ Len(sent) \in Nat /\ H \in 0..Len(sent)
        /\ CpHash = At(sent, H) /\ files = <<>> /\ sent \o files = sent /\ Taken = d
        /\ Linked(prev, sent)
    BY <1>0, <1>1, Reading
  <2>3. /\ InitLen <= best /\ best <= Len(node) /\ counter <= Len(sent) - H
        /\ H < best /\ next \in 1..Len(prev) /\ prev[next] = CpHash
        /\ ~cancelled /\ H < Len(sent) => H + 1 > best - MaxLen
    BY <1>0, <1>1 DEF RoundInv
  <2>4. /\ counter \in Nat /\ best \in Nat /\ next \in Nat /\ cp \in Checkpoints /\ chan \in Seq(Event)
        /\ Len(node) \in Nat /\ cancelled \in BOOLEAN
    BY <1>0 DEF CType
  <2>5. cp.base \in Nat /\ ids \in Seq(Nat) /\ Len(ids) \in Nat /\ Len(ids) >= 1
        /\ H = cp.base + Len(ids) - 1
    BY <1>0 DEF CType, Checkpoints, CpHeight
  <2>6. \A h \in 1..Len(d) : ~On(node, d[h]) => Late(node, h)
    BY <1>1, <2>2 DEF RoundInv
  <2>7. /\ d \in Seq(Nat) /\ Len(d) = H + 1 /\ d[H + 1] = next
        /\ \A i \in 1..H : d[i] = sent[i]
        /\ Linked(prev, d)
    <3>1. prev[next] = At(sent, H)
      BY <2>2, <2>3
    <3>2. /\ sent \in Seq(Nat) /\ H \in 0..Len(sent) /\ Linked(prev, sent)
          /\ next \in Nat /\ next \in 1..Len(prev)
      BY <2>2, <2>3, <2>4
    <3> HIDE DEF H
    <3> QED BY <3>1, <3>2, Extended
  <2>8. e \in Event /\ e.block = next /\ e.height = H + 1 /\ e.reorgLen = counter /\ e.tip = best
    BY <2>2, <2>4 DEF Event
  <2>9. chan' = Append(chan, e) /\ lastHash' = next /\ sent' = d
    <3>1. sent' = Append(FirstBlocks(sent, (H + 1) - 1), next)
      BY <2>1 DEF Send
    <3>2. (H + 1) - 1 = H
      BY <2>2
    <3>3. sent' = d
      BY <3>1, <3>2
    <3> QED BY <2>1, <3>3 DEF Send
  <2>10. InitLen \in Nat /\ MaxLen \in Nat /\ InitLen > MaxLen /\ MaxLen > 0
    OBVIOUS
  <2>11. ~cancelled /\ H + 1 <= Len(sent) =>
            HandleReorgs(e) /\ ~On(node, sent[H + 1])
    <3> SUFFICES ASSUME ~cancelled, H + 1 <= Len(sent)
                 PROVE  HandleReorgs(e) /\ ~On(node, sent[H + 1])
      OBVIOUS
    <3> HIDE DEF H, e
    <3>1. H + 1 > best - MaxLen /\ best >= MaxLen
      BY <2>2, <2>3, <2>4, <2>10
    <3>2. HandleReorgs(e)
      BY <2>8, <3>1 DEF HandleReorgs
    <3>3. H + 1 \in H + 1..Len(sent)
      BY <2>2
    <3>4. ~On(node, sent[H + 1])
      BY <1>0, <1>1, <3>3 DEF RoundInv, H
    <3> QED BY <3>2, <3>4
  <2>12. /\ cp' \in Checkpoints /\ cp'.base = cp.base /\ cp'.ids = Append(ids, next)
    <3>1. Append(ids, next) \in Seq(Nat)
      BY <2>4, <2>5
    <3> HIDE DEF ids
    <3> QED BY <2>1, <2>4, <3>1, CheckpointsOf
  <2> HIDE DEF H, e, d, ids
  <2>13. Len(cp'.ids) = Len(ids) + 1 /\ cp'.ids[Len(ids) + 1] = next
         /\ \A i \in 1..Len(ids) : cp'.ids[i] = ids[i]
    BY <2>4, <2>5, <2>12
  <2>14. CpHeight' = H + 1 /\ CpHash' = next
    BY <2>5, <2>12, <2>13 DEF CpHeight, CpHash
  <2>15. /\ prev' = prev /\ node' = node /\ trouble' = trouble /\ running' = running
         /\ prevHeight' = prevHeight /\ savepoints' = savepoints /\ applied' = applied
         /\ cancelled' = cancelled
    BY <1>0 DEF InParser, nodeVars, indexerVars, NoFault
  <2>16. CType'
    <3>1. chan' \in Seq(Event)
      BY <2>4, <2>8, <2>9
    <3>2. Len(cp'.ids) >= 1 /\ counter' \in Nat
      BY <2>1, <2>5, <2>13
    <3> QED BY <1>0, <2>1, <2>4, <2>7, <2>9, <2>12, <2>15, <3>1, <3>2 DEF CType
  <2>17. d \o <<>> = d
    BY <2>7
  <2>18. CheckpointInv'
    <3>1. \A i \in 1..Len(ids) : ids[i] = At(sent, cp.base + i - 1)
      BY <1>1, <2>2 DEF CheckpointInv, ids
    <3>2. ASSUME NEW i \in 1..Len(cp'.ids) PROVE cp'.ids[i] = At(d, cp'.base + i - 1)
      <4>1. CASE i = Len(ids) + 1
        <5>1. cp'.base + i - 1 = H + 1 /\ H + 1 # 0
          BY <2>2, <2>5, <2>12, <4>1
        <5> QED BY <2>7, <2>13, <4>1, <5>1 DEF At
      <4>2. CASE i # Len(ids) + 1
        <5>1. i \in 1..Len(ids)
          BY <2>5, <2>13, <4>2
        <5>2. cp'.ids[i] = At(sent, cp.base + i - 1)
          BY <2>13, <3>1, <5>1
        <5>3. cp.base + i - 1 \in 0..H
          BY <2>5, <5>1
        <5> DEFINE k == cp.base + i - 1
        <5>4. At(sent, k) = At(d, k)
          <6> HIDE DEF k
          <6>1. CASE k = 0
            BY <6>1 DEF At
          <6>2. CASE k # 0
            <7>1. k \in 1..H
              BY <2>2, <5>3, <6>2 DEF k
            <7> QED BY <2>7, <6>2, <7>1 DEF At
          <6> QED BY <6>1, <6>2
        <5> QED BY <2>12, <5>2, <5>4
      <4> QED BY <4>1, <4>2
    <3>3. sent' \o files' = d
      BY <2>1, <2>2, <2>9, <2>17
    <3>4. CpHeight' <= Len(d)
      BY <2>7, <2>14
    <3> QED BY <2>1, <2>2, <2>7, <2>9, <2>14, <2>15, <3>2, <3>3, <3>4 DEF CheckpointInv
  <2>19. RoundInv'
    <3>1. Taken' = d
      <4>1. Taken' = sent' \o files'
        BY <2>1 DEF Taken
      <4> QED BY <2>1, <2>2, <2>9, <2>17, <4>1
    <3>2. counter' <= Len(sent') - CpHeight'
      BY <2>1, <2>2, <2>7, <2>9, <2>14
    <3>3. \A h \in CpHeight' + 1..Len(sent') : FALSE
      BY <2>2, <2>7, <2>9, <2>14
    <3> QED BY <2>1, <2>3, <2>6, <2>15, <3>1, <3>2, <3>3 DEF RoundInv
  <2>20. ParserInv'
    BY <1>1, <2>15, <2>18, <2>19 DEF ParserInv
  <2>21. e.height \in 1..Len(sent) + 1 /\ e.height <= e.tip /\ e.tip <= Len(node)
         /\ e.reorgLen <= Len(sent) + 1 - e.height
    BY <2>2, <2>3, <2>4, <2>8
  <2>22. d = Append(FirstBlocks(sent, e.height - 1), e.block)
    <3>1. e.height - 1 = H
      BY <2>2, <2>8
    <3> QED BY <2>8, <3>1 DEF d
  <2>23. ~cancelled /\ e.height <= Len(sent) => HandleReorgs(e) /\ ~On(node, sent[e.height])
    BY <2>8, <2>11
  <2> QED BY <1>0, <2>6, <2>7, <2>8, <2>9, <2>16, <2>20, <2>21, <2>22, <2>23, SendFrame
<1> QED BY <1>2, <1>3

\* The first block of the second sequence goes to the end of the first.
LEMMA Shifted ==
  ASSUME NEW a \in Seq(Nat), NEW b \in Seq(Nat), b # <<>>
  PROVE  /\ Append(a, Head(b)) \o Tail(b) = a \o b
         /\ Head(b) \in Nat /\ Tail(b) \in Seq(Nat)
         /\ Len(b) \in Nat /\ Len(b) >= 1 /\ Len(a \o b) = Len(a) + Len(b)
         /\ a \o b \in Seq(Nat)
         /\ \A i \in 1..Len(a) : (a \o b)[i] = a[i]
         /\ (a \o b)[Len(a) + 1] = Head(b)
         /\ SubSeq(a, 1, Len(a)) = a
<1>1. /\ Head(b) \in Nat /\ Tail(b) \in Seq(Nat) /\ Len(b) \in Nat /\ Len(b) >= 1
      /\ Len(Tail(b)) = Len(b) - 1 /\ \A i \in 1..Len(b) - 1 : Tail(b)[i] = b[i + 1]
      /\ Head(b) = b[1] /\ Len(a) \in Nat
  OBVIOUS
<1>2. a \o b \in Seq(Nat) /\ Len(a \o b) = Len(a) + Len(b)
      /\ (\A i \in 1..Len(a) : (a \o b)[i] = a[i])
      /\ \A i \in 1..Len(b) : (a \o b)[Len(a) + i] = b[i]
  BY Joined
<1> DEFINE x == Append(a, Head(b))
           t == Tail(b)
<1>3. x \in Seq(Nat) /\ Len(x) = Len(a) + 1 /\ x[Len(a) + 1] = Head(b)
      /\ \A i \in 1..Len(a) : x[i] = a[i]
  BY <1>1
<1>4. t \in Seq(Nat) /\ Len(t) = Len(b) - 1 /\ \A i \in 1..Len(b) - 1 : t[i] = b[i + 1]
  BY <1>1
<1> HIDE DEF x, t
<1>5. x \o t \in Seq(Nat) /\ Len(x \o t) = Len(x) + Len(t)
      /\ (\A i \in 1..Len(x) : (x \o t)[i] = x[i])
      /\ \A i \in 1..Len(t) : (x \o t)[Len(x) + i] = t[i]
  BY <1>3, <1>4, Joined
<1>6. (a \o b)[Len(a) + 1] = Head(b)
  <2>1. 1 \in 1..Len(b)
    BY <1>1
  <2> QED BY <1>1, <1>2, <2>1
<1>7. Len(x \o t) = Len(a \o b)
  BY <1>1, <1>2, <1>3, <1>4, <1>5
<1>8. ASSUME NEW i \in 1..Len(a \o b) PROVE (x \o t)[i] = (a \o b)[i]
  <2>0. i \in Nat
    BY <1>1, <1>2
  <2>1. CASE i <= Len(a)
    <3>1. i \in 1..Len(a) /\ i \in 1..Len(x)
      BY <1>1, <1>2, <1>3, <2>1
    <3> QED BY <1>2, <1>3, <1>5, <3>1
  <2>2. CASE i = Len(a) + 1
    <3>1. i \in 1..Len(x)
      BY <1>1, <1>3, <2>2
    <3> QED BY <1>3, <1>5, <1>6, <2>2, <3>1
  <2>3. CASE i > Len(a) + 1
    <3> DEFINE j == i - Len(a) - 1
    <3>1. j \in 1..Len(b) - 1 /\ j \in 1..Len(t) /\ j + 1 \in 1..Len(b)
          /\ i = Len(x) + j /\ i = Len(a) + (j + 1)
      BY <1>1, <1>2, <1>3, <1>4, <2>3
    <3> HIDE DEF j
    <3>2. (x \o t)[i] = t[j]
      BY <1>5, <3>1
    <3>3. t[j] = b[j + 1]
      BY <1>4, <3>1
    <3>4. (a \o b)[i] = b[j + 1]
      BY <1>2, <3>1
    <3> QED BY <3>2, <3>3, <3>4
  <2>4. i <= Len(a) \/ i = Len(a) + 1 \/ i > Len(a) + 1
    BY <1>1, <2>0
  <2> QED BY <2>1, <2>2, <2>3, <2>4
<1>9. x \o t = a \o b
  <2> DEFINE l == x \o t
             r == a \o b
  <2>1. l \in Seq(Nat) /\ r \in Seq(Nat) /\ Len(l) = Len(r) /\ \A i \in 1..Len(r) : l[i] = r[i]
    BY <1>2, <1>5, <1>7, <1>8
  <2> HIDE DEF l, r
  <2>2. l = r
    <3>1. l = [i \in 1..Len(l) |-> l[i]] /\ r = [i \in 1..Len(r) |-> r[i]]
      BY <2>1
    <3> QED BY <2>1, <3>1
  <2> QED BY <2>2 DEF l, r
<1>10. SubSeq(a, 1, Len(a)) = a
  OBVIOUS
<1> QED BY <1>1, <1>2, <1>6, <1>9, <1>10 DEF x, t

LEMMA SendFromFilesStep ==
  ASSUME ChainInv, SendFromFiles
  PROVE  ChainInv'
<1>0. CType /\ NodeInv /\ ParserInv /\ ppc = "files" /\ InParser /\ NoFault /\ files # <<>>
  BY DEF ChainInv, SendFromFiles
<1>1. running /\ CheckpointInv /\ RoundInv
  BY <1>0 DEF ParserInv
<1>2. CASE ~InOrder(Head(files))
  <2>1. Dies /\ cancelled' = cancelled
    BY <1>0, <1>2 DEF SendFromFiles, NoFault
  <2> QED BY <1>0, <2>1, DyingStep
<1>3. CASE InOrder(Head(files))
  <2> DEFINE N == Len(sent)
             b == Head(files)
             R == sent \o files
             d == Append(sent, b)
             H == CpHeight
             e == [block |-> b, height |-> H - Len(files) + 1, reorgLen |-> counter, tip |-> H]
  <2>1. /\ Send(b, H - Len(files) + 1, H) /\ files' = Tail(files) /\ ppc' = ppc /\ cp' = cp
        /\ counter' = counter /\ best' = best /\ next' = next
    BY <1>3 DEF SendFromFiles
  <2>2. /\ sent \in Seq(Nat) /\ files \in Seq(Nat) /\ chan \in Seq(Event) /\ N \in Nat
        /\ Len(node) \in Nat /\ cp \in Checkpoints
    BY <1>0 DEF CType
  <2>3. /\ d \o Tail(files) = R /\ b \in Nat /\ Tail(files) \in Seq(Nat)
        /\ Len(files) \in Nat /\ Len(files) >= 1 /\ Len(R) = N + Len(files) /\ R \in Seq(Nat)
        /\ (\A i \in 1..N : R[i] = sent[i]) /\ R[N + 1] = b
        /\ SubSeq(sent, 1, N) = sent
    BY <1>0, <2>2, Shifted
  <2>4. counter = 0 /\ lastHash = Tip(sent) /\ H = Len(R) /\ H <= Len(node) /\ Linked(prev, R)
    BY <1>0, <1>1 DEF CheckpointInv
  <2>5. Taken = R /\ Linked(prev, sent)
    BY <1>0, <1>1, Reading
  <2>6. FirstBlocks(sent, N) = sent
    BY <2>2, <2>3 DEF FirstBlocks
  <2>7. H - Len(files) + 1 = N + 1 /\ (H - Len(files) + 1) - 1 = N /\ H \in Nat
    BY <2>2, <2>3, <2>4
  <2>8. N + 1 \in 1..Len(R)
    BY <2>2, <2>3
  <2>9. b \in 1..Len(prev) /\ prev[b] = At(sent, N)
    <3>1. R[N + 1] \in 1..Len(prev) /\ prev[R[N + 1]] = (IF N + 1 = 1 THEN Genesis ELSE R[(N + 1) - 1])
      BY <2>4, <2>8 DEF Linked
    <3>2. CASE N = 0
      BY <2>3, <3>1, <3>2 DEF At
    <3>3. CASE N # 0
      <4>1. (N + 1) - 1 = N /\ N + 1 # 1 /\ N \in 1..N
        BY <2>2, <3>3
      <4>2. R[N] = sent[N]
        BY <2>3, <4>1
      <4> HIDE DEF N, R, b
      <4> QED BY <2>3, <3>1, <3>3, <4>1, <4>2 DEF At
    <3> QED BY <3>2, <3>3
  <2>10. /\ d \in Seq(Nat) /\ Len(d) = N + 1 /\ d[N + 1] = b
         /\ \A i \in 1..N : d[i] = sent[i]
         /\ Linked(prev, d)
    <3>1. N \in 0..Len(sent)
      BY <2>2
    <3> DEFINE x == Append(FirstBlocks(sent, N), b)
    <3>2. x = d
      BY <2>6
    <3>3. /\ x \in Seq(Nat) /\ Len(x) = N + 1 /\ x[N + 1] = b
          /\ \A i \in 1..N : x[i] = sent[i]
          /\ Linked(prev, x)
      <4>1. b \in Nat /\ N \in 0..Len(sent) /\ sent \in Seq(Nat) /\ Linked(prev, sent)
            /\ b \in 1..Len(prev) /\ prev[b] = At(sent, N)
        BY <2>2, <2>3, <2>5, <2>9, <3>1
      <4> HIDE DEF N, b
      <4> QED BY <4>1, Extended
    <3> HIDE DEF x, d
    <3> QED BY <3>2, <3>3
  <2>11. chan' = Append(chan, e) /\ lastHash' = b /\ sent' = d
    <3>1. sent' = Append(FirstBlocks(sent, (H - Len(files) + 1) - 1), b)
      BY <2>1 DEF Send
    <3>2. sent' = d
      BY <2>6, <2>7, <3>1
    <3> QED BY <2>1, <3>2 DEF Send
  <2>12. counter \in Nat
    BY <1>0 DEF CType
  <2>13. e \in Event /\ e.block = b /\ e.height = N + 1 /\ e.reorgLen = counter /\ e.tip = H
    <3>1. e.height = N + 1
      BY <2>7
    <3>2. H - Len(files) + 1 \in Nat
      BY <2>2, <2>7
    <3> HIDE DEF H, b
    <3>3. e \in Event
      BY <2>3, <2>7, <2>12, <3>2 DEF Event
    <3> QED BY <3>1, <3>3
  <2> HIDE DEF N, b, R, d, H, e
  <2>14. d \o files' = R
    BY <2>1, <2>3
  <2>15. ASSUME NEW i \in 1..N + 1 PROVE d[i] = R[i]
    <3>1. CASE i = N + 1
      BY <2>3, <2>10, <3>1
    <3>2. CASE i # N + 1
      <4>1. i \in 1..N
        BY <2>2, <3>2
      <4> QED BY <2>3, <2>10, <4>1
    <3> QED BY <3>1, <3>2
  <2>16. ASSUME NEW h \in 1..Len(d), ~On(node, d[h]) PROVE Late(node, h)
    <3>1. h \in 1..N + 1 /\ h \in 1..Len(R)
      BY <2>2, <2>8, <2>10
    <3>2. ~On(node, R[h])
      BY <2>15, <2>16, <3>1
    <3> QED BY <1>1, <2>5, <3>1, <3>2 DEF RoundInv
  <2>17. /\ prev' = prev /\ node' = node /\ trouble' = trouble /\ running' = running
         /\ prevHeight' = prevHeight /\ savepoints' = savepoints /\ applied' = applied
         /\ cancelled' = cancelled
    BY <1>0 DEF InParser, nodeVars, indexerVars, NoFault
  <2>18. CType'
    <3>1. chan' \in Seq(Event)
      BY <2>2, <2>11, <2>13
    <3> QED BY <1>0, <2>1, <2>3, <2>10, <2>11, <2>17, <3>1 DEF CType
  <2>19. CpHeight' = H /\ CpHash' = CpHash
    BY <2>1 DEF CpHeight, CpHash, H
  <2>20. Tip(d) = b
    <3>1. Tip(d) = At(d, Len(d))
      BY <2>10, TipIs
    <3>2. Len(d) # 0
      BY <2>2, <2>10
    <3> QED BY <2>10, <3>1, <3>2 DEF At
  <2>21. CheckpointInv'
    <3>1. H <= Len(R) /\ \A i \in 1..Len(cp.ids) : cp.ids[i] = At(R, cp.base + i - 1)
      BY <1>1 DEF CheckpointInv, H, R
    <3>2. sent' \o files' = R
      BY <2>11, <2>14
    <3> QED BY <1>0, <2>1, <2>4, <2>11, <2>17, <2>19, <2>20, <3>1, <3>2 DEF CheckpointInv
  <2>22. RoundInv'
    <3>1. Taken' = R
      <4>1. Taken' = sent' \o files'
        BY <1>0, <2>1 DEF Taken
      <4> QED BY <2>11, <2>14, <4>1
    <3> QED BY <1>0, <1>1, <2>1, <2>5, <2>17, <3>1 DEF RoundInv
  <2>23. ParserInv'
    BY <1>1, <2>17, <2>21, <2>22 DEF ParserInv
  <2>24. e.height \in 1..Len(sent) + 1 /\ e.height <= e.tip /\ e.tip <= Len(node)
         /\ e.reorgLen <= Len(sent) + 1 - e.height
    <3>1. N + 1 \in 1..N + 1 /\ N + 1 <= H /\ 0 <= N + 1 - (N + 1)
      BY <2>2, <2>4, <2>8
    <3> QED BY <2>4, <2>13, <3>1 DEF N
  <2>25. d = Append(FirstBlocks(sent, e.height - 1), e.block)
    <3>1. e.height - 1 = N
      BY <2>2, <2>13
    <3> QED BY <2>6, <2>13, <3>1 DEF d
  <2>26. ~(e.height <= Len(sent))
    <3>1. ~(N + 1 <= N)
      BY <2>2
    <3> QED BY <2>13, <3>1 DEF N
  <2> QED BY <1>0, <2>10, <2>11, <2>13, <2>16, <2>18, <2>23, <2>24, <2>25, <2>26, SendFrame
<1> QED BY <1>2, <1>3

----------------------------------------------------------------------------
(* The reorg cache: the savepoints are the last blocks of the tables, without a gap. *)

Contiguous(s, low) == s \in Seq(Nat) /\ \A i \in 1..Len(s) : s[i] = low + i

LEMMA KeptIs ==
  ASSUME NEW s, NEW low \in Nat, Contiguous(s, low),
         NEW target \in Nat, low <= target, target <= low + Len(s)
  PROVE  LET r == Kept(s, target)
         IN  Contiguous(r, low) /\ Len(r) = target - low
<1> DEFINE m == target - low
           Good(n) == (n > 0 => s[n] <= target) /\ \A i \in n + 1..Len(s) : s[i] > target
           left == CHOOSE n \in 0..Len(s) : Good(n)
<1>0. s \in Seq(Nat) /\ Len(s) \in Nat /\ \A i \in 1..Len(s) : s[i] = low + i
  BY DEF Contiguous
<1>1. m \in 0..Len(s) /\ m \in Nat /\ low + m = target
  BY <1>0
<1> HIDE DEF m
<1>2. Good(m)
  BY <1>0, <1>1
<1>3. ASSUME NEW n \in 0..Len(s), Good(n) PROVE n = m
  <2>1. n \in Nat
    BY <1>0
  <2>2. CASE n < m
    <3>1. m \in n + 1..Len(s) /\ m \in 1..Len(s)
      BY <1>0, <1>1, <2>1, <2>2
    <3>2. s[m] > target /\ s[m] = target
      BY <1>0, <1>1, <1>3, <3>1
    <3> QED BY <3>2
  <2>3. CASE n > m
    <3>1. n \in 1..Len(s) /\ n > 0
      BY <1>0, <1>1, <2>1, <2>3
    <3>2. low + n <= target
      BY <1>0, <1>3, <3>1
    <3> QED BY <1>1, <2>1, <2>3, <3>2
  <2> QED BY <1>1, <2>1, <2>2, <2>3
<1>4. left \in 0..Len(s) /\ Good(left)
  BY <1>1, <1>2
<1>5. left = m
  <2> HIDE DEF left, Good
  <2> QED BY <1>3, <1>4
<1>6. Kept(s, target) = SubSeq(s, 1, m)
  <2> HIDE DEF m
  <2>1. Kept(s, target) = SubSeq(s, 1, left)
    BY DEF Kept
  <2> QED BY <1>5, <2>1
<1> DEFINE r == SubSeq(s, 1, m)
<1>7. r \in Seq(Nat) /\ Len(r) = m /\ \A i \in 1..m : r[i] = s[i]
  BY <1>0, <1>1
<1>8. Contiguous(r, low)
  <2> HIDE DEF r
  <2>1. ASSUME NEW i \in 1..m PROVE r[i] = low + i
    <3>1. i \in 1..Len(s)
      BY <1>0, <1>1
    <3> QED BY <1>0, <1>7, <3>1
  <2> QED BY <1>7, <2>1 DEF Contiguous
<1> HIDE DEF r
<1>9. Contiguous(r, low) /\ Len(r) = target - low
  BY <1>7, <1>8 DEF m
<1> QED BY <1>6, <1>9 DEF r

LEMMA SavedIs ==
  ASSUME NEW s, NEW low \in Nat, Contiguous(s, low), NEW e \in Event, HandleReorgs(e),
         e.height = low + Len(s) + 1
  PROVE  /\ Contiguous(Saved(s, e), LowAfter(low, e))
         /\ Len(Saved(s, e)) = e.height - LowAfter(low, e)
         /\ LowAfter(low, e) \in Nat
<1> DEFINE k == e.height
           N == Len(s)
<1>0. s \in Seq(Nat) /\ N \in Nat /\ (\A i \in 1..N : s[i] = low + i) /\ k = low + N + 1 /\ k \in Nat
      /\ k - 1 - low = N /\ MaxLen \in Nat /\ MaxLen > 0
  BY DEF Contiguous, Event
<1>1. CASE N = MaxLen
  <2>1. LowAfter(low, e) = low + 1
    BY <1>0, <1>1 DEF LowAfter
  <2>2. Saved(s, e) = Append(Tail(s), k)
    BY <1>1 DEF Saved
  <2> DEFINE t == Tail(s)
             r == Append(t, k)
  <2>3. t \in Seq(Nat) /\ Len(t) = N - 1 /\ \A i \in 1..N - 1 : t[i] = s[i + 1]
    <3>1. s # <<>>
      BY <1>0, <1>1
    <3> QED BY <1>0, <3>1
  <2> HIDE DEF t
  <2>9. N \in Nat /\ N > 0 /\ N - 1 \in Nat /\ (N - 1) + 1 = N
    BY <1>0, <1>1
  <2>4. r \in Seq(Nat) /\ Len(r) = N /\ r[N] = k /\ \A i \in 1..N - 1 : r[i] = t[i]
    <3> HIDE DEF k, N
    <3>1. r \in Seq(Nat) /\ Len(r) = (N - 1) + 1 /\ r[(N - 1) + 1] = k
          /\ \A i \in 1..N - 1 : r[i] = t[i]
      BY <1>0, <2>3, <2>9
    <3> QED BY <2>9, <3>1
  <2> HIDE DEF r
  <2>5. ASSUME NEW i \in 1..N PROVE r[i] = (low + 1) + i
    <3>1. CASE i = N
      <4>1. k = (low + 1) + N
        BY <1>0
      <4> QED BY <2>4, <3>1, <4>1
    <3>2. CASE i # N
      <4>1. i \in 1..N - 1 /\ i + 1 \in 1..N
        <5> HIDE DEF N
        <5> QED BY <2>9, <3>2
      <4>2. r[i] = low + (i + 1)
        BY <1>0, <2>3, <2>4, <4>1
      <4> QED BY <4>2
    <3> QED BY <3>1, <3>2
  <2>6. Contiguous(r, low + 1) /\ Len(r) = k - (low + 1) /\ low + 1 \in Nat
    <3>1. N = k - (low + 1)
      BY <1>0
    <3> QED BY <2>4, <2>5, <3>1 DEF Contiguous
  <2>7. Saved(s, e) = r
    BY <2>2 DEF r, t
  <2> QED BY <2>1, <2>6, <2>7
<1>2. CASE N # MaxLen
  <2>1. LowAfter(low, e) = low
    BY <1>0, <1>2 DEF LowAfter
  <2>2. Saved(s, e) = Append(s, k)
    BY <1>2 DEF Saved
  <2> DEFINE r == Append(s, k)
  <2>3. r \in Seq(Nat) /\ Len(r) = N + 1 /\ r[N + 1] = k /\ \A i \in 1..N : r[i] = s[i]
    BY <1>0
  <2> HIDE DEF r
  <2>4. ASSUME NEW i \in 1..N + 1 PROVE r[i] = low + i
    <3>1. CASE i = N + 1
      <4>1. k = low + (N + 1)
        BY <1>0
      <4> QED BY <2>3, <3>1, <4>1
    <3>2. CASE i # N + 1
      <4>1. i \in 1..N
        BY <1>0, <3>2
      <4> QED BY <1>0, <2>3, <4>1
    <3> QED BY <3>1, <3>2
  <2>5. Contiguous(r, low) /\ Len(r) = k - low
    <3>1. N + 1 = k - low
      BY <1>0
    <3> QED BY <2>3, <2>4, <3>1 DEF Contiguous
  <2>6. Saved(s, e) = r
    BY <2>2 DEF r
  <2> QED BY <2>1, <2>5, <2>6
<1> QED BY <1>1, <1>2

\* What the loop makes of the next event of the plan: the cache is cleared only in front of
\* a block that extends the tables; either the block continues what the reorg leaves, and
\* the plan is followed, or everything that has a savepoint is undone.
Cleared(e) == IF HandleReorgs(e) THEN savepoints ELSE <<>>
Left(e) == IF e.reorgLen > 0 THEN Kept(Cleared(e), RestoreHeight(e)) ELSE Cleared(e)

LEMMA HandleEventIs ==
  ASSUME CType, AppliedInv, NEW e \in Event, NEW d, NEW after,
         Step(node, applied, Low, e, d, after)
  PROVE  \/ Misplaced(Left(e), e) /\ Cleared(e) = savepoints
         \/ /\ ~Misplaced(Left(e), e)
            /\ Append(Undone(applied, Len(Cleared(e)) - Len(Left(e))), e.block) = d
            /\ Contiguous(Saved(Left(e), e), after) /\ after \in Nat
            /\ Len(Saved(Left(e), e)) = e.height - after
<1> DEFINE L == Len(applied)
           k == e.height
           n == e.reorgLen
           S == savepoints
<1>0. /\ applied \in Seq(Nat) /\ L \in Nat /\ S \in Seq(Nat) /\ Len(S) \in Nat
      /\ prevHeight \in Nat
  BY DEF CType
<1>1. Low \in 0..L /\ Low \in Nat /\ Low = L - Len(S) /\ Contiguous(S, Low)
  <2>1. Low \in 0..L
    BY DEF AppliedInv, Stage
  <2>2. \A i \in 1..Len(S) : S[i] = Low + i
    BY DEF AppliedInv
  <2> QED BY <1>0, <2>1, <2>2 DEF Low, Contiguous
<1>2. k \in Nat /\ n \in Nat /\ e.block \in Nat /\ e.tip \in Nat
  BY DEF Event
<1>3. /\ k \in 1..L + 1 /\ n <= L + 1 - k
      /\ k <= L => HandleReorgs(e) /\ Low < k
      /\ d = Append(FirstBlocks(applied, k - 1), e.block)
      /\ after = LowAfter(Low, e)
  BY DEF Step
<1>4. S # <<>> => prevHeight = L
  BY DEF AppliedInv
<1>5. k - 1 \in 0..L /\ FirstBlocks(applied, k - 1) = SubSeq(applied, 1, k - 1)
  <2>1. k - 1 \in 0..L
    BY <1>0, <1>2, <1>3
  <2>2. (IF k - 1 < L THEN k - 1 ELSE L) = k - 1
    BY <1>0, <1>2, <2>1
  <2> QED BY <2>1, <2>2 DEF FirstBlocks
\* The savepoints that are left end right below the block.
<1>6. ASSUME NEW s, s = Left(e), Contiguous(s, Low), Low + Len(s) = k - 1, HandleReorgs(e),
             Len(S) - Len(s) = L - (k - 1)
      PROVE  /\ ~Misplaced(s, e)
             /\ Append(Undone(applied, Len(S) - Len(s)), e.block) = d
             /\ Contiguous(Saved(s, e), after) /\ after \in Nat
             /\ Len(Saved(s, e)) = k - after
  <2>0. s \in Seq(Nat) /\ Len(s) \in Nat /\ \A i \in 1..Len(s) : s[i] = Low + i
    BY <1>6 DEF Contiguous
  <2>1. ~Misplaced(s, e)
    <3>1. CASE s = <<>>
      BY <3>1 DEF Misplaced
    <3>2. CASE s # <<>>
      <4>1. Len(s) \in 1..Len(s)
        BY <2>0, <3>2
      <4>2. s[Len(s)] = k - 1
        BY <1>6, <2>0, <4>1
      <4>3. s[Len(s)] + 1 = e.height
        BY <1>2, <4>2
      <4> QED BY <4>3 DEF Misplaced
    <3> QED BY <3>1, <3>2
  <2>2. Append(Undone(applied, Len(S) - Len(s)), e.block) = d
    <3>1. L - (Len(S) - Len(s)) = k - 1
      <4>1. L \in Nat /\ k \in Nat
        BY <1>0, <1>2
      <4>2. Len(S) - Len(s) = L - (k - 1)
        BY <1>6
      <4> HIDE DEF L, k, S
      <4> QED BY <4>1, <4>2
    <3>2. Undone(applied, Len(S) - Len(s)) = SubSeq(applied, 1, k - 1)
      BY <3>1 DEF Undone
    <3> QED BY <1>3, <1>5, <3>2
  <2>3. e.height = Low + Len(s) + 1
    <3>1. k \in Nat /\ Low \in Nat /\ Len(s) \in Nat /\ Low + Len(s) = k - 1
      BY <1>1, <1>2, <1>6, <2>0
    <3> HIDE DEF k
    <3>2. k = Low + Len(s) + 1
      BY <3>1
    <3> QED BY <3>2 DEF k
  <2>4. /\ Contiguous(Saved(s, e), LowAfter(Low, e))
        /\ Len(Saved(s, e)) = e.height - LowAfter(Low, e) /\ LowAfter(Low, e) \in Nat
    BY <1>1, <1>6, <2>3, SavedIs
  <2> QED BY <1>3, <2>1, <2>2, <2>4
<1>7. CASE k = L + 1
  <2>1. n = 0
    BY <1>0, <1>2, <1>3, <1>7
  <2>2. Left(e) = Cleared(e)
    BY <2>1 DEF Left
  <2>3. CASE HandleReorgs(e)
    <3>1. Cleared(e) = S
      BY <2>3 DEF Cleared
    <3>2. Low + Len(S) = k - 1 /\ Len(S) - Len(S) = L - (k - 1)
      BY <1>0, <1>1, <1>2, <1>7
    <3> HIDE DEF S, L, k
    <3>3. S = Left(e)
      BY <2>2, <3>1
    <3>4. /\ ~Misplaced(S, e)
          /\ Append(Undone(applied, Len(S) - Len(S)), e.block) = d
          /\ Contiguous(Saved(S, e), after) /\ after \in Nat
          /\ Len(Saved(S, e)) = k - after
      BY <1>1, <1>6, <2>3, <3>2, <3>3
    <3> QED BY <2>2, <3>1, <3>4 DEF k
  <2>4. CASE ~HandleReorgs(e)
    <3>1. Cleared(e) = <<>>
      BY <2>4 DEF Cleared
    <3>2. Left(e) = <<>>
      BY <2>2, <3>1
    <3>3. ~Misplaced(<<>>, e)
      BY DEF Misplaced
    <3>4. after = k
      BY <1>3, <2>4 DEF LowAfter
    <3>5. Saved(<<>>, e) = <<>>
      BY <2>4 DEF Saved
    <3>6. Contiguous(<<>>, after)
      BY DEF Contiguous
    <3>7. k - 1 = L
      BY <1>0, <1>7
    <3>8. Undone(applied, 0) = SubSeq(applied, 1, k - 1)
      <4>1. Undone(applied, 0) = SubSeq(applied, 1, L)
        BY <1>0 DEF Undone
      <4> HIDE DEF L, k
      <4> QED BY <3>7, <4>1
    <3>9. Append(Undone(applied, 0), e.block) = d
      BY <1>3, <1>5, <3>8
    <3>10. Len(<<>>) = 0 /\ Len(<<>>) - Len(<<>>) = 0 /\ k - k = 0
      BY <1>2
    <3> QED BY <1>2, <3>1, <3>2, <3>3, <3>4, <3>5, <3>6, <3>9, <3>10
  <2> QED BY <2>3, <2>4
<1>8. CASE k # L + 1
  <2>1. k <= L /\ HandleReorgs(e) /\ Low < k
    BY <1>0, <1>2, <1>3, <1>8
  <2>2. Cleared(e) = S
    BY <2>1 DEF Cleared
  <2>3. S # <<>>
    BY <1>0, <1>1, <1>2, <2>1
  <2>4. prevHeight = L
    BY <1>4, <2>3
  <2>5. RestoreHeight(e) = L - n
    <3>1. prevHeight >= n
      BY <1>0, <1>2, <1>3, <2>4
    <3> QED BY <2>4, <3>1 DEF RestoreHeight
  <2>6. CASE n = 0
    <3>1. Left(e) = S
      BY <2>2, <2>6 DEF Left
    <3>2. Len(S) \in 1..Len(S) /\ Low + Len(S) = L
      BY <1>0, <1>1, <2>3
    <3>3. S[Len(S)] = L
      BY <1>1, <3>2 DEF Contiguous
    <3>4. S[Len(S)] + 1 # e.height
      BY <1>8, <3>3
    <3> HIDE DEF S
    <3>5. Misplaced(S, e)
      BY <2>3, <3>4 DEF Misplaced
    <3> QED BY <2>2, <3>1, <3>5 DEF S
  <2>7. CASE n # 0
    <3> DEFINE s == Kept(S, L - n)
    <3>1. Left(e) = s
      <4>1. n > 0
        BY <1>2, <2>7
      <4> QED BY <2>2, <2>5, <4>1 DEF Left
    <3>2. L - n \in Nat /\ Low <= L - n /\ L - n <= Low + Len(S) /\ L - n >= k - 1
      <4>1. /\ L \in Nat /\ n \in Nat /\ k \in Nat /\ Low \in Nat /\ Len(S) \in Nat
            /\ k <= L /\ n <= L + 1 - k /\ Low < k /\ Low = L - Len(S) /\ k >= 1
        BY <1>0, <1>1, <1>2, <1>3, <2>1
      <4>2. n >= 1
        BY <1>2, <2>7
      <4> HIDE DEF L, k, n, S
      <4> QED BY <4>1, <4>2
    <3>3. Contiguous(s, Low) /\ Len(s) = (L - n) - Low
      <4> DEFINE t == L - n
      <4>1. t \in Nat /\ Low <= t /\ t <= Low + Len(S)
        BY <3>2
      <4>0. Contiguous(S, Low) /\ Low \in Nat
        BY <1>1
      <4> HIDE DEF t, S
      <4>2. Contiguous(Kept(S, t), Low) /\ Len(Kept(S, t)) = t - Low
        BY <4>0, <4>1, KeptIs
      <4> QED BY <4>2 DEF t
    <3> HIDE DEF s, S
    <3>4. CASE L - n = k - 1
      <4>1. Low + Len(s) = k - 1 /\ Len(S) - Len(s) = L - (k - 1)
        <5>1. /\ L \in Nat /\ n \in Nat /\ k \in Nat /\ Low \in Nat /\ Len(S) \in Nat
              /\ L - n = k - 1 /\ Len(s) = (L - n) - Low /\ Low = L - Len(S)
          BY <1>0, <1>1, <1>2, <3>3, <3>4
        <5> HIDE DEF L, k, n
        <5> QED BY <5>1
      <4>2. /\ ~Misplaced(s, e)
            /\ Append(Undone(applied, Len(S) - Len(s)), e.block) = d
            /\ Contiguous(Saved(s, e), after) /\ after \in Nat
            /\ Len(Saved(s, e)) = k - after
        <5> HIDE DEF L, k
        <5> QED BY <1>6, <2>1, <3>1, <3>3, <4>1
      <4> QED BY <2>2, <3>1, <4>2
    <3>5. CASE L - n # k - 1
      <4>0. Len(s) \in Nat /\ s \in Seq(Nat) /\ \A i \in 1..Len(s) : s[i] = Low + i
        BY <3>3 DEF Contiguous
      <4>1. Len(s) > 0
        <5>1. L \in Nat /\ n \in Nat /\ k \in Nat /\ Low \in Nat /\ Low < k /\ L - n >= k - 1
              /\ L - n # k - 1 /\ Len(s) = (L - n) - Low
          BY <1>0, <1>1, <1>2, <2>1, <3>2, <3>3, <3>5
        <5> HIDE DEF L, k, n
        <5> QED BY <5>1
      <4>2. Len(s) \in 1..Len(s) /\ s # <<>>
        BY <4>0, <4>1
      <4>3. s[Len(s)] = L - n
        <5>1. s[Len(s)] = Low + Len(s)
          BY <4>0, <4>2
        <5> QED BY <1>0, <1>1, <1>2, <3>3, <5>1
      <4>4. s[Len(s)] + 1 # e.height
        BY <1>0, <1>2, <3>5, <4>3
      <4>5. Misplaced(s, e)
        BY <4>2, <4>4 DEF Misplaced
      <4> QED BY <2>2, <3>1, <4>5 DEF S
    <3> QED BY <3>4, <3>5
  <2> QED BY <2>6, <2>7
<1> QED BY <1>7, <1>8

----------------------------------------------------------------------------
(* The indexer loop. *)

\* Everything that has a savepoint is undone: what is left cannot leave the best chain.
LEMMA UndoneStage ==
  ASSUME NEW p, NEW n, NEW t, NEW c, NEW low, Stage(p, n, t, c, low), Len(n) \in Nat,
         NEW d, d = SubSeq(c, 1, low)
  PROVE  Stage(p, n, t, d, low)
<1>1. c \in Seq(Nat) /\ Linked(p, c) /\ Len(c) <= Len(n) /\ low \in 0..Len(c) /\ Len(c) \in Nat
  BY DEF Stage
<1>2. d \in Seq(Nat) /\ Len(d) = low /\ \A h \in 1..low : d[h] = c[h]
  BY <1>1
<1>3. Linked(p, d)
  <2> SUFFICES ASSUME NEW h \in 1..low
               PROVE  d[h] \in 1..Len(p) /\ p[d[h]] = (IF h = 1 THEN Genesis ELSE d[h - 1])
    BY <1>2 DEF Linked
  <2>1. h \in 1..Len(c) /\ d[h] = c[h] /\ (h # 1 => h - 1 \in 1..low)
    BY <1>1, <1>2
  <2>2. h # 1 => d[h - 1] = c[h - 1]
    BY <1>2, <2>1
  <2> QED BY <1>1, <2>1, <2>2 DEF Linked
<1>4. ASSUME NEW h \in 1..low, ~On(n, d[h]) PROVE h > low
  <2>1. h \in 1..Len(c) /\ ~On(n, c[h])
    BY <1>1, <1>2, <1>4
  <2> QED BY <2>1 DEF Stage
<1>5. Len(d) <= Len(n) /\ low \in 0..Len(d)
  BY <1>1, <1>2
<1>6. "kill" \notin t => Settled(n, low)
  BY DEF Stage
<1> QED BY <1>2, <1>3, <1>4, <1>5, <1>6 DEF Stage

\* The empty channel and the empty cache.
LEMMA NoEvents == <<>> \in Seq(Event) /\ <<>> \in Seq(Nat)
OBVIOUS

LEMMA ExitStep ==
  ASSUME ChainInv, running, Exit(savepoints), UNCHANGED nodeVars, cancelled' = cancelled
  PROVE  ChainInv' /\ Len(applied') <= Len(applied) /\ applied' = SubSeq(applied, 1, Len(applied'))
<1>0. CType /\ NodeInv /\ AppliedInv
  BY DEF ChainInv
<1>1. prev' = prev /\ node' = node /\ trouble' = trouble
  BY DEF nodeVars
<1>2. /\ savepoints' = <<>> /\ running' = FALSE /\ ppc' = "dead" /\ chan' = <<>>
      /\ prevHeight' = prevHeight /\ cp' = cp /\ lastHash' = lastHash /\ counter' = counter
      /\ best' = best /\ next' = next /\ files' = files /\ sent' = sent
  BY DEF Exit
<1>3. applied \in Seq(Nat) /\ savepoints \in Seq(Nat) /\ Len(applied) \in Nat
      /\ Len(savepoints) \in Nat /\ Len(node) \in Nat
  BY <1>0 DEF CType
<1>4. Stage(prev, node, trouble, applied, Low) /\ dbHeight = Len(applied)
      /\ \A i \in 1..Len(savepoints) : savepoints[i] = Low + i
  BY <1>0 DEF AppliedInv
<1>5. Low \in 0..Len(applied) /\ Low = Len(applied) - Len(savepoints)
  BY <1>4 DEF Stage, Low
<1>6. applied' = SubSeq(applied, 1, Low)
  BY DEF Exit, Undone, Low
<1>7. Stage(prev, node, trouble, applied', Low) /\ Len(applied') = Low /\ applied' \in Seq(Nat)
  <2>1. Len(node) \in Nat /\ Stage(prev, node, trouble, applied, Low)
    BY <1>3, <1>4
  <2>2. Stage(prev, node, trouble, applied', Low)
    BY <1>6, <2>1, UndoneStage
  <2>3. Len(applied') = Low /\ applied' \in Seq(Nat)
    <3>1. applied \in Seq(Nat) /\ Low \in 0..Len(applied)
      BY <1>3, <1>5
    <3> HIDE DEF Low
    <3> QED BY <1>6, <3>1
  <2> QED BY <2>2, <2>3
<1>8. dbHeight' = Low
  <2>1. dbHeight' = HeightAfter(savepoints, Len(savepoints))
    BY DEF Exit
  <2>2. CASE Len(savepoints) = 0
    BY <1>3, <1>4, <1>5, <2>1, <2>2 DEF HeightAfter
  <2>3. CASE Len(savepoints) # 0
    <3>1. 1 \in 1..Len(savepoints) /\ Len(savepoints) - Len(savepoints) + 1 = 1
      BY <1>3, <2>3
    <3>2. dbHeight' = savepoints[1] - 1
      BY <2>1, <2>3, <3>1 DEF HeightAfter
    <3>3. savepoints[1] = Low + 1
      BY <1>4, <3>1
    <3> QED BY <1>3, <1>5, <3>2, <3>3
  <2> QED BY <2>2, <2>3
<1>9. Low' = Low
  <2>1. Len(savepoints') = 0
    BY <1>2
  <2>2. Low' = Len(applied') - 0
    BY <2>1 DEF Low
  <2> QED BY <1>3, <1>5, <1>7, <2>2
<1>10. CType'
  BY <1>0, <1>1, <1>2, <1>7, NoEvents DEF CType
<1>11. NodeInv'
  BY <1>0, <1>1 DEF NodeInv
<1>12. AppliedInv'
  <2>1. \A i \in 1..Len(savepoints') : FALSE
    BY <1>2
  <2> QED BY <1>1, <1>2, <1>7, <1>8, <1>9, <2>1 DEF AppliedInv
<1>13. ParserInv' /\ PlanInv'
  BY <1>2 DEF ParserInv, PlanInv
<1>14. Len(applied') <= Len(applied) /\ applied' = SubSeq(applied, 1, Len(applied'))
  BY <1>3, <1>5, <1>6, <1>7
<1> QED BY <1>10, <1>11, <1>12, <1>13, <1>14 DEF ChainInv

\* The first event of the channel is the first step of the plan.
LEMMA FirstOfPlan ==
  ASSUME CType, NEW plan \in Seq(Seq(Nat)), NEW lows \in Seq(Nat), IsPlan(plan, lows), chan # <<>>
  PROVE  /\ Head(chan) \in Event
         /\ Step(node, applied, Low, Head(chan), plan[2], lows[2])
         /\ Stage(prev, node, trouble, plan[2], lows[2])
         /\ Tail(plan) \in Seq(Seq(Nat)) /\ Tail(lows) \in Seq(Nat) /\ Tail(chan) \in Seq(Event)
         /\ Len(Tail(chan)) = Len(chan) - 1 /\ Len(Tail(plan)) = Len(chan) /\ Len(Tail(lows)) = Len(chan)
         /\ \A j \in 1..Len(chan) - 1 : Tail(chan)[j] = chan[j + 1]
         /\ \A j \in 1..Len(chan) : Tail(plan)[j] = plan[j + 1] /\ Tail(lows)[j] = lows[j + 1]
<1> DEFINE N == Len(chan)
<1>1. chan \in Seq(Event) /\ N \in Nat /\ N >= 1
  <2>1. chan \in Seq(Event)
    BY DEF CType
  <2> QED BY <2>1
<1>2. Head(chan) \in Event /\ Head(chan) = chan[1] /\ Tail(chan) \in Seq(Event)
      /\ Len(Tail(chan)) = N - 1 /\ \A j \in 1..N - 1 : Tail(chan)[j] = chan[j + 1]
  BY <1>1
<1>3. Len(plan) = N + 1 /\ Len(lows) = N + 1 /\ plan[1] = applied /\ lows[1] = Low
  BY DEF IsPlan
<1>4. /\ \A j \in 1..N + 1 : Stage(prev, node, trouble, plan[j], lows[j])
      /\ \A j \in 1..N : Step(node, plan[j], lows[j], chan[j], plan[j + 1], lows[j + 1])
  BY DEF IsPlan
<1> HIDE DEF N
<1>5. 1 \in 1..N /\ 2 \in 1..N + 1 /\ 1 + 1 = 2
  BY <1>1
<1>6. Step(node, applied, Low, Head(chan), plan[2], lows[2])
      /\ Stage(prev, node, trouble, plan[2], lows[2])
  <2>1. Step(node, plan[1], lows[1], chan[1], plan[1 + 1], lows[1 + 1])
    BY <1>4, <1>5
  <2> QED BY <1>2, <1>3, <1>4, <1>5, <2>1
<1>7. /\ Tail(plan) \in Seq(Seq(Nat)) /\ Len(Tail(plan)) = N
      /\ \A j \in 1..N : Tail(plan)[j] = plan[j + 1]
  <2>1. plan # <<>>
    BY <1>1, <1>3
  <2> QED BY <1>1, <1>3, <2>1
<1>8. /\ Tail(lows) \in Seq(Nat) /\ Len(Tail(lows)) = N
      /\ \A j \in 1..N : Tail(lows)[j] = lows[j + 1]
  <2>1. lows # <<>>
    BY <1>1, <1>3
  <2> QED BY <1>1, <1>3, <2>1
<1> QED BY <1>2, <1>6, <1>7, <1>8 DEF N

\* An event is applied, or undoes the cache and ends the process: the tables go to an
\* earlier block of their chain, and then perhaps to a child of it.
Back(c, d) == \E h \in 0..Len(c) : d = SubSeq(c, 1, h)
BackAndOn(p, c, d) ==
  \E h \in 0..Len(c), b \in 1..Len(p) :
    p[b] = Tip(SubSeq(c, 1, h)) /\ d = Append(SubSeq(c, 1, h), b)

LEMMA HandleStep ==
  ASSUME ChainInv, HandleEvent
  PROVE  ChainInv' /\ (Back(applied, applied') \/ BackAndOn(prev, applied, applied'))
<1>0. CType /\ NodeInv /\ AppliedInv /\ ParserInv /\ PlanInv
  BY DEF ChainInv
<1> DEFINE e == Head(chan)
<1>1. running /\ ~cancelled /\ chan # <<>> /\ UNCHANGED nodeVars /\ cancelled' = cancelled
  BY DEF HandleEvent, NoFault
<1>2. PICK plan \in Seq(Seq(Nat)), lows \in Seq(Nat) : IsPlan(plan, lows)
  BY <1>0, <1>1 DEF PlanInv
<1> DEFINE d == plan[2]
           after == lows[2]
<1>3. /\ e \in Event /\ Step(node, applied, Low, e, d, after) /\ Stage(prev, node, trouble, d, after)
      /\ Tail(plan) \in Seq(Seq(Nat)) /\ Tail(lows) \in Seq(Nat) /\ Tail(chan) \in Seq(Event)
      /\ Len(Tail(chan)) = Len(chan) - 1 /\ Len(Tail(plan)) = Len(chan) /\ Len(Tail(lows)) = Len(chan)
      /\ \A j \in 1..Len(chan) - 1 : Tail(chan)[j] = chan[j + 1]
      /\ \A j \in 1..Len(chan) : Tail(plan)[j] = plan[j + 1] /\ Tail(lows)[j] = lows[j + 1]
  BY <1>0, <1>1, <1>2, FirstOfPlan
<1> HIDE DEF e, d, after
<1>4. \/ /\ Misplaced(Left(e), e) /\ Exit(Cleared(e))
      \/ /\ ~Misplaced(Left(e), e)
         /\ applied' = Append(Undone(applied, Len(Cleared(e)) - Len(Left(e))), e.block)
         /\ dbHeight' = e.height /\ savepoints' = Saved(Left(e), e) /\ prevHeight' = e.height
         /\ chan' = Tail(chan)
         /\ UNCHANGED <<running, parserVars, sent>>
  BY DEF HandleEvent, Left, Cleared, e
<1>5. \/ Misplaced(Left(e), e) /\ Cleared(e) = savepoints
      \/ /\ ~Misplaced(Left(e), e)
         /\ Append(Undone(applied, Len(Cleared(e)) - Len(Left(e))), e.block) = d
         /\ Contiguous(Saved(Left(e), e), after) /\ after \in Nat
         /\ Len(Saved(Left(e), e)) = e.height - after
  BY <1>0, <1>3, HandleEventIs
<1>6. applied \in Seq(Nat) /\ Len(applied) \in Nat
  BY <1>0 DEF CType
<1>7. CASE Misplaced(Left(e), e)
  <2>1. Exit(savepoints)
    BY <1>4, <1>5, <1>7
  <2>2. ChainInv' /\ Len(applied') <= Len(applied) /\ applied' = SubSeq(applied, 1, Len(applied'))
    BY <1>1, <2>1, ExitStep
  <2>3. Len(applied') \in 0..Len(applied)
    <3>1. applied' \in Seq(Nat)
      BY <2>2 DEF ChainInv, CType
    <3> QED BY <1>6, <2>2, <3>1
  <2> QED BY <2>2, <2>3 DEF Back
<1>8. CASE ~Misplaced(Left(e), e)
  <2>1. /\ applied' = d /\ dbHeight' = e.height /\ prevHeight' = e.height /\ chan' = Tail(chan)
        /\ UNCHANGED <<running, parserVars, sent>>
    BY <1>4, <1>5, <1>8
  <2>2. Contiguous(savepoints', after) /\ after \in Nat /\ Len(savepoints') = e.height - after
    BY <1>4, <1>5, <1>8
  <2>3. /\ prev' = prev /\ node' = node /\ trouble' = trouble /\ running' = running /\ ppc' = ppc
        /\ cp' = cp /\ lastHash' = lastHash /\ counter' = counter /\ best' = best /\ next' = next
        /\ files' = files /\ sent' = sent /\ cancelled' = cancelled
    BY <1>1, <2>1 DEF nodeVars, parserVars
  <2>4. e.height \in Nat /\ e.block \in Nat
    BY <1>3 DEF Event
  <2>5. e.height \in 1..Len(applied) + 1 /\ d = Append(FirstBlocks(applied, e.height - 1), e.block)
    BY <1>3 DEF Step
  <2>6. d \in Seq(Nat) /\ Linked(prev, d)
    BY <1>3 DEF Stage
  <2> DEFINE j == e.height - 1
             b == e.block
  <2>7. j \in 0..Len(applied) /\ e.height = j + 1 /\ j \in Nat
    BY <1>6, <2>4, <2>5
  <2>8. d = Append(FirstBlocks(applied, j), b) /\ b \in Nat
    BY <2>4, <2>5
  <2> HIDE DEF j, b
  <2>9. Linked(prev, applied)
    BY <1>0 DEF AppliedInv, Stage
  <2>10. /\ FirstBlocks(applied, j) \in Seq(Nat) /\ Len(FirstBlocks(applied, j)) = j
         /\ Tip(FirstBlocks(applied, j)) = At(applied, j)
    BY <1>6, <2>7, FirstBlocksIs
  <2>11. Len(d) = j + 1 /\ d[j + 1] = b /\ \A i \in 1..j : d[i] = applied[i]
    <3> DEFINE x == Append(FirstBlocks(applied, j), b)
    <3>1. Len(x) = j + 1 /\ x[j + 1] = b /\ \A i \in 1..j : x[i] = applied[i]
      BY <1>6, <2>7, <2>8, <2>9, Extended
    <3> HIDE DEF x
    <3>2. d = x
      BY <2>8 DEF x
    <3> QED BY <3>1, <3>2
  <2>12. savepoints' \in Seq(Nat) /\ Len(savepoints') \in Nat
         /\ \A i \in 1..Len(savepoints') : savepoints'[i] = after + i
    BY <2>2 DEF Contiguous
  <2>13. CType'
    BY <1>0, <1>3, <2>1, <2>3, <2>4, <2>6, <2>12 DEF CType
  <2>14. NodeInv'
    BY <1>0, <2>3 DEF NodeInv
  <2>15. Low' = after
    <3>1. Low' = Len(applied') - Len(savepoints')
      BY DEF Low
    <3>2. Len(applied') = e.height
      BY <2>1, <2>7, <2>11
    <3> QED BY <2>2, <2>4, <3>1, <3>2
  <2>16. AppliedInv'
    <3>1. Stage(prev', node', trouble', applied', Low')
      BY <1>3, <2>1, <2>3, <2>15
    <3>2. dbHeight' = Len(applied') /\ prevHeight' = Len(applied')
      BY <2>1, <2>7, <2>11
    <3> QED BY <1>1, <2>3, <2>12, <2>15, <3>1, <3>2 DEF AppliedInv
  <2>17. ParserInv'
    <3>1. CpHeight' = CpHeight /\ CpHash' = CpHash /\ Taken' = Taken
      BY <2>3 DEF CpHeight, CpHash, Taken, FirstBlocks
    <3>2. CheckpointInv => CheckpointInv'
      BY <2>3, <3>1 DEF CheckpointInv
    <3>3. RoundInv => RoundInv'
      BY <2>3, <3>1 DEF RoundInv
    <3> QED BY <1>0, <2>3, <3>2, <3>3 DEF ParserInv
  <2>18. IsPlan(Tail(plan), Tail(lows))'
    <3> DEFINE N == Len(chan)
               P == Tail(plan)
               Q == Tail(lows)
    <3>1. N \in Nat /\ N >= 1
      <4>1. chan \in Seq(Event)
        BY <1>0 DEF CType
      <4> QED BY <1>1, <4>1
    <3>2. Len(chan') = N - 1 /\ (N - 1) + 1 = N /\ Len(P) = N /\ Len(Q) = N
      BY <1>3, <2>1, <3>1
    <3>3. /\ \A i \in 1..N - 1 : chan'[i] = chan[i + 1]
          /\ \A i \in 1..N : P[i] = plan[i + 1] /\ Q[i] = lows[i + 1]
      BY <1>3, <2>1
    <3>4. /\ plan[N + 1] = sent
          /\ \A i \in 1..N + 1 : Stage(prev, node, trouble, plan[i], lows[i])
          /\ \A i \in 1..N : Step(node, plan[i], lows[i], chan[i], plan[i + 1], lows[i + 1])
      BY <1>2 DEF IsPlan
    <3> HIDE DEF N, P, Q
    <3>5. 1 \in 1..N /\ 1 + 1 = 2 /\ N \in 1..N
      BY <3>1
    <3>6. P[1] = applied' /\ Q[1] = Low' /\ P[N] = sent'
      BY <2>1, <2>3, <2>15, <3>3, <3>4, <3>5 DEF d, after
    <3>7. ASSUME NEW i \in 1..N PROVE Stage(prev, node, trouble, P[i], Q[i])
      <4>1. i + 1 \in 1..N + 1
        BY <3>1
      <4> QED BY <3>3, <3>4, <4>1
    <3>8. ASSUME NEW i \in 1..N - 1 PROVE Step(node, P[i], Q[i], chan'[i], P[i + 1], Q[i + 1])
      <4>1. i \in 1..N /\ i + 1 \in 1..N
        BY <3>1
      <4>2. Step(node, plan[i + 1], lows[i + 1], chan[i + 1], plan[(i + 1) + 1], lows[(i + 1) + 1])
        BY <3>4, <4>1
      <4>3. P[i] = plan[i + 1] /\ Q[i] = lows[i + 1] /\ chan'[i] = chan[i + 1]
            /\ P[i + 1] = plan[(i + 1) + 1] /\ Q[i + 1] = lows[(i + 1) + 1]
        BY <3>3, <4>1
      <4> QED BY <4>2, <4>3
    <3>9. IsPlan(P, Q)'
      BY <2>3, <3>2, <3>6, <3>7, <3>8 DEF IsPlan, P, Q
    <3> QED BY <3>9 DEF P, Q
  <2>19. PlanInv'
    BY <1>3, <2>18 DEF PlanInv
  <2>20. BackAndOn(prev, applied, applied')
    <3>1. FirstBlocks(applied, j) = SubSeq(applied, 1, j)
      <4>1. (IF j < Len(applied) THEN j ELSE Len(applied)) = j
        BY <1>6, <2>7
      <4> QED BY <4>1 DEF FirstBlocks
    <3>2. b \in 1..Len(prev) /\ prev[b] = At(applied, j)
      <4>0. j + 1 \in 1..Len(d)
        BY <2>7, <2>11
      <4>1. d[j + 1] \in 1..Len(prev)
            /\ prev[d[j + 1]] = (IF j + 1 = 1 THEN Genesis ELSE d[(j + 1) - 1])
        BY <2>6, <4>0 DEF Linked
      <4>2. CASE j = 0
        BY <2>11, <4>1, <4>2 DEF At
      <4>3. CASE j # 0
        <5>1. j + 1 # 1 /\ (j + 1) - 1 = j /\ j \in 1..j
          BY <2>7, <4>3
        <5>2. d[j] = applied[j]
          BY <2>11, <5>1
        <5> QED BY <2>11, <4>1, <4>3, <5>1, <5>2 DEF At
      <4> QED BY <4>2, <4>3
    <3>3. prev[b] = Tip(SubSeq(applied, 1, j)) /\ applied' = Append(SubSeq(applied, 1, j), b)
      BY <2>1, <2>8, <2>10, <3>1, <3>2
    <3> QED BY <2>7, <3>2, <3>3 DEF BackAndOn
  <2> QED BY <2>13, <2>14, <2>16, <2>17, <2>19, <2>20 DEF ChainInv
<1> QED BY <1>7, <1>8

LEMMA StopStep ==
  ASSUME ChainInv, Stop
  PROVE  ChainInv' /\ Back(applied, applied')
<1>1. running /\ Exit(savepoints) /\ UNCHANGED nodeVars /\ cancelled' = cancelled
  BY DEF Stop, NoFault
<1>2. ChainInv' /\ Len(applied') <= Len(applied) /\ applied' = SubSeq(applied, 1, Len(applied'))
  BY <1>1, ExitStep
<1>3. Len(applied') \in 0..Len(applied)
  <2>1. applied' \in Seq(Nat) /\ applied \in Seq(Nat)
    BY <1>2 DEF ChainInv, CType
  <2> QED BY <1>2, <2>1
<1> QED BY <1>2, <1>3 DEF Back

LEMMA SignalStep ==
  ASSUME ChainInv, Signal
  PROVE  ChainInv'
<1>0. CType /\ NodeInv /\ AppliedInv /\ ParserInv
  BY DEF ChainInv
<1>1. /\ prev' = prev /\ node' = node /\ trouble' = trouble /\ running' = running /\ ppc' = ppc
      /\ cp' = cp /\ lastHash' = lastHash /\ counter' = counter /\ best' = best /\ next' = next
      /\ files' = files /\ sent' = sent /\ chan' = chan /\ prevHeight' = prevHeight
      /\ savepoints' = savepoints /\ applied' = applied /\ dbHeight' = dbHeight
      /\ cancelled' = TRUE
  BY DEF Signal, nodeVars, parserVars, indexerVars
<1>2. CType'
  BY <1>0, <1>1 DEF CType
<1>3. NodeInv'
  BY <1>0, <1>1 DEF NodeInv
<1>4. AppliedInv'
  <2>1. Low' = Low
    BY <1>1 DEF Low
  <2> QED BY <1>0, <1>1, <2>1 DEF AppliedInv
<1>5. ParserInv'
  <2>1. CpHeight' = CpHeight /\ CpHash' = CpHash /\ Taken' = Taken
    BY <1>1 DEF CpHeight, CpHash, Taken, FirstBlocks
  <2>2. CheckpointInv => CheckpointInv'
    BY <1>1, <2>1 DEF CheckpointInv
  <2>3. RoundInv => RoundInv'
    BY <1>1, <2>1 DEF RoundInv
  <2> QED BY <1>0, <1>1, <2>2, <2>3 DEF ParserInv
<1>6. PlanInv'
  BY <1>1 DEF PlanInv
<1> QED BY <1>2, <1>3, <1>4, <1>5, <1>6 DEF ChainInv

\* A killed process leaves its blocks without savepoints: they stay on the best chain,
\* because such a history has no reorg.
LEMMA KillStep ==
  ASSUME WithinCache, ChainInv, Kill
  PROVE  ChainInv'
<1>0. CType /\ NodeInv /\ AppliedInv
  BY DEF ChainInv
<1>1. /\ prev' = prev /\ node' = node /\ trouble' = trouble /\ running' = FALSE /\ ppc' = "dead"
      /\ cp' = cp /\ lastHash' = lastHash /\ counter' = counter /\ best' = best /\ next' = next
      /\ files' = files /\ sent' = sent /\ chan' = <<>> /\ prevHeight' = prevHeight
      /\ savepoints' = <<>> /\ applied' = applied /\ dbHeight' = dbHeight /\ cancelled' = cancelled
  BY DEF Kill, nodeVars
<1>2. CType'
  BY <1>0, <1>1, NoEvents DEF CType
<1>3. NodeInv'
  BY <1>0, <1>1 DEF NodeInv
<1>4. "kill" \in trouble /\ "reorg" \notin trouble
  <2>1. "kill" \in trouble
    BY DEF Kill, Fault
  <2>2. trouble \in Troubles
    BY <1>0 DEF CType
  <2> QED BY <2>1, <2>2 DEF WithinCache
<1>5. applied \in Seq(Nat) /\ Len(applied) \in Nat /\ Linked(prev, applied)
      /\ Len(applied) <= Len(node) /\ dbHeight = Len(applied)
  BY <1>0 DEF CType, AppliedInv, Stage
<1>6. \A h \in 1..Len(applied) : On(node, applied[h])
  BY <1>0, <1>4, <1>5 DEF Linked, NodeInv
<1>7. Stage(prev, node, trouble, applied, Len(applied))
  BY <1>4, <1>5, <1>6 DEF Stage
<1>8. Low' = Len(applied)
  BY <1>1, <1>5 DEF Low
<1>9. AppliedInv'
  <2>1. \A i \in 1..Len(savepoints') : FALSE
    BY <1>1
  <2> QED BY <1>1, <1>5, <1>7, <1>8, <2>1 DEF AppliedInv
<1>10. ParserInv' /\ PlanInv'
  BY <1>1 DEF ParserInv, PlanInv
<1> QED BY <1>2, <1>3, <1>9, <1>10 DEF ChainInv

----------------------------------------------------------------------------
(* The process starts. *)

\* The tables of a process that is not running are a part of the best chain.
LEMMA Stopped ==
  ASSUME CType, NodeInv, AppliedInv, ~running
  PROVE  /\ applied \in Seq(Nat) /\ Len(applied) \in Nat /\ Linked(prev, applied)
         /\ dbHeight = Len(applied) /\ Low = Len(applied)
         /\ Stage(prev, node, trouble, applied, Len(applied))
         /\ node \in Seq(Nat) /\ Len(node) \in Nat /\ Linked(prev, node)
         /\ Len(applied) <= Len(node)
         /\ \A h \in 1..Len(applied) : node[h] = applied[h] /\ On(node, applied[h])
<1>1. applied \in Seq(Nat) /\ Len(applied) \in Nat /\ node \in Seq(Nat) /\ Len(node) \in Nat
  BY DEF CType
<1>2. Stage(prev, node, trouble, applied, Low) /\ dbHeight = Len(applied) /\ savepoints = <<>>
  BY DEF AppliedInv
<1>3. Low = Len(applied)
  BY <1>1, <1>2 DEF Low
<1>4. Linked(prev, applied) /\ Linked(prev, node)
  BY <1>2 DEF Stage, NodeInv
<1>5. ASSUME NEW h \in 1..Len(applied) PROVE On(node, applied[h])
  <2>1. ~On(node, applied[h]) => h > Low
    BY <1>2 DEF Stage
  <2> QED BY <1>1, <1>3, <2>1
<1>6. Len(applied) <= Len(node) /\ \A h \in 1..Len(applied) : node[h] = applied[h]
  BY <1>1, <1>4, <1>5, PrefixOfNode
<1> QED BY <1>1, <1>2, <1>3, <1>4, <1>5, <1>6

\* Once the parser is where the tables are, there is nothing on the way to them.
LEMMA StartFrame ==
  ASSUME ChainInv, Starting, cp' \in Checkpoints, Len(cp'.ids) >= 1, lastHash' \in Nat,
         files' \in Seq(Nat), ppc' \in {"files", "poll"}, CheckpointInv', RoundInv'
  PROVE  ChainInv'
<1>0. CType /\ NodeInv /\ AppliedInv /\ ~running
  BY DEF ChainInv, Starting
<1>1. /\ prev' = prev /\ node' = node /\ trouble' = trouble /\ running' = TRUE /\ cancelled' = FALSE
      /\ prevHeight' = 0 /\ savepoints' = <<>> /\ chan' = <<>> /\ counter' = 0 /\ best' = 0
      /\ next' = 0 /\ sent' = applied /\ applied' = applied /\ dbHeight' = dbHeight
  BY DEF Starting, nodeVars, Genesis
<1>2. /\ applied \in Seq(Nat) /\ Len(applied) \in Nat /\ dbHeight = Len(applied)
      /\ Stage(prev, node, trouble, applied, Len(applied))
  BY <1>0, Stopped
<1>3. CType'
  <2>1. ppc' \in {"files", "poll", "pop", "fetch", "send", "dead"}
    OBVIOUS
  <2> QED BY <1>0, <1>1, <1>2, <2>1, NoEvents DEF CType
<1>4. NodeInv'
  BY <1>0, <1>1 DEF NodeInv
<1>5. Low' = Len(applied)
  BY <1>1, <1>2 DEF Low
<1>6. AppliedInv'
  <2>1. \A i \in 1..Len(savepoints') : FALSE
    BY <1>1
  <2> QED BY <1>1, <1>2, <1>5, <2>1 DEF AppliedInv
<1>7. ParserInv'
  BY <1>1 DEF ParserInv
<1>8. PlanInv'
  <2>1. <<applied>> \in Seq(Seq(Nat)) /\ Len(<<applied>>) = 1 /\ <<applied>>[1] = applied
    BY <1>2
  <2>2. <<Len(applied)>> \in Seq(Nat) /\ Len(<<Len(applied)>>) = 1 /\ <<Len(applied)>>[1] = Len(applied)
    BY <1>2
  <2>3. PICK plan \in Seq(Seq(Nat)), lows \in Seq(Nat) :
           Len(plan) = 1 /\ Len(lows) = 1 /\ plan[1] = applied /\ lows[1] = Len(applied)
    BY <2>1, <2>2
  <2>4. Len(chan') = 0 /\ 0 + 1 = 1
    BY <1>1
  <2>5. IsPlan(plan, lows)'
    <3>1. \A k \in 1..Len(chan') + 1 : Stage(prev', node', trouble', plan[k], lows[k])
      <4>1. \A k \in 1..Len(chan') + 1 : k = 1
        BY <2>4
      <4> QED BY <1>1, <1>2, <2>3, <4>1
    <3>2. \A k \in 1..Len(chan') : FALSE
      BY <2>4
    <3>3. Len(chan') + 1 = 1
      BY <2>4
    <3>4. plan[1] = applied' /\ lows[1] = Low' /\ plan[Len(chan') + 1] = sent'
      BY <1>1, <1>5, <2>3, <3>3
    <3> QED BY <2>3, <3>1, <3>2, <3>3, <3>4 DEF IsPlan
  <2> QED BY <2>3, <2>5 DEF PlanInv
<1> QED BY <1>3, <1>4, <1>6, <1>7, <1>8 DEF ChainInv

LEMMA NodeAtIs ==
  ASSUME CType, NEW h \in 0..Len(node)
  PROVE  NodeAt(h) \in Nat /\ NodeAt(h) = At(node, h)
<1>1. node \in Seq(Nat) /\ Len(node) \in Nat
  BY DEF CType
<1>2. h # 0 => h \in 1..Len(node)
  BY <1>1
<1> QED BY <1>1, <1>2 DEF NodeAt, At, Genesis

LEMMA StartFromNodeStep ==
  ASSUME ChainInv, StartFromNode
  PROVE  ChainInv'
<1>0. CType /\ NodeInv /\ AppliedInv /\ ~running /\ Starting
  BY DEF ChainInv, StartFromNode, Starting
<1> DEFINE L == Len(applied)
           b == NodeAt(L)
<1>1. /\ applied \in Seq(Nat) /\ L \in Nat /\ dbHeight = L /\ Linked(prev, applied)
      /\ node \in Seq(Nat) /\ Len(node) \in Nat /\ L <= Len(node)
      /\ \A h \in 1..L : node[h] = applied[h] /\ On(node, applied[h])
  BY <1>0, Stopped
<1>2. /\ cp' = [base |-> L, ids |-> <<b>>] /\ lastHash' = b /\ files' = <<>> /\ ppc' = "poll"
  BY <1>1 DEF StartFromNode, StartHeight
<1>3. /\ prev' = prev /\ node' = node /\ sent' = applied /\ counter' = 0 /\ cancelled' = FALSE
  BY <1>0 DEF Starting, nodeVars
<1>4. b \in Nat /\ b = At(applied, L)
  <2>1. L \in 0..Len(node)
    BY <1>1
  <2>2. b \in Nat /\ b = At(node, L)
    BY <1>0, <2>1, NodeAtIs
  <2>3. At(node, L) = At(applied, L)
    <3>1. L # 0 => L \in 1..L
      BY <1>1
    <3> QED BY <1>1, <3>1 DEF At
  <2> QED BY <2>2, <2>3
<1> HIDE DEF L, b
<1>5. <<b>> \in Seq(Nat) /\ Len(<<b>>) = 1 /\ <<b>>[1] = b
  BY <1>4
<1>6. cp' \in Checkpoints /\ cp'.base = L /\ cp'.ids = <<b>>
  BY <1>1, <1>2, <1>5 DEF Checkpoints
<1>7. CpHeight' = L /\ CpHash' = b
  <2>1. CpHeight' = L + 1 - 1
    BY <1>5, <1>6 DEF CpHeight
  <2>2. CpHash' = b
    BY <1>5, <1>6 DEF CpHash
  <2> QED BY <1>1, <2>1, <2>2
<1>8. sent' \o files' = applied
  BY <1>1, <1>2, <1>3
<1>9. CheckpointInv'
  <2>1. ASSUME NEW i \in 1..Len(cp'.ids) PROVE cp'.ids[i] = At(applied, cp'.base + i - 1)
    <3>1. i = 1
      BY <1>5, <1>6
    <3>2. cp'.base + i - 1 = L
      BY <1>1, <1>6, <3>1
    <3> QED BY <1>4, <1>5, <1>6, <3>1, <3>2
  <2>2. CpHeight' <= Len(applied)
    BY <1>1, <1>7 DEF L
  <2> QED BY <1>1, <1>2, <1>3, <1>7, <1>8, <2>1, <2>2 DEF CheckpointInv
<1>10. RoundInv'
  <2>1. Taken' = applied
    <3>1. Taken' = sent' \o files'
      BY <1>2 DEF Taken
    <3> QED BY <1>8, <3>1
  <2>2. \A h \in CpHeight' + 1..Len(sent') : FALSE
    BY <1>1, <1>3, <1>7 DEF L
  <2> QED BY <1>1, <1>2, <1>3, <2>1, <2>2 DEF RoundInv, L
<1>11. Len(cp'.ids) >= 1 /\ files' \in Seq(Nat) /\ lastHash' \in Nat
  BY <1>2, <1>4, <1>5, <1>6, NoEvents
<1>12. ppc' \in {"files", "poll"}
  BY <1>2
<1> QED BY <1>0, <1>6, <1>9, <1>10, <1>11, <1>12, StartFrame

LEMMA StartFromFilesStep ==
  ASSUME ChainInv, StartFromFiles
  PROVE  ChainInv'
<1>0. CType /\ NodeInv /\ AppliedInv /\ ~running /\ Starting
  BY DEF ChainInv, StartFromFiles, Starting
<1> DEFINE L == Len(applied)
           base == IF L = 0 THEN 0 ELSE L - 1
<1>1. /\ applied \in Seq(Nat) /\ L \in Nat /\ dbHeight = L /\ Linked(prev, applied)
      /\ node \in Seq(Nat) /\ Len(node) \in Nat /\ L <= Len(node) /\ Linked(prev, node)
      /\ \A h \in 1..L : node[h] = applied[h] /\ On(node, applied[h])
  BY <1>0, Stopped
<1>2. PICK top \in L..Len(node) :
         /\ files' = SubSeq(node, L + 1, top)
         /\ cp' = [base |-> base, ids |-> [i \in 1..(top - base + 1) |-> NodeAt(base + i - 1)]]
  BY <1>1 DEF StartFromFiles
<1>3. lastHash' = Tip(applied) /\ ppc' = "files"
  BY DEF StartFromFiles
<1>4. /\ prev' = prev /\ node' = node /\ sent' = applied /\ counter' = 0 /\ cancelled' = FALSE
  BY <1>0 DEF Starting, nodeVars
<1> DEFINE F == SubSeq(node, L + 1, top)
           N == top - base + 1
           ids == [i \in 1..N |-> NodeAt(base + i - 1)]
<1>5. top \in Nat /\ L <= top /\ top <= Len(node) /\ base \in Nat /\ base <= top /\ N \in Nat /\ N >= 1
      /\ N = top - base + 1
  BY <1>1, <1>2
<1>6. files' = F /\ cp' = [base |-> base, ids |-> ids]
  BY <1>2
<1>7. F \in Seq(Nat) /\ Len(F) = top - L /\ \A i \in 1..top - L : F[i] = node[L + i]
  <2> HIDE DEF L
  <2>1. F \in Seq(Nat) /\ Len(F) = top - L
    BY <1>1, <1>5
  <2>2. ASSUME NEW i \in 1..top - L PROVE F[i] = node[L + i]
    <3>1. F[i] = node[(L + 1) + i - 1] /\ (L + 1) + i - 1 = L + i
      BY <1>1, <1>5
    <3> HIDE DEF F
    <3> QED BY <3>1
  <2> QED BY <2>1, <2>2
<1> HIDE DEF L, F, base
<1>8. ASSUME NEW i \in 1..N
      PROVE  base + i - 1 \in 0..top /\ NodeAt(base + i - 1) \in Nat
             /\ NodeAt(base + i - 1) = At(node, base + i - 1)
  <2>1. base + i - 1 \in 0..top
    BY <1>5
  <2>2. base + i - 1 \in 0..Len(node)
    BY <1>1, <1>5, <2>1
  <2> QED BY <1>0, <2>1, <2>2, NodeAtIs
<1> HIDE DEF N
<1>9. ids \in Seq(Nat) /\ Len(ids) = N /\ \A i \in 1..N : ids[i] = At(node, base + i - 1)
  <2>1. N \in Nat
    BY <1>5
  <2>2. \A i \in 1..N : NodeAt(base + i - 1) \in Nat
    BY <1>8
  <2>3. ids \in [1..N -> Nat]
    BY <2>2
  <2>4. \A i \in 1..N : ids[i] = At(node, base + i - 1)
    BY <1>8
  <2> HIDE DEF ids
  <2> QED BY <2>1, <2>3, <2>4
<1> HIDE DEF ids
<1> DEFINE R == applied \o F
<1>10. R \in Seq(Nat) /\ Len(R) = top /\ \A h \in 1..top : R[h] = node[h]
  <2>1. R \in Seq(Nat) /\ Len(R) = L + Len(F) /\ (\A i \in 1..L : R[i] = applied[i])
        /\ \A i \in 1..Len(F) : R[L + i] = F[i]
    BY <1>1, <1>7, Joined DEF L
  <2> HIDE DEF R
  <2>2. Len(R) = top
    BY <1>1, <1>5, <1>7, <2>1
  <2>3. ASSUME NEW h \in 1..top PROVE R[h] = node[h]
    <3>1. CASE h \in 1..L
      BY <1>1, <2>1, <3>1
    <3>2. CASE h \notin 1..L
      <4> DEFINE i == h - L
      <4>1. i \in 1..top - L /\ h = L + i
        BY <1>1, <1>5, <3>2
      <4> HIDE DEF i
      <4>2. R[h] = F[i] /\ F[i] = node[h]
        BY <1>7, <2>1, <4>1
      <4> QED BY <4>2
    <3> QED BY <3>1, <3>2
  <2> QED BY <2>1, <2>2, <2>3
<1> HIDE DEF R
<1>11. ASSUME NEW k \in 0..top PROVE At(node, k) = At(R, k)
  <2>1. k # 0 => k \in 1..top
    BY <1>5
  <2> QED BY <1>10, <2>1 DEF At
<1>12. Linked(prev, R) /\ \A h \in 1..Len(R) : On(node, R[h])
  <2> SUFFICES ASSUME NEW h \in 1..top
               PROVE  /\ R[h] \in 1..Len(prev) /\ prev[R[h]] = (IF h = 1 THEN Genesis ELSE R[h - 1])
                      /\ On(node, R[h])
    BY <1>10 DEF Linked
  <2>1. h \in 1..Len(node) /\ R[h] = node[h] /\ (h # 1 => h - 1 \in 1..top)
    BY <1>1, <1>5, <1>10
  <2>2. h # 1 => R[h - 1] = node[h - 1]
    BY <1>10, <2>1
  <2>3. node[h] \in 1..Len(prev) /\ prev[node[h]] = (IF h = 1 THEN Genesis ELSE node[h - 1])
    BY <1>1, <2>1 DEF Linked
  <2>4. On(node, R[h])
    BY <2>1 DEF On
  <2> QED BY <2>1, <2>2, <2>3, <2>4
<1>13. cp' \in Checkpoints /\ cp'.base = base /\ cp'.ids = ids
  BY <1>5, <1>6, <1>9 DEF Checkpoints
<1>14. CpHeight' = top
  <2>1. CpHeight' = base + N - 1
    BY <1>9, <1>13 DEF CpHeight
  <2> QED BY <1>5, <2>1
<1>15. sent' \o files' = R
  BY <1>4, <1>6 DEF R
<1>16. CheckpointInv'
  <2>1. ASSUME NEW i \in 1..Len(cp'.ids) PROVE cp'.ids[i] = At(R, cp'.base + i - 1)
    <3>1. i \in 1..N
      BY <1>9, <1>13
    <3>2. At(node, base + i - 1) = At(R, base + i - 1)
      BY <1>8, <1>11, <3>1
    <3> QED BY <1>9, <1>13, <3>1, <3>2
  <2>2. CpHeight' = Len(R) /\ CpHeight' <= Len(R) /\ CpHeight' <= Len(node)
    BY <1>5, <1>10, <1>14
  <2> QED BY <1>3, <1>4, <1>12, <1>15, <2>1, <2>2 DEF CheckpointInv
<1>17. RoundInv'
  <2>1. Taken' = R
    <3>1. Taken' = sent' \o files'
      BY <1>3 DEF Taken
    <3> QED BY <1>15, <3>1
  <2> QED BY <1>3, <1>4, <1>12, <2>1 DEF RoundInv
<1>18. lastHash' \in Nat
  <2>1. Tip(applied) = At(applied, L)
    BY <1>1, TipIs DEF L
  <2>2. L # 0 => L \in 1..L
    BY <1>1
  <2>3. At(applied, L) \in Nat
    BY <1>1, <2>2 DEF At, Genesis, L
  <2> QED BY <1>3, <2>1, <2>3
<1>19. Len(cp'.ids) >= 1 /\ files' \in Seq(Nat) /\ ppc' \in {"files", "poll"}
  BY <1>3, <1>5, <1>6, <1>7, <1>9, <1>13
<1> QED BY <1>0, <1>13, <1>16, <1>17, <1>18, <1>19, StartFrame

----------------------------------------------------------------------------
(* The invariant, and what follows from it. *)

LEMMA ChainInit ==
  ASSUME Init
  PROVE  ChainInv
<1>1. InitLen \in Nat /\ InitLen > MaxLen
  OBVIOUS
<1>2. /\ prev \in Seq(Nat) /\ Len(prev) = InitLen /\ \A b \in 1..InitLen : prev[b] = b - 1
  BY <1>1 DEF Init
<1>3. /\ node \in Seq(Nat) /\ Len(node) = InitLen /\ \A h \in 1..InitLen : node[h] = h
  BY <1>1 DEF Init
<1>4. /\ trouble \in Troubles /\ ppc = "dead" /\ cp = [base |-> 0, ids |-> <<0>>]
      /\ lastHash = 0 /\ counter = 0 /\ best = 0 /\ next = 0 /\ files = <<>> /\ chan = <<>>
      /\ running = FALSE /\ prevHeight = 0 /\ savepoints = <<>> /\ applied = <<>> /\ dbHeight = 0
      /\ cancelled = FALSE /\ sent = <<>>
  BY DEF Init, Genesis
<1>5. CType
  <2>1. <<0>> \in Seq(Nat) /\ Len(<<0>>) = 1
    OBVIOUS
  <2>2. cp \in Checkpoints /\ Len(cp.ids) >= 1
    BY <1>4, <2>1 DEF Checkpoints
  <2> QED BY <1>2, <1>3, <1>4, <2>2, NoEvents DEF CType
<1>6. NodeInv
  <2>1. Linked(prev, node)
    <3> SUFFICES ASSUME NEW h \in 1..InitLen
                 PROVE  node[h] \in 1..InitLen /\ prev[node[h]] = (IF h = 1 THEN 0 ELSE node[h - 1])
      BY <1>2, <1>3 DEF Linked, Genesis
    <3>1. node[h] = h /\ prev[h] = h - 1 /\ (h # 1 => node[h - 1] = h - 1)
      BY <1>1, <1>2, <1>3
    <3> QED BY <3>1
  <2>2. \A b \in 1..Len(prev) : On(node, b)
    BY <1>2, <1>3 DEF On
  <2>3. InitLen <= Len(node)
    BY <1>1, <1>3
  <2> QED BY <2>1, <2>2, <2>3 DEF NodeInv
<1>7. Low = 0
  BY <1>4 DEF Low
<1>8. AppliedInv
  <2>1. Len(applied) = 0 /\ applied \in Seq(Nat) /\ \A i \in 1..0 : FALSE
    BY <1>4, NoEvents
  <2>2. Settled(node, 0)
    BY <1>1, <1>3 DEF Settled
  <2>3. Linked(prev, applied)
    BY <2>1 DEF Linked
  <2>4. Stage(prev, node, trouble, applied, 0)
    BY <1>1, <1>3, <2>1, <2>2, <2>3 DEF Stage
  <2>5. \A i \in 1..Len(savepoints) : savepoints[i] = Low + i
    BY <1>4
  <2> QED BY <1>4, <1>7, <2>1, <2>4, <2>5 DEF AppliedInv
<1>9. ParserInv /\ PlanInv
  BY <1>4 DEF ParserInv, PlanInv
<1> QED BY <1>5, <1>6, <1>8, <1>9 DEF ChainInv

LEMMA ParserStep ==
  ASSUME ChainInv, Parser \/ PopOnError \/ RpcPanic
  PROVE  ChainInv' /\ applied' = applied /\ prev' = prev
<1>1. ChainInv'
  BY LoopSteps, PopAndDie, SendFromFilesStep, SendNextStep DEF Parser
<1>2. InParser
  BY DEF Parser, SendFromFiles, FilesDone, Poll, PopOrphan, TooLong, ForkFound, Fetch, SendNext,
         RoundDone, SeesCancel, PopOnError, RpcPanic
<1> QED BY <1>1, <1>2 DEF InParser, nodeVars, indexerVars

LEMMA SameStep ==
  ASSUME ChainInv, UNCHANGED vars
  PROVE  ChainInv'
<1>1. /\ prev' = prev /\ node' = node /\ trouble' = trouble /\ running' = running /\ ppc' = ppc
      /\ cp' = cp /\ lastHash' = lastHash /\ counter' = counter /\ best' = best /\ next' = next
      /\ files' = files /\ sent' = sent /\ chan' = chan /\ prevHeight' = prevHeight
      /\ savepoints' = savepoints /\ applied' = applied /\ dbHeight' = dbHeight
      /\ cancelled' = cancelled
  BY DEF vars, nodeVars, parserVars, indexerVars
<1>2. CpHeight' = CpHeight /\ CpHash' = CpHash /\ Taken' = Taken /\ Low' = Low
  BY <1>1 DEF CpHeight, CpHash, Taken, FirstBlocks, Low
<1>3. CType' /\ NodeInv'
  BY <1>1 DEF ChainInv, CType, NodeInv
<1>4. AppliedInv'
  BY <1>1, <1>2 DEF ChainInv, AppliedInv
<1>5. ParserInv'
  BY <1>1, <1>2 DEF ChainInv, ParserInv, CheckpointInv, RoundInv
<1>6. PlanInv'
  BY <1>1, <1>2 DEF ChainInv, PlanInv, IsPlan
<1> QED BY <1>3, <1>4, <1>5, <1>6 DEF ChainInv

\* One step of anyone.
LEMMA ChainStep ==
  ASSUME WithinCache, ChainInv, [Next]_vars
  PROVE  /\ ChainInv'
         /\ \/ applied' = applied /\ SubSeq(prev', 1, Len(prev)) = prev
            \/ prev' = prev /\ (Back(applied, applied') \/ BackAndOn(prev, applied, applied'))
<1>0. prev \in Seq(Nat) /\ SubSeq(prev, 1, Len(prev)) = prev
  BY DEF ChainInv, CType
<1>1. CASE Mine \/ NodeReorg
  <2>1. ChainInv'
    BY <1>1, NodeStep
  <2>2. CType /\ NodeInv
    BY DEF ChainInv
  <2>3. PICK f \in Nat : Branch(prev, node, prev', node', f) /\ NodeOnly
    BY <1>1, <2>2, NodeForks
  <2>4. applied' = applied
    BY <2>3 DEF NodeOnly, indexerVars
  <2>5. /\ prev' \in Seq(Nat) /\ Len(prev) <= Len(prev')
        /\ \A b \in 1..Len(prev) : prev'[b] = prev[b]
    BY <2>3 DEF Branch
  <2>6. SubSeq(prev', 1, Len(prev)) = prev
    <3>1. SubSeq(prev', 1, Len(prev)) = [b \in 1..Len(prev) |-> prev'[b]]
      BY <1>0, <2>5
    <3>2. prev = [b \in 1..Len(prev) |-> prev[b]]
      BY <1>0
    <3> QED BY <2>5, <3>1, <3>2
  <2> QED BY <2>1, <2>4, <2>6
<1>2. CASE Parser \/ PopOnError \/ RpcPanic
  BY <1>0, <1>2, ParserStep
<1>3. CASE HandleEvent
  <2>1. prev' = prev
    BY <1>3 DEF HandleEvent, nodeVars
  <2> QED BY <1>3, <2>1, HandleStep
<1>4. CASE Stop
  <2>1. prev' = prev
    BY <1>4 DEF Stop, nodeVars
  <2> QED BY <1>4, <2>1, StopStep
<1>5. CASE Signal
  <2>1. prev' = prev /\ applied' = applied
    BY <1>5 DEF Signal, nodeVars, indexerVars
  <2> QED BY <1>0, <1>5, <2>1, SignalStep
<1>6. CASE Kill
  <2>1. prev' = prev /\ applied' = applied
    BY <1>6 DEF Kill, nodeVars
  <2> QED BY <1>0, <1>6, <2>1, KillStep
<1>7. CASE Start
  <2>1. ChainInv'
    BY <1>7, StartFromFilesStep, StartFromNodeStep DEF Start
  <2>2. prev' = prev /\ applied' = applied
    BY <1>7 DEF Start, StartFromFiles, StartFromNode, Starting, nodeVars
  <2> QED BY <1>0, <2>1, <2>2
<1>8. CASE UNCHANGED vars
  <2>1. prev' = prev /\ applied' = applied
    BY <1>8 DEF vars, nodeVars, indexerVars
  <2> QED BY <1>0, <1>8, <2>1, SameStep
<1>9. Sleep \/ Idle \/ Terminated => UNCHANGED vars
  BY DEF Sleep, Idle, Terminated
<1> QED BY <1>1, <1>2, <1>3, <1>4, <1>5, <1>6, <1>7, <1>8, <1>9 DEF Next

LEMMA ChainInvariant ==
  ASSUME WithinCache
  PROVE  Spec => []ChainInv
<1>1. Init => ChainInv
  BY ChainInit
<1>2. ChainInv /\ [Next]_vars => ChainInv'
  BY ChainStep
<1> QED BY <1>1, <1>2, PTL DEF Spec

LEMMA LinkedFromInv ==
  ASSUME ChainInv
  PROVE  AppliedLinked /\ OrphansUndoable /\ StopLeavesBestChain
<1>0. CType /\ AppliedInv
  BY DEF ChainInv
<1>1. applied \in Seq(Nat) /\ Len(applied) \in Nat /\ savepoints \in Seq(Nat) /\ Len(savepoints) \in Nat
      /\ DOMAIN applied = 1..Len(applied) /\ DOMAIN savepoints = 1..Len(savepoints)
  BY <1>0 DEF CType
<1>2. Stage(prev, node, trouble, applied, Low) /\ dbHeight = Len(applied)
      /\ \A i \in 1..Len(savepoints) : savepoints[i] = Low + i
  BY <1>0 DEF AppliedInv
<1>3. Linked(prev, applied) /\ Low \in 0..Len(applied) /\ Low = Len(applied) - Len(savepoints)
      /\ \A h \in 1..Len(applied) : ~On(node, applied[h]) => h > Low
  BY <1>2 DEF Stage, Low
<1>4. AppliedLinked
  BY <1>1, <1>2, <1>3 DEF AppliedLinked, Linked
<1>5. ASSUME NEW h \in 1..Len(applied), ~OnBestChain(applied[h])
      PROVE  \E i \in DOMAIN savepoints : savepoints[i] = h
  <2>1. h > Low
    BY <1>0, <1>3, <1>5, OnIs
  <2> DEFINE i == h - Low
  <2>2. i \in 1..Len(savepoints) /\ Low + i = h
    BY <1>1, <1>3, <2>1
  <2> HIDE DEF i
  <2>3. savepoints[i] = h
    BY <1>2, <2>2
  <2> QED BY <1>1, <2>2, <2>3
<1>6. OrphansUndoable
  BY <1>1, <1>5 DEF OrphansUndoable
<1>7. ASSUME ~running, NEW h \in 1..Len(applied) PROVE OnBestChain(applied[h])
  <2>1. savepoints = <<>>
    BY <1>0, <1>7 DEF AppliedInv
  <2>2. ~(\E i \in DOMAIN savepoints : savepoints[i] = h)
    BY <1>1, <2>1
  <2> QED BY <1>5, <2>2
<1>8. StopLeavesBestChain
  BY <1>1, <1>7 DEF StopLeavesBestChain
<1> QED BY <1>4, <1>6, <1>8

\* Whatever the node, the parser, the channel, stops and restarts do, the tables are the
\* result of one chain of blocks, each applied on its parent, and last_block is its height
\* (the loop of Indexer::index with the cache of reorg.rs).
THEOREM TablesAreOneChain ==
  ASSUME WithinCache
  PROVE  Spec => []AppliedLinked
<1>1. ChainInv => AppliedLinked
  BY LinkedFromInv
<1> QED BY <1>1, ChainInvariant, PTL

\* ReorgCache holds a savepoint for every applied block that is off the best chain, also
\* while the reorg is still on its way through the channel.
THEOREM EveryOrphanHasSavepoint ==
  ASSUME WithinCache
  PROVE  Spec => []OrphansUndoable
<1>1. ChainInv => OrphansUndoable
  BY LinkedFromInv
<1> QED BY <1>1, ChainInvariant, PTL

\* restore_all before the process ends leaves only blocks of the best chain, and so do a
\* kill in a history without reorgs and everything that happens until the next start.
THEOREM StoppedOnBestChain ==
  ASSUME WithinCache
  PROVE  Spec => []StopLeavesBestChain
<1>1. ChainInv => StopLeavesBestChain
  BY LinkedFromInv
<1> QED BY <1>1, ChainInvariant, PTL

\* The indexer implements the linked chain: one event takes the tables back along their
\* chain and on to a child of the block they then stand on (HandleEvent), or only back.
THEOREM LinkedChainImplemented ==
  ASSUME WithinCache
  PROVE  Spec => FollowsOneChain
<1>1. Init => Abstract!Init
  BY DEF Init, Abstract!Init
<1>2. ASSUME ChainInv, [Next]_vars PROVE [Abstract!Next]_<<prev, applied>>
  <2>1. \/ applied' = applied /\ SubSeq(prev', 1, Len(prev)) = prev
        \/ prev' = prev /\ (Back(applied, applied') \/ BackAndOn(prev, applied, applied'))
    BY <1>2, ChainStep
  <2>2. CASE applied' = applied /\ SubSeq(prev', 1, Len(prev)) = prev
    BY <2>2 DEF Abstract!Next, Abstract!NewBlocks
  <2>3. CASE prev' = prev /\ Back(applied, applied')
    BY <2>3 DEF Back, Abstract!Next, Abstract!Rollback
  <2>4. CASE prev' = prev /\ BackAndOn(prev, applied, applied')
    <3>1. PICK h \in 0..Len(applied), b \in 1..Len(prev) :
            prev[b] = Tip(SubSeq(applied, 1, h)) /\ applied' = Append(SubSeq(applied, 1, h), b)
      BY <2>4 DEF BackAndOn
    <3>2. b \in DOMAIN prev
      BY <1>2, <3>1 DEF ChainInv, CType
    <3>3. prev[b] = Abstract!Tip(SubSeq(applied, 1, h))
      BY <3>1 DEF Tip, Genesis, Abstract!Tip, Abstract!Genesis
    <3> QED BY <2>4, <3>1, <3>2, <3>3 DEF Abstract!Next, Abstract!Apply
  <2> QED BY <2>1, <2>2, <2>3, <2>4
<1> QED BY <1>1, <1>2, ChainInvariant, PTL DEF Spec, FollowsOneChain, Abstract!Spec
============================================================================
