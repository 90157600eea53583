-------------------------- MODULE InscriptionProofs --------------------------
(***************************************************************************)
(* Theorems of Inscriptions, for every number of transactions, inputs,     *)
(* outputs, values and inscriptions, and for every subsidy.                *)
(*                                                                         *)
(* The rows that the code keeps are offsets, computed from the values of   *)
(* inputs and outputs; the satoshis themselves are what it cannot see.     *)
(* The invariant IInv relates the two at every input of a transaction:     *)
(*   Dated, Unique  a satoshi is at one place: in one unspent output, in   *)
(*                  the transaction at work, or among the fees;            *)
(*   AtRest         between transactions the rows of outpoints and of      *)
(*                  leaked inscriptions are at the places of exactly the   *)
(*                  inscribed satoshis (Rested);                           *)
(*   InTx           within a transaction, a position of its satoshis is    *)
(*                  inscribed exactly if its row was moved by an input     *)
(*                  before (to an output or to the fees), or waits in an   *)
(*                  input that is still to come (Mid).                     *)
(* An input moves its rows to the places of their satoshis: the output     *)
(* whose values reach over the offset (TargetIs) or, beyond all outputs,   *)
(* the place that is left over in the fees (LeakIs).  After the last input *)
(* nothing waits, so that Mid is Rested again, and the coinbase gives the  *)
(* fees to the outputs that their places fall into (VoutIs).  Sums of      *)
(* values are those of SumProofs, one input or output at a time.           *)
(***************************************************************************)
EXTENDS Inscriptions, SumProofs, SequenceTheorems

----------------------------------------------------------------------------
(* Sums of the values before an input or an output. *)

LEMMA BeforeFirst == ASSUME NEW v PROVE Before(v, 1) = 0
<1>1. 1..(1 - 1) = {}
  OBVIOUS
<1> QED BY <1>1, SumEmpty DEF Before

LEMMA BeforeNext ==
  ASSUME NEW v \in Seq(Nat), NEW i \in 1..Len(v)
  PROVE  /\ Before(v, i) \in Nat /\ Before(v, i + 1) \in Nat
         /\ Before(v, i + 1) = Before(v, i) + v[i]
<1> PICK S, T : S = 1..(i - 1) /\ T = 1..((i + 1) - 1)
  OBVIOUS
<1>1. T = S \cup {i} /\ i \notin S /\ \A x \in S \cup {i} : v[x] \in Nat
  OBVIOUS
<1>2. IsFiniteSet(S) /\ IsFiniteSet(T)
  BY FS_Interval
<1>3. SumFunctionOnSet(v, S \cup {i}) = SumFunctionOnSet(v, S) + v[i]
  BY <1>1, <1>2, SumAdd
<1>4. SumFunctionOnSet(v, S) \in Nat /\ SumFunctionOnSet(v, T) \in Nat
  BY <1>1, <1>2, SumNat
<1>5. Before(v, i) = SumFunctionOnSet(v, S) /\ Before(v, i + 1) = SumFunctionOnSet(v, T)
  BY DEF Before
<1> QED BY <1>1, <1>3, <1>4, <1>5

LEMMA BeforeLast ==
  ASSUME NEW v \in Seq(Nat)
  PROVE  SumOf(v) = Before(v, Len(v) + 1) /\ SumOf(v) \in Nat
<1> PICK n \in Nat : n = Len(v)
  OBVIOUS
<1>1. DOMAIN v = 1..n /\ 1..((n + 1) - 1) = 1..n /\ \A x \in 1..n : v[x] \in Nat
  OBVIOUS
<1>2. SumOf(v) = SumFunctionOnSet(v, 1..n) /\ Before(v, n + 1) = SumFunctionOnSet(v, 1..n)
  BY <1>1 DEF SumOf, SumFunction, Before
<1>3. IsFiniteSet(1..n)
  BY FS_Interval
<1>4. SumFunctionOnSet(v, 1..n) \in Nat
  BY <1>1, <1>3, SumNat
<1> QED BY <1>2, <1>4

LEMMA BeforeNat ==
  ASSUME NEW v \in Seq(Nat), NEW i \in 1..(Len(v) + 1)
  PROVE  Before(v, i) \in Nat
<1>1. CASE i \in 1..Len(v)
  BY <1>1, BeforeNext
<1>2. CASE i = Len(v) + 1
  BY <1>2, BeforeLast
<1> QED BY <1>1, <1>2

LEMMA BeforeGrows ==
  ASSUME NEW v \in Seq(Nat), NEW i \in 1..(Len(v) + 1), NEW j \in i..(Len(v) + 1)
  PROVE  Before(v, i) <= Before(v, j)
<1> PICK n \in Nat : n = Len(v)
  OBVIOUS
<1> DEFINE P == {d \in Nat : i + d <= n + 1 => Before(v, i) <= Before(v, i + d)}
<1>1. 0 \in P
  <2>1. i + 0 = i /\ Before(v, i) \in Nat
    BY BeforeNat
  <2> QED BY <2>1
<1>2. ASSUME NEW d \in P PROVE d + 1 \in P
  <2> SUFFICES ASSUME i + (d + 1) <= n + 1 PROVE Before(v, i) <= Before(v, i + (d + 1))
    OBVIOUS
  <2> PICK m \in 1..n : m = i + d
    OBVIOUS
  <2>1. Before(v, i) <= Before(v, m)
    OBVIOUS
  <2>2. /\ Before(v, m) \in Nat /\ Before(v, m + 1) \in Nat
        /\ Before(v, m + 1) = Before(v, m) + v[m] /\ v[m] \in Nat
    BY BeforeNext
  <2>3. Before(v, i) \in Nat
    BY BeforeNat
  <2>4. m + 1 = i + (d + 1)
    OBVIOUS
  <2> QED BY <2>1, <2>2, <2>3, <2>4
<1> HIDE DEF P
<1>3. P = Nat
  BY <1>1, <1>2, SetInduction DEF P
<1>4. j - i \in P /\ i + (j - i) = j
  BY <1>3
<1> QED BY <1>4 DEF P

----------------------------------------------------------------------------
(* Positions among the satoshis of a sequence of values. *)

\* Position p is the k-th satoshi of value i.
IsAt(v, p, i, k) == i \in 1..Len(v) /\ k \in Nat /\ k < v[i] /\ p = Before(v, i) + k

LEMMA AtFields ==
  ASSUME NEW v \in Seq(Nat), NEW p, NEW i, NEW k, IsAt(v, p, i, k)
  PROVE  /\ i \in 1..Len(v) /\ Before(v, i) \in Nat /\ p \in Nat
         /\ k = p - Before(v, i) /\ Before(v, i) <= p
         /\ Before(v, i + 1) \in Nat /\ p < Before(v, i + 1)
<1>1. i \in 1..Len(v) /\ k \in Nat /\ k < v[i] /\ p = Before(v, i) + k
  BY DEF IsAt
<1>2. v[i] \in Nat
  BY <1>1
<1>3. /\ Before(v, i) \in Nat /\ Before(v, i + 1) \in Nat
      /\ Before(v, i + 1) = Before(v, i) + v[i]
  BY <1>1, BeforeNext
<1> PICK b, c, d : b = Before(v, i) /\ c = Before(v, i + 1) /\ d = v[i]
  OBVIOUS
<1>4. b \in Nat /\ c \in Nat /\ d \in Nat /\ c = b + d /\ k \in Nat /\ k < d /\ p = b + k
  BY <1>1, <1>2, <1>3
<1>5. p \in Nat /\ k = p - b /\ b <= p /\ p < c
  BY ONLY <1>4
<1> QED BY <1>1, <1>3, <1>5

LEMMA AtOrder ==
  ASSUME NEW v \in Seq(Nat), NEW p, NEW i, NEW k, IsAt(v, p, i, k), NEW j, NEW m, IsAt(v, p, j, m)
  PROVE  ~(i < j)
<1> SUFFICES ASSUME i < j PROVE FALSE
  OBVIOUS
<1>1. i \in 1..Len(v) /\ p \in Nat /\ Before(v, i + 1) \in Nat /\ p < Before(v, i + 1)
  BY AtFields
<1>2. j \in 1..Len(v) /\ Before(v, j) \in Nat /\ Before(v, j) <= p
  BY AtFields
<1>3. Before(v, i + 1) <= Before(v, j)
  <2>1. i + 1 \in 1..(Len(v) + 1) /\ j \in (i + 1)..(Len(v) + 1)
    BY <1>1, <1>2
  <2> QED BY <2>1, BeforeGrows
<1> PICK c, b : c = Before(v, i + 1) /\ b = Before(v, j)
  OBVIOUS
<1>4. p \in Nat /\ c \in Nat /\ b \in Nat /\ p < c /\ b <= p /\ c <= b
  BY <1>1, <1>2, <1>3
<1> QED BY ONLY <1>4

LEMMA AtUnique ==
  ASSUME NEW v \in Seq(Nat), NEW p, NEW i, NEW k, IsAt(v, p, i, k), NEW j, NEW m, IsAt(v, p, j, m)
  PROVE  i = j /\ k = m
<1>1. ~(i < j) /\ ~(j < i)
  BY AtOrder
<1>2. i \in 1..Len(v) /\ j \in 1..Len(v) /\ k = p - Before(v, i) /\ m = p - Before(v, j)
  BY AtFields
<1>3. i = j
  BY <1>1, <1>2
<1> QED BY <1>2, <1>3

LEMMA AtInSum ==
  ASSUME NEW v \in Seq(Nat), NEW p, NEW i, NEW k, IsAt(v, p, i, k)
  PROVE  p \in Nat /\ p < SumOf(v)
<1> PICK n \in Nat : n = Len(v)
  OBVIOUS
<1>1. i \in 1..n /\ p \in Nat /\ Before(v, i + 1) \in Nat /\ p < Before(v, i + 1)
  BY AtFields
<1>2. Before(v, i + 1) <= Before(v, n + 1)
  <2>1. i + 1 \in 1..(n + 1) /\ n + 1 \in (i + 1)..(n + 1)
    BY <1>1
  <2> QED BY <2>1, BeforeGrows
<1>3. SumOf(v) = Before(v, n + 1) /\ SumOf(v) \in Nat
  BY BeforeLast
<1> QED BY <1>1, <1>2, <1>3

\* The loop of get_output_index_by_input stops in the output that holds the satoshi.
LEMMA OutputAtIs ==
  ASSUME NEW v \in Seq(Nat), NEW p \in Nat, p < SumOf(v)
  PROVE  /\ OutputAt(p, v) = <<OutputAt(p, v)[1], OutputAt(p, v)[2]>>
         /\ IsAt(v, p, OutputAt(p, v)[1], OutputAt(p, v)[2])
<1> PICK n \in Nat : n = Len(v)
  OBVIOUS
<1> DEFINE S == {i \in 1..n : InOutput(p, v, i)}
<1>1. SumOf(v) = Before(v, n + 1)
  BY BeforeLast
<1>2. n \in S
  <2>1. n # 0
    <3> SUFFICES ASSUME n = 0 PROVE FALSE
      OBVIOUS
    <3>1. Before(v, n + 1) = 0
      BY BeforeFirst
    <3> QED BY <1>1, <3>1
  <2> QED BY <1>1, <2>1 DEF InOutput
<1> PICK m \in S : \A i \in S : m <= i
  <2>1. S \subseteq Nat /\ S # {}
    BY <1>2
  <2> HIDE DEF S
  <2> QED BY <2>1, Least
<1>3. m \in DOMAIN v /\ InOutput(p, v, m) /\ \A w \in 1..(m - 1) : ~InOutput(p, v, w)
  OBVIOUS
<1> DEFINE i == CHOOSE i \in DOMAIN v : InOutput(p, v, i) /\ \A w \in 1..(i - 1) : ~InOutput(p, v, w)
<1>4. i \in DOMAIN v /\ InOutput(p, v, i) /\ \A w \in 1..(i - 1) : ~InOutput(p, v, w)
  BY <1>3
<1>5. OutputAt(p, v) = <<i, p - Before(v, i)>>
  BY DEF OutputAt
<1> HIDE DEF i, S
<1>6. i \in 1..n /\ p < Before(v, i + 1)
  BY <1>4 DEF InOutput
<1>7. Before(v, i) <= p
  <2>1. CASE i = 1
    BY <2>1, BeforeFirst
  <2>2. CASE i # 1
    <3> PICK w \in 1..(i - 1) : w + 1 = i
      BY <1>6, <2>2
    <3>1. ~(p < Before(v, i)) /\ Before(v, i) \in Nat
      BY <1>4, <1>6, BeforeNat DEF InOutput
    <3> QED BY <3>1
  <2> QED BY <2>1, <2>2
<1>8. /\ Before(v, i) \in Nat /\ Before(v, i + 1) = Before(v, i) + v[i] /\ v[i] \in Nat
  BY <1>6, BeforeNext
<1>9. IsAt(v, p, i, p - Before(v, i))
  <2>1. p - Before(v, i) \in Nat /\ p - Before(v, i) < v[i] /\ p = Before(v, i) + (p - Before(v, i))
    BY ONLY <1>6, <1>7, <1>8, p \in Nat
  <2> QED BY <1>6, <2>1 DEF IsAt
<1> QED BY <1>5, <1>9

\* What it returns is the only place of the satoshi.
LEMMA OutputAtOf ==
  ASSUME NEW v \in Seq(Nat), NEW p, NEW i, NEW k, IsAt(v, p, i, k)
  PROVE  OutputAt(p, v) = <<i, k>>
<1>1. p \in Nat /\ p < SumOf(v)
  BY AtInSum
<1> PICK j, m : j = OutputAt(p, v)[1] /\ m = OutputAt(p, v)[2]
  OBVIOUS
<1>2. OutputAt(p, v) = <<j, m>> /\ IsAt(v, p, j, m)
  BY <1>1, OutputAtIs
<1>3. i = j /\ k = m
  BY <1>2, AtUnique
<1> QED BY <1>2, <1>3

LEMMA GetOutput ==
  ASSUME NEW v \in Seq(Nat), NEW p \in Nat
  PROVE  /\ p < SumOf(v) => get_output(p, v) = OutputAt(p, v)
         /\ ~(p < SumOf(v)) => get_output(p, v) = Nil
<1>1. p # Nil /\ SumOf(v) \in Nat
  BY InscriptionsAssumption, BeforeLast
<1> QED BY <1>1 DEF get_output

\* calc_offsets drops only inputs that are fee altogether.
LEMMA KeptIs ==
  ASSUME NEW v \in Seq(Nat), NEW fee \in Nat, fee <= SumOf(v)
  PROVE  /\ KeptInputs(v, fee) \in 0..Len(v)
         /\ \A i \in 1..Len(v) : i > KeptInputs(v, fee) => Before(v, i) >= SumOf(v) - fee
<1> PICK len \in Nat : len = Len(v)
  OBVIOUS
<1> DEFINE left(i) == fee - (SumOf(v) - Before(v, i + 1))
           C(n) == /\ n # 0 => v[n] > left(n)
                   /\ \A i \in (n + 1)..len : v[i] =< left(i)
           S == {n \in 0..len : \A i \in (n + 1)..len : v[i] =< left(i)}
<1>1. ASSUME NEW i \in 1..len PROVE /\ v[i] \in Nat /\ Before(v, i) \in Nat /\ left(i) \in Int
                                    /\ v[i] =< left(i) => Before(v, i) >= SumOf(v) - fee
  <2>1. /\ v[i] \in Nat /\ Before(v, i) \in Nat /\ Before(v, i + 1) \in Nat
        /\ Before(v, i + 1) = Before(v, i) + v[i]
    BY BeforeNext
  <2>2. SumOf(v) \in Nat
    BY BeforeLast
  <2> PICK b, c, x, t : b = Before(v, i) /\ c = Before(v, i + 1) /\ x = v[i] /\ t = SumOf(v)
    OBVIOUS
  <2>3. b \in Nat /\ x \in Nat /\ c = b + x /\ t \in Nat /\ fee \in Nat
    BY <2>1, <2>2
  <2>4. fee - (t - c) \in Int /\ (x =< fee - (t - c) => b >= t - fee)
    BY ONLY <2>3
  <2> QED BY <2>1, <2>4
<1>2. \E n \in 0..len : C(n)
  <2>1. len \in S /\ S \subseteq Nat
    OBVIOUS
  <2> PICK m \in S : \A n \in S : m <= n
    BY <2>1, Least
  <2>2. CASE m = 0
    BY <2>2
  <2>3. CASE m # 0
    <3>1. m \in 1..len /\ m - 1 \in 0..len
      BY <2>3
    <3>4. m - 1 \notin S
      <4> HIDE DEF S
      <4> QED BY <3>1
    <3> PICK i \in ((m - 1) + 1)..len : ~(v[i] =< left(i))
      BY <3>1, <3>4
    <3>2. i = m
      BY <3>1
    <3>3. v[m] > left(m)
      BY <1>1, <3>1, <3>2
    <3> QED BY <3>3
  <2> QED BY <2>2, <2>3
<1> PICK n : n = KeptInputs(v, fee)
  OBVIOUS
<1>3. n \in 0..len /\ C(n)
  BY <1>2 DEF KeptInputs
<1> HIDE DEF left
<1> QED BY <1>1, <1>3


----------------------------------------------------------------------------
(* FlattenSeq puts the satoshis of the inputs one after the other. *)

\* g is the recursive function of FlattenSeq, up to n.
Flattens(q, n, g) == g = [i \in 1..n |-> IF i = 1 THEN q[i] ELSE g[i - 1] \o q[i]]

LEMMA FlattenExists ==
  ASSUME NEW q, NEW n \in Nat
  PROVE  \E g : Flattens(q, n, g)
<1> DEFINE P == {m \in Nat : \E g : Flattens(q, m, g)}
<1>1. 0 \in P
  <2>1. Flattens(q, 0, [i \in 1..0 |-> 0])
    BY DEF Flattens
  <2> QED BY <2>1
<1>2. ASSUME NEW m \in P PROVE m + 1 \in P
  <2> PICK g : Flattens(q, m, g)
    OBVIOUS
  <2> DEFINE h == [i \in 1..(m + 1) |-> IF i = 1 THEN q[i] ELSE g[i - 1] \o q[i]]
  <2>1. ASSUME NEW i \in 1..m PROVE h[i] = g[i]
    <3>1. g[i] = IF i = 1 THEN q[i] ELSE g[i - 1] \o q[i]
      BY DEF Flattens
    <3>2. i \in 1..(m + 1)
      OBVIOUS
    <3> QED BY <3>1, <3>2
  <2>2. ASSUME NEW i \in 1..(m + 1) PROVE h[i] = IF i = 1 THEN q[i] ELSE h[i - 1] \o q[i]
    <3>1. CASE i = 1
      BY <3>1
    <3>2. CASE i # 1
      <4>1. i - 1 \in 1..m
        BY <3>2
      <4> QED BY <2>1, <3>2, <4>1
    <3> QED BY <3>1, <3>2
  <2>3. Flattens(q, m + 1, h)
    BY <2>2 DEF Flattens
  <2> QED BY <2>3
<1> HIDE DEF P
<1>3. P = Nat
  BY <1>1, <1>2, SetInduction DEF P
<1> QED BY <1>3 DEF P

\* r is s, with the entries from position b on those of e.
Extends(r, s, e, S) ==
  /\ r \in Seq(S) /\ Len(r) = Len(s) + Len(e)
  /\ \A k \in 1..Len(s) : r[k] = s[k]
  /\ \A k \in 1..Len(e) : r[Len(s) + k] = e[k]

LEMMA Concatenated ==
  ASSUME NEW S, NEW s \in Seq(S), NEW e \in Seq(S)
  PROVE  Extends(s \o e, s, e, S)
BY DEF Extends

LEMMA FlattenIs ==
  ASSUME NEW S, NEW q \in Seq(Seq(S)), Len(q) > 0,
         NEW v \in Seq(Nat), Len(v) = Len(q), \A i \in 1..Len(q) : v[i] = Len(q[i])
  PROVE  /\ FlattenSeq(q) \in Seq(S)
         /\ Len(FlattenSeq(q)) = SumOf(v)
         /\ \A i \in 1..Len(q) : \A k \in 1..Len(q[i]) : FlattenSeq(q)[Before(v, i) + k] = q[i][k]
<1> PICK n \in Nat \ {0} : n = Len(q)
  OBVIOUS
<1> DEFINE g == CHOOSE g : Flattens(q, n, g)
<1>1. Flattens(q, n, g)
  BY FlattenExists
<1>2. FlattenSeq(q) = g[n]
  BY DEF FlattenSeq, Flattens
<1> HIDE DEF g
<1>3. v \in Seq(Nat) /\ Len(v) = n /\ \A i \in 1..n : v[i] = Len(q[i]) /\ q[i] \in Seq(S)
  OBVIOUS
<1> DEFINE Flat(m) == /\ g[m] \in Seq(S) /\ Len(g[m]) = Before(v, m + 1)
                      /\ \A i \in 1..m : \A k \in 1..Len(q[i]) : g[m][Before(v, i) + k] = q[i][k]
           P == {d \in Nat : d + 1 <= n => Flat(d + 1)}
<1>4. 0 \in P
  <2>1. g[1] = q[1]
    BY <1>1 DEF Flattens
  <2>2. /\ Before(v, 1) = 0 /\ Before(v, 1 + 1) = Before(v, 1) + v[1]
        /\ v[1] = Len(q[1]) /\ Len(q[1]) \in Nat /\ q[1] \in Seq(S)
    <3>1. 1 \in 1..n /\ 1 \in 1..Len(v)
      BY <1>3
    <3>2. Before(v, 1) = 0 /\ Before(v, 1 + 1) = Before(v, 1) + v[1]
      BY <1>3, <3>1, BeforeFirst, BeforeNext
    <3>3. v[1] = Len(q[1]) /\ q[1] \in Seq(S)
      BY <1>3, <3>1
    <3> QED BY <3>2, <3>3
  <2>3. ASSUME NEW i \in 1..1, NEW k \in 1..Len(q[i]) PROVE g[1][Before(v, i) + k] = q[i][k]
    <3>1. i = 1 /\ Before(v, i) + k = k
      BY <2>2
    <3> QED BY <2>1, <3>1
  <2>4. Flat(1)
    BY <2>1, <2>2, <2>3
  <2>5. 0 + 1 = 1
    OBVIOUS
  <2> HIDE DEF Flat
  <2> QED BY <2>4, <2>5
<1>5. ASSUME NEW d \in P PROVE d + 1 \in P
  <2> SUFFICES ASSUME (d + 1) + 1 <= n PROVE Flat((d + 1) + 1)
    OBVIOUS
  <2> PICK m \in 1..n : m = d + 1 /\ m + 1 \in 1..n
    OBVIOUS
  <2>1. Flat(m)
    OBVIOUS
  <2>2. g[m + 1] = g[m] \o q[m + 1]
    <3>1. m + 1 # 1 /\ (m + 1) - 1 = m
      OBVIOUS
    <3> QED BY <1>1, <3>1 DEF Flattens
  <2> PICK s, e, r : s = g[m] /\ e = q[m + 1] /\ r = g[m + 1]
    OBVIOUS
  <2>3. s \in Seq(S) /\ e \in Seq(S) /\ r = s \o e
    BY <1>3, <2>1, <2>2
  <2>4. Extends(r, s, e, S)
    BY <2>3, Concatenated
  <2>5. /\ Before(v, m + 1) \in Nat /\ Before(v, (m + 1) + 1) = Before(v, m + 1) + v[m + 1]
        /\ v[m + 1] = Len(e) /\ Len(s) = Before(v, m + 1)
    BY <1>3, <2>1, BeforeNext
  <2>6. r \in Seq(S) /\ Len(r) = Before(v, (m + 1) + 1)
    BY <2>4, <2>5 DEF Extends
  <2>7. ASSUME NEW i \in 1..(m + 1), NEW k \in 1..Len(q[i])
        PROVE  r[Before(v, i) + k] = q[i][k]
    <3>1. CASE i = m + 1
      <4>1. k \in 1..Len(e) /\ r[Len(s) + k] = e[k]
        BY <2>4, <3>1 DEF Extends
      <4> QED BY <2>5, <3>1, <4>1
    <3>2. CASE i # m + 1
      <4>0. i \in 1..m
        BY <3>2
      <4>1. i \in 1..m /\ s[Before(v, i) + k] = q[i][k]
        BY <2>1, <4>0
      <4>2. Before(v, i) + k \in 1..Len(s)
        <5>1. /\ Before(v, i) \in Nat /\ Before(v, i + 1) \in Nat
              /\ Before(v, i + 1) = Before(v, i) + v[i] /\ v[i] = Len(q[i])
          <6>1. i \in 1..n /\ i \in 1..Len(v)
            BY <1>3, <4>0
          <6> QED BY <1>3, <6>1, BeforeNext
        <5>2. Before(v, i + 1) <= Before(v, m + 1)
          <6>1. i + 1 \in 1..(n + 1) /\ m + 1 \in (i + 1)..(n + 1)
            BY ONLY <4>0, m \in 1..n, n \in Nat \ {0}
          <6> QED BY <1>3, <6>1, BeforeGrows
        <5> PICK b, c, x, y : b = Before(v, i) /\ c = Before(v, i + 1) /\ x = Len(q[i])
                              /\ y = Before(v, m + 1)
          OBVIOUS
        <5>3. /\ b \in Nat /\ c \in Nat /\ y \in Nat /\ c = b + x /\ c <= y /\ k \in 1..x /\ x \in Nat
          <6>1. b \in Nat /\ c \in Nat /\ c = b + x
            BY <5>1
          <6>2. y \in Nat /\ c <= y
            BY <2>5, <5>2
          <6>3. x \in Nat /\ k \in 1..x
            BY ONLY <6>1, k \in 1..Len(q[i]), x = Len(q[i])
          <6> QED BY <6>1, <6>2, <6>3
        <5>4. b + k \in 1..y
          BY ONLY <5>3
        <5> QED BY <2>5, <5>4
      <4> QED BY <2>4, <4>1, <4>2 DEF Extends
    <3> QED BY <3>1, <3>2
  <2>8. (d + 1) + 1 = m + 1
    OBVIOUS
  <2> HIDE DEF P
  <2>9. Flat(m + 1)
    BY <2>6, <2>7
  <2> QED BY <2>8, <2>9
<1> HIDE DEF P, Flat
<1>6. P = Nat
  BY <1>4, <1>5, SetInduction DEF P
<1>7. Flat(n)
  <2>1. n - 1 \in P /\ (n - 1) + 1 = n
    BY <1>6
  <2> QED BY <2>1 DEF P
<1>8. SumOf(v) = Before(v, n + 1)
  BY <1>3, BeforeLast
<1> QED BY <1>2, <1>7, <1>8 DEF Flat

----------------------------------------------------------------------------
(* The invariant. *)

\* The blocks whose coinbase is there.
Done == IF inBlock THEN blocks - 1 ELSE blocks

ChainTyped ==
  /\ utxo \in [DOMAIN utxo -> Seq(Satoshis) \ {<<>>}] /\ DOMAIN utxo \subseteq Outpoints
  /\ inscribed \subseteq Satoshis
  /\ feeSats \in Seq(Satoshis) /\ total_amount = Len(feeSats)
  /\ loaded \subseteq Outpoints /\ loaded \cap DOMAIN utxo = {}
  /\ txs \in Nat /\ blocks \in Nat /\ inBlock \in BOOLEAN /\ jubilee \in BOOLEAN
  /\ ~inBlock => /\ tx = Nil /\ loaded = {} /\ offsets = {} /\ partials = NoRows
                 /\ leaked = {} /\ feeSats = <<>>
  /\ inBlock => blocks > 0

\* Transactions and coinbases still to come have other numbers, new satoshis others than all old ones.
Dated ==
  /\ \A o \in DOMAIN utxo \cup loaded : o[1] <= txs /\ 0 - Done <= o[1]
  /\ \A s \in inscribed : s[1] <= Done
  /\ \A o \in DOMAIN utxo : \A k \in DOMAIN utxo[o] : utxo[o][k][1] <= Done
  /\ \A k \in DOMAIN feeSats : feeSats[k][1] <= Done

\* A satoshi is in one place.
Unique ==
  /\ \A o, p \in DOMAIN utxo : \A k \in DOMAIN utxo[o], m \in DOMAIN utxo[p] :
       utxo[o][k] = utxo[p][m] => o = p /\ k = m
  /\ \A k, m \in DOMAIN feeSats : feeSats[k] = feeSats[m] => k = m
  /\ \A o \in DOMAIN utxo : \A k \in DOMAIN utxo[o], m \in DOMAIN feeSats : utxo[o][k] # feeSats[m]

RowsTyped ==
  /\ \A l \in db_offsets : /\ l = <<l[1], l[2]>> /\ l[1] \in DOMAIN utxo \cup loaded
                           /\ tx # Nil => l[1][1] # tx.id
  /\ \A o \in DOMAIN partials : partials[o] \in Seq(Scripts)
  /\ \A o \in DOMAIN db_partials : db_partials[o] \in Seq(Scripts)

\* The fees before those of the transaction.
Base == Len(feeSats) - (SumOf(tx.values) - SumOf(tx.outs))

TxTyped ==
  /\ tx \in Txs /\ tx.id = txs /\ inBlock /\ txs # 0
  /\ \A i \in DOMAIN tx.values : tx.values[i] > 0
  /\ Len(tx.inputs) = Len(tx.values) /\ Len(tx.scripts) = Len(tx.values)
  /\ input_index \in 1..Len(tx.values)
  /\ SumOf(tx.outs) <= SumOf(tx.values)
  /\ Len(tx.sats) = SumOf(tx.values)
  /\ \A i, j \in DOMAIN tx.inputs : tx.inputs[i] = tx.inputs[j] => i = j
  /\ \A i \in DOMAIN tx.inputs : tx.inputs[i] \in loaded /\ tx.inputs[i][1] # tx.id
  /\ \A i \in DOMAIN tx.scripts : tx.scripts[i].tap => jubilee \/ Bells
  /\ \A p \in DOMAIN tx.sats : tx.sats[p][1] <= Done

\* Where the satoshis of the transaction went.
SatsSpread ==
  /\ \A v \in DOMAIN tx.outs : tx.outs[v] > 0 =>
       /\ <<tx.id, v>> \in DOMAIN utxo
       /\ Len(utxo[<<tx.id, v>>]) = tx.outs[v]
       /\ \A k \in 1..tx.outs[v] : utxo[<<tx.id, v>>][k] = tx.sats[Before(tx.outs, v) + k]
  /\ \A o \in DOMAIN utxo : o[1] = tx.id => o[2] \in DOMAIN tx.outs /\ tx.outs[o[2]] > 0
  /\ Base >= 0
  /\ \A m \in 1..(SumOf(tx.values) - SumOf(tx.outs)) :
       feeSats[Base + m] = tx.sats[SumOf(tx.outs) + m]

SatsApart ==
  /\ \A p, q \in DOMAIN tx.sats : tx.sats[p] = tx.sats[q] => p = q
  /\ \A o \in DOMAIN utxo : o[1] # tx.id =>
       \A p \in DOMAIN tx.sats, k \in DOMAIN utxo[o] : tx.sats[p] # utxo[o][k]
  /\ \A p \in DOMAIN tx.sats, m \in 1..Base : tx.sats[p] # feeSats[m]

TxOk == tx # Nil => TxTyped /\ SatsSpread /\ SatsApart

Inscribed(sats, insc) == {k \in 0..(Len(sats) - 1) : sats[k + 1] \in insc}
Rows(offs) == offs \cup {m \in db_offsets : m[1] \notin loaded}

\* Every row is that of an inscribed satoshi, and every such satoshi has one.
Rested(offs, leak, insc) ==
  /\ \A l \in Rows(offs) : /\ l = <<l[1], l[2]>> /\ l[1] \in DOMAIN utxo
                           /\ l[2] \in Inscribed(utxo[l[1]], insc)
  /\ \A o \in DOMAIN utxo : \A k \in Inscribed(utxo[o], insc) : <<o, k>> \in Rows(offs)
  /\ leak = Inscribed(feeSats, insc)

AtRest == tx = Nil => Rested(offsets, leaked, inscribed)

\* The row of position p of the transaction, once its input is done.
Loc(p) == LocationOf(OutputAt(p, tx.outs))
Moved(offs, leak, p) ==
  IF p < SumOf(tx.outs) THEN Loc(p) \in offs ELSE Base + p - SumOf(tx.outs) \in leak
\* ... or before.
Waiting(offs, i, p) ==
  \E j \in i..Len(tx.values) : \E k \in 0..(tx.values[j] - 1) :
    p = Before(tx.values, j) + k /\ <<tx.inputs[j], k>> \in offs

Mid(offs, leak, insc, i) ==
  /\ \A l \in offs :
       /\ l = <<l[1], l[2]>>
       /\ \/ l[1] \in DOMAIN utxo /\ l[2] \in 0..(Len(utxo[l[1]]) - 1)
          \/ \E j \in i..Len(tx.values) : l[1] = tx.inputs[j] /\ l[2] \in 0..(tx.values[j] - 1)
  /\ \A o \in DOMAIN utxo : o[1] # tx.id =>
       \A k \in 0..(Len(utxo[o]) - 1) : <<o, k>> \in Rows(offs) <=> utxo[o][k + 1] \in insc
  /\ leak \subseteq 0..(Len(feeSats) - 1)
  /\ \A m \in 0..(Base - 1) : m \in leak <=> feeSats[m + 1] \in insc
  /\ \A p \in 0..(Len(tx.sats) - 1) :
       tx.sats[p + 1] \in insc <=> Moved(offs, leak, p) \/ Waiting(offs, i, p)

DbRowsIn ==
  \A l \in db_offsets : l[1] \notin loaded => l[2] \in 0..(Len(utxo[l[1]]) - 1)

InTx == tx # Nil => Mid(offsets, leaked, inscribed, input_index) /\ DbRowsIn

IInv == ChainTyped /\ Dated /\ Unique /\ RowsTyped /\ TxOk /\ AtRest /\ InTx
----------------------------------------------------------------------------
(* Positions of the current transaction. *)

LEMMA TxFields ==
  ASSUME TxTyped
  PROVE  /\ tx # Nil /\ tx.id \in Nat
         /\ tx.values \in Seq(Nat) /\ tx.outs \in Seq(Nat) /\ tx.sats \in Seq(Satoshis)
         /\ tx.inputs \in Seq(Outpoints) /\ tx.scripts \in Seq(Scripts)
         /\ SumOf(tx.values) \in Nat /\ SumOf(tx.outs) \in Nat
<1>1. /\ tx # Nil /\ tx.id \in Nat
      /\ tx.values \in Seq(Nat) /\ tx.outs \in Seq(Nat) /\ tx.sats \in Seq(Satoshis)
      /\ tx.inputs \in Seq(Outpoints) /\ tx.scripts \in Seq(Scripts)
  BY InscriptionsAssumption DEF TxTyped, Txs
<1> QED BY <1>1, BeforeLast

LEMMA InputFields ==
  ASSUME TxTyped, NEW i \in 1..Len(tx.values)
  PROVE  /\ i \in DOMAIN tx.inputs /\ i \in DOMAIN tx.scripts
         /\ tx.inputs[i] \in loaded /\ tx.inputs[i][1] # tx.id
         /\ tx.values[i] \in Nat /\ tx.values[i] > 0 /\ tx.scripts[i] \in Scripts
         /\ \A j \in 1..Len(tx.values) : tx.inputs[i] = tx.inputs[j] => i = j
<1> PICK n \in Nat : n = Len(tx.values)
  BY TxFields
<1>1. DOMAIN tx.inputs = 1..n /\ DOMAIN tx.scripts = 1..n /\ DOMAIN tx.values = 1..n
  BY TxFields DEF TxTyped
<1>2. /\ \A j \in DOMAIN tx.values : tx.values[j] > 0
      /\ \A j \in DOMAIN tx.inputs : tx.inputs[j] \in loaded /\ tx.inputs[j][1] # tx.id
      /\ \A j, m \in DOMAIN tx.inputs : tx.inputs[j] = tx.inputs[m] => j = m
  BY DEF TxTyped
<1>3. tx.values[i] \in Nat /\ tx.scripts[i] \in Scripts
  BY <1>1, TxFields
<1> QED BY <1>1, <1>2, <1>3

\* A position of the transaction is that of a satoshi.
LEMMA SatIndex ==
  ASSUME TxTyped, NEW p \in 0..(Len(tx.sats) - 1)
  PROVE  p \in Nat /\ p + 1 \in DOMAIN tx.sats
<1> PICK s : s = tx.sats
  OBVIOUS
<1>1. s \in Seq(Satoshis) /\ p \in 0..(Len(s) - 1)
  BY TxFields
<1>2. p \in Nat /\ p + 1 \in DOMAIN s
  BY ONLY <1>1
<1> QED BY <1>2

\* The k-th satoshi of input i, as a position of the transaction.
InputAt(i, k, p) == i \in 1..Len(tx.values) /\ k \in 0..(tx.values[i] - 1) /\ p = Before(tx.values, i) + k

LEMMA InputAtIs ==
  ASSUME TxTyped, NEW i, NEW k, NEW p
  PROVE  InputAt(i, k, p) <=> IsAt(tx.values, p, i, k)
<1>1. ASSUME i \in 1..Len(tx.values) PROVE tx.values[i] \in Nat
  <2>1. tx.values \in Seq(Nat)
    BY TxFields
  <2> QED BY ONLY <1>1, <2>1
<1> QED BY <1>1 DEF InputAt, IsAt

LEMMA InputAtPosition ==
  ASSUME TxTyped, NEW i, NEW k, NEW p, InputAt(i, k, p)
  PROVE  p \in 0..(Len(tx.sats) - 1)
<1>1. p \in Nat /\ p < SumOf(tx.values)
  BY TxFields, InputAtIs, AtInSum
<1> QED BY <1>1, TxFields DEF TxTyped

LEMMA LocIs ==
  ASSUME TxTyped, NEW p \in Nat, p < SumOf(tx.outs)
  PROVE  \E v, k : Loc(p) = <<<<tx.id, v>>, k>> /\ OutputAt(p, tx.outs) = <<v, k>> /\ IsAt(tx.outs, p, v, k)
<1> PICK t : t = OutputAt(p, tx.outs)
  OBVIOUS
<1>1. t = <<t[1], t[2]>> /\ IsAt(tx.outs, p, t[1], t[2])
  BY TxFields, OutputAtIs
<1>2. Loc(p) = <<<<tx.id, t[1]>>, t[2]>>
  BY DEF Loc, LocationOf
<1> QED BY <1>1, <1>2

\* Where the code moves an inscription: to the output of its position, or into the fee.
LEMMA TargetIs ==
  ASSUME TxTyped, NEW i, NEW k, NEW p, InputAt(i, k, p)
  PROVE  /\ p < SumOf(tx.outs) => Target(i, k) = OutputAt(p, tx.outs) /\ Target(i, k) # Nil
         /\ ~(p < SumOf(tx.outs)) => Target(i, k) = Nil
<1> PICK S, V, n, v : /\ S = SumOf(tx.outs) /\ V = SumOf(tx.values) /\ v = tx.values
                      /\ n = KeptInputs(v, V - S)
  OBVIOUS
<1>1. S \in Nat /\ V \in Nat /\ S <= V /\ V = SumOf(v) /\ v \in Seq(Nat)
  BY TxFields DEF TxTyped
<1>2. V - S \in Nat /\ V - S <= V /\ V - (V - S) = S
  BY <1>1
<1>3. n \in 0..Len(v) /\ \A j \in 1..Len(v) : j > n => Before(v, j) >= S
  BY <1>1, <1>2, KeptIs
<1>4. i \in 1..Len(v) /\ k \in Nat /\ p = Before(v, i) + k /\ p \in Nat /\ Before(v, i) \in Nat
  <2>1. i \in 1..Len(v) /\ k \in 0..(v[i] - 1) /\ p = Before(v, i) + k
    BY DEF InputAt
  <2>2. Before(v, i) \in Nat
    BY <1>1, <2>1, BeforeNext
  <2> QED BY <2>1, <2>2
<1>5. Cum(i, k) = IF i \in 1..n THEN p ELSE Nil
  BY <1>4 DEF Cum, calc_offsets
<1>6. CASE i \in 1..n
  <2>1. Target(i, k) = get_output(p, tx.outs)
    BY <1>5, <1>6 DEF Target
  <2>2. /\ p < S => get_output(p, tx.outs) = OutputAt(p, tx.outs)
        /\ ~(p < S) => get_output(p, tx.outs) = Nil
    BY <1>4, TxFields, GetOutput
  <2>3. p < S => OutputAt(p, tx.outs) # Nil
    <3> SUFFICES ASSUME p < S PROVE OutputAt(p, tx.outs) # Nil
      OBVIOUS
    <3> PICK w, m : OutputAt(p, tx.outs) = <<w, m>> /\ IsAt(tx.outs, p, w, m)
      BY <1>4, LocIs
    <3>1. <<w, m>> \in Nat \X Nat
      BY DEF IsAt
    <3> QED BY <3>1, InscriptionsAssumption
  <2> QED BY <2>1, <2>2, <2>3
<1>7. CASE i \notin 1..n
  <2>1. Before(v, i) >= S
    BY <1>3, <1>4, <1>7
  <2>2. ~(p < S)
    BY <1>1, <1>4, <2>1
  <2>3. Target(i, k) = Nil
    BY <1>5, <1>7 DEF Target, get_output
  <2> QED BY <2>2, <2>3
<1> QED BY <1>6, <1>7

\* Where the code files a leaked one: behind the fees of the earlier transactions.
LEMMA LeakIs ==
  ASSUME TxTyped, ChainTyped, NEW i, NEW k, NEW p, InputAt(i, k, p)
  PROVE  LeakOffset(tx.values, i, k, tx.outs) = Base + p - SumOf(tx.outs)
<1> PICK S, V, n, b : /\ S = SumOf(tx.outs) /\ V = SumOf(tx.values) /\ n = Len(feeSats)
                      /\ b = Before(tx.values, i)
  OBVIOUS
<1>1. S \in Nat /\ V \in Nat /\ n \in Nat /\ total_amount = n
  BY TxFields DEF ChainTyped
<1>2. b \in Nat /\ k \in Int /\ p = b + k
  <2>1. i \in 1..Len(tx.values) /\ k \in 0..(tx.values[i] - 1) /\ p = b + k
    BY DEF InputAt
  <2>2. b \in Nat
    BY <2>1, TxFields, BeforeNext
  <2> QED BY <2>1, <2>2
<1> PICK l, z : l = LeakOffset(tx.values, i, k, tx.outs) /\ z = Base
  OBVIOUS
<1>3. l = total_amount - ((SumOf(tx.values) - SumOf(tx.outs))
                          - (Before(tx.values, i) + k - SumOf(tx.outs)))
  BY DEF LeakOffset, FeeOffset
<1>4. l = n - ((V - S) - (b + k - S)) /\ z = n - (V - S)
  BY <1>1, <1>3 DEF Base
<1>5. l = z + p - S
  BY ONLY <1>1, <1>2, <1>4
<1> QED BY <1>5

LEMMA LocInjective ==
  ASSUME TxTyped, NEW p \in Nat, p < SumOf(tx.outs), NEW q \in Nat, q < SumOf(tx.outs), Loc(p) = Loc(q)
  PROVE  p = q
<1> PICK v, k : Loc(p) = <<<<tx.id, v>>, k>> /\ IsAt(tx.outs, p, v, k)
  BY LocIs
<1> PICK w, m : Loc(q) = <<<<tx.id, w>>, m>> /\ IsAt(tx.outs, q, w, m)
  BY LocIs
<1>1. <<<<tx.id, v>>, k>> = <<<<tx.id, w>>, m>>
  OBVIOUS
<1>2. v = w /\ k = m
  BY ONLY <1>1
<1> QED BY <1>2 DEF IsAt

\* The output at a position holds the satoshi of that position.
LEMMA LocHolds ==
  ASSUME TxTyped, SatsSpread, NEW p \in Nat, p < SumOf(tx.outs)
  PROVE  \E v, k : /\ Loc(p) = <<<<tx.id, v>>, k>> /\ IsAt(tx.outs, p, v, k)
                   /\ <<tx.id, v>> \in DOMAIN utxo
                   /\ k \in 0..(Len(utxo[<<tx.id, v>>]) - 1)
                   /\ utxo[<<tx.id, v>>][k + 1] = tx.sats[p + 1]
<1> PICK v, k : Loc(p) = <<<<tx.id, v>>, k>> /\ IsAt(tx.outs, p, v, k)
  BY LocIs
<1>1. v \in 1..Len(tx.outs) /\ k \in Nat /\ k < tx.outs[v] /\ p = Before(tx.outs, v) + k
  BY DEF IsAt
<1>2. v \in DOMAIN tx.outs /\ tx.outs[v] \in Nat /\ tx.outs[v] > 0
  <2>1. v \in DOMAIN tx.outs /\ tx.outs[v] \in Nat
    <3>1. tx.outs \in Seq(Nat)
      BY TxFields
    <3> QED BY ONLY <1>1, <3>1
  <2> QED BY <1>1, <2>1
<1>3. /\ <<tx.id, v>> \in DOMAIN utxo /\ Len(utxo[<<tx.id, v>>]) = tx.outs[v]
      /\ \A m \in 1..tx.outs[v] : utxo[<<tx.id, v>>][m] = tx.sats[Before(tx.outs, v) + m]
  BY <1>2 DEF SatsSpread
<1>4. k + 1 \in 1..tx.outs[v] /\ k \in 0..(tx.outs[v] - 1)
  BY <1>1, <1>2
<1>5. Before(tx.outs, v) \in Nat
  BY <1>1, TxFields, BeforeNext
<1>6. Before(tx.outs, v) + (k + 1) = p + 1
  BY <1>1, <1>5
<1>7. utxo[<<tx.id, v>>][k + 1] = tx.sats[p + 1]
  BY <1>3, <1>4, <1>6
<1> QED BY <1>3, <1>4, <1>7

----------------------------------------------------------------------------
(* An input: its rows become those of the positions Q. *)

Filed(offs, leak, Q, offs2, leak2) ==
  /\ \A l : l \in offs2 <=> l \in offs \/ \E p \in Q : p < SumOf(tx.outs) /\ l = Loc(p)
  /\ \A x : x \in leak2 <=> \/ x \in leak
                            \/ \E p \in Q : ~(p < SumOf(tx.outs)) /\ x = Base + p - SumOf(tx.outs)

LEMMA LocFirst ==
  ASSUME TxTyped, NEW p \in Nat, p < SumOf(tx.outs)
  PROVE  Loc(p) = <<Loc(p)[1], Loc(p)[2]>> /\ Loc(p)[1][1] = tx.id
<1> PICK v, k : Loc(p) = <<<<tx.id, v>>, k>>
  BY LocIs
<1> QED OBVIOUS

LEMMA FiledRows ==
  ASSUME TxTyped, SatsSpread, NEW offs, NEW leak, NEW offs2, NEW leak2,
         NEW Q \in SUBSET (0..(Len(tx.sats) - 1)), Filed(offs, leak, Q, offs2, leak2)
  PROVE  /\ \A l \in offs2 : \/ l \in offs
                             \/ /\ l = <<l[1], l[2]>> /\ l[1] \in DOMAIN utxo
                                /\ l[2] \in 0..(Len(utxo[l[1]]) - 1)
         /\ offs \subseteq offs2
         /\ \A l : l[1][1] # tx.id => (l \in offs2 <=> l \in offs)
<1>1. ASSUME NEW l \in offs2, l \notin offs
      PROVE  /\ l = <<l[1], l[2]>> /\ l[1] \in DOMAIN utxo /\ l[1][1] = tx.id
             /\ l[2] \in 0..(Len(utxo[l[1]]) - 1)
  <2> PICK p \in Q : p < SumOf(tx.outs) /\ l = Loc(p)
    BY <1>1 DEF Filed
  <2>1. p \in Nat
    OBVIOUS
  <2> PICK v, k : /\ Loc(p) = <<<<tx.id, v>>, k>> /\ <<tx.id, v>> \in DOMAIN utxo
                  /\ k \in 0..(Len(utxo[<<tx.id, v>>]) - 1)
    BY <2>1, LocHolds
  <2> QED OBVIOUS
<1>2. offs \subseteq offs2
  BY DEF Filed
<1> QED BY <1>1, <1>2

LEMMA FiledLeaks ==
  ASSUME ChainTyped, TxTyped, SatsSpread, NEW offs, NEW leak, NEW offs2, NEW leak2,
         NEW Q \in SUBSET (0..(Len(tx.sats) - 1)), Filed(offs, leak, Q, offs2, leak2)
  PROVE  /\ \A x \in leak2 : x \in leak \/ x \in Base..(Len(feeSats) - 1)
         /\ leak \subseteq leak2
         /\ Base \in Nat /\ Base <= Len(feeSats)
<1> PICK S, V, n, b, N : /\ S = SumOf(tx.outs) /\ V = SumOf(tx.values) /\ n = Len(feeSats)
                         /\ b = Base /\ N = Len(tx.sats)
  OBVIOUS
<1>1. S \in Nat /\ V \in Nat /\ n \in Nat /\ b = n - (V - S) /\ b >= 0 /\ S <= V /\ N = V
  <2>1. S \in Nat /\ V \in Nat /\ S <= V /\ N = V
    BY TxFields DEF TxTyped
  <2>2. n \in Nat
    BY DEF ChainTyped
  <2>3. b = n - (V - S)
    BY DEF Base
  <2>4. b >= 0
    BY DEF SatsSpread
  <2> QED BY <2>1, <2>2, <2>3, <2>4
<1>2. ASSUME NEW x \in leak2, x \notin leak PROVE x \in b..(n - 1)
  <2> PICK p \in Q : ~(p < S) /\ x = b + p - S
    BY <1>2 DEF Filed
  <2>1. p \in 0..(N - 1)
    OBVIOUS
  <2> QED BY ONLY <1>1, <2>1, ~(p < S), x = b + p - S
<1>3. leak \subseteq leak2
  BY DEF Filed
<1>4. b \in Nat /\ b <= n
  BY ONLY <1>1
<1> QED BY <1>2, <1>3, <1>4

LEMMA FiledMoved ==
  ASSUME ChainTyped, TxTyped, SatsSpread, NEW offs, NEW leak, NEW offs2, NEW leak2,
         NEW Q \in SUBSET (0..(Len(tx.sats) - 1)), Filed(offs, leak, Q, offs2, leak2),
         NEW p \in 0..(Len(tx.sats) - 1)
  PROVE  Moved(offs2, leak2, p) <=> Moved(offs, leak, p) \/ p \in Q
<1>1. p \in Nat /\ \A q \in Q : q \in Nat
  OBVIOUS
<1>2. CASE p < SumOf(tx.outs)
  <2>1. ASSUME NEW q \in Q, q < SumOf(tx.outs), Loc(p) = Loc(q) PROVE p = q
    BY <1>1, <1>2, <2>1, LocInjective
  <2>2. Loc(p) \in offs2 <=> Loc(p) \in offs \/ \E q \in Q : q < SumOf(tx.outs) /\ Loc(p) = Loc(q)
    BY DEF Filed
  <2>3. Loc(p) \in offs2 <=> Loc(p) \in offs \/ p \in Q
    BY <1>2, <2>1, <2>2
  <2> QED BY <1>2, <2>3 DEF Moved
<1>3. CASE ~(p < SumOf(tx.outs))
  <2> PICK S, b : S = SumOf(tx.outs) /\ b = Base
    OBVIOUS
  <2>1. S \in Nat /\ b \in Nat
    BY TxFields, FiledLeaks
  <2>2. ASSUME NEW q \in Q, b + p - S = b + q - S PROVE p = q
    <3>1. q \in Nat
      BY <1>1
    <3> QED BY ONLY <1>1, <2>1, <2>2, <3>1
  <2>3. b + p - S \in leak2 <=> b + p - S \in leak \/ \E q \in Q : ~(q < S) /\ b + p - S = b + q - S
    BY DEF Filed
  <2>4. b + p - S \in leak2 <=> b + p - S \in leak \/ p \in Q
    BY <1>3, <2>2, <2>3
  <2> QED BY <1>3, <2>4 DEF Moved
<1> QED BY <1>2, <1>3

\* The positions of the rows of input i.
Arriving(offs, i) ==
  {p \in 0..(Len(tx.sats) - 1) : \E k : InputAt(i, k, p) /\ <<tx.inputs[i], k>> \in offs}

LEMMA WaitingNext ==
  ASSUME ChainTyped, TxTyped, SatsSpread, NEW offs, NEW leak, NEW offs2, NEW leak2,
         NEW i \in 1..Len(tx.values),
         NEW Q \in SUBSET (0..(Len(tx.sats) - 1)),
         Filed({l \in offs : l[1] # tx.inputs[i]}, leak, Q, offs2, leak2),
         NEW p \in 0..(Len(tx.sats) - 1)
  PROVE  Waiting(offs, i, p) <=> Waiting(offs2, i + 1, p) \/ p \in Arriving(offs, i)
<1> PICK n \in Nat : n = Len(tx.values) /\ n = Len(tx.inputs)
  BY TxFields DEF TxTyped
<1>1. ASSUME NEW j \in (i + 1)..n, NEW k
      PROVE  <<tx.inputs[j], k>> \in offs2 <=> <<tx.inputs[j], k>> \in offs
  <2>1. j \in 1..n /\ i \in 1..n /\ j # i
    OBVIOUS
  <2>2. tx.inputs[j] # tx.inputs[i] /\ tx.inputs[j][1] # tx.id
    BY <2>1, InputFields
  <2> PICK l : l = <<tx.inputs[j], k>>
    OBVIOUS
  <2>3. l[1] = tx.inputs[j]
    OBVIOUS
  <2>4. l \in offs2 <=> l \in {m \in offs : m[1] # tx.inputs[i]}
    BY <2>2, <2>3, FiledRows
  <2> QED BY <2>2, <2>3, <2>4
<1>2. ASSUME Waiting(offs, i, p) PROVE Waiting(offs2, i + 1, p) \/ p \in Arriving(offs, i)
  <2> PICK j \in i..n : \E k \in 0..(tx.values[j] - 1) :
        p = Before(tx.values, j) + k /\ <<tx.inputs[j], k>> \in offs
    BY <1>2 DEF Waiting
  <2> PICK k \in 0..(tx.values[j] - 1) :
        p = Before(tx.values, j) + k /\ <<tx.inputs[j], k>> \in offs
    OBVIOUS
  <2>1. CASE j = i
    <3>1. InputAt(i, k, p)
      BY <2>1 DEF InputAt
    <3> QED BY <2>1, <3>1 DEF Arriving
  <2>2. CASE j # i
    <3>1. j \in (i + 1)..n
      BY <2>2
    <3> QED BY <1>1, <3>1 DEF Waiting
  <2> QED BY <2>1, <2>2
<1>3. ASSUME Waiting(offs2, i + 1, p) PROVE Waiting(offs, i, p)
  <2> PICK j \in (i + 1)..n : \E k \in 0..(tx.values[j] - 1) :
        p = Before(tx.values, j) + k /\ <<tx.inputs[j], k>> \in offs2
    BY <1>3 DEF Waiting
  <2> PICK k \in 0..(tx.values[j] - 1) :
        p = Before(tx.values, j) + k /\ <<tx.inputs[j], k>> \in offs2
    OBVIOUS
  <2>1. j \in i..n /\ <<tx.inputs[j], k>> \in offs
    BY <1>1
  <2> QED BY <2>1 DEF Waiting
<1>4. ASSUME p \in Arriving(offs, i) PROVE Waiting(offs, i, p)
  <2> PICK k : InputAt(i, k, p) /\ <<tx.inputs[i], k>> \in offs
    BY <1>4 DEF Arriving
  <2>1. i \in i..n
    OBVIOUS
  <2> QED BY <2>1 DEF Waiting, InputAt
<1> QED BY <1>2, <1>3, <1>4

\* The rows go with their satoshis, and those of the new inscriptions, on the positions B, come.
LEMMA InputMid ==
  ASSUME ChainTyped, TxTyped, SatsSpread, SatsApart, NEW offs, NEW leak, NEW offs2, NEW leak2,
         NEW i \in 1..Len(tx.values), NEW insc, Mid(offs, leak, insc, i),
         NEW B \in SUBSET (0..(Len(tx.sats) - 1)),
         Filed({l \in offs : l[1] # tx.inputs[i]}, leak, B \cup Arriving(offs, i), offs2, leak2)
  PROVE  Mid(offs2, leak2, insc \cup {tx.sats[p + 1] : p \in B}, i + 1)
<1> DEFINE rest == {l \in offs : l[1] # tx.inputs[i]}
           insc2 == insc \cup {tx.sats[p + 1] : p \in B}
<1> PICK Q : Q = B \cup Arriving(offs, i)
  OBVIOUS
<1>1. Q \in SUBSET (0..(Len(tx.sats) - 1)) /\ Filed(rest, leak, Q, offs2, leak2)
  BY DEF Arriving
<1>2. /\ \A l \in offs2 : \/ l \in rest
                          \/ /\ l = <<l[1], l[2]>> /\ l[1] \in DOMAIN utxo
                             /\ l[2] \in 0..(Len(utxo[l[1]]) - 1)
      /\ \A l : l[1][1] # tx.id => (l \in offs2 <=> l \in rest)
  <2> HIDE DEF rest
  <2> QED BY <1>1, FiledRows
<1>3. /\ \A x \in leak2 : x \in leak \/ x \in Base..(Len(feeSats) - 1)
      /\ leak \subseteq leak2 /\ Base \in Nat /\ Base <= Len(feeSats)
  <2> HIDE DEF rest
  <2> QED BY <1>1, FiledLeaks
<1>4. tx.inputs[i] \notin DOMAIN utxo
  BY InputFields DEF ChainTyped
<1>5. ASSUME NEW l \in offs2
      PROVE  /\ l = <<l[1], l[2]>>
             /\ \/ l[1] \in DOMAIN utxo /\ l[2] \in 0..(Len(utxo[l[1]]) - 1)
                \/ \E j \in (i + 1)..Len(tx.values) : l[1] = tx.inputs[j] /\ l[2] \in 0..(tx.values[j] - 1)
  <2>1. CASE l \in rest
    <3>1. /\ l = <<l[1], l[2]>>
          /\ \/ l[1] \in DOMAIN utxo /\ l[2] \in 0..(Len(utxo[l[1]]) - 1)
             \/ \E j \in i..Len(tx.values) : l[1] = tx.inputs[j] /\ l[2] \in 0..(tx.values[j] - 1)
      BY <2>1 DEF Mid
    <3>2. ASSUME NEW j \in i..Len(tx.values), l[1] = tx.inputs[j], l[2] \in 0..(tx.values[j] - 1)
          PROVE  j \in (i + 1)..Len(tx.values)
      BY <2>1, <3>2
    <3> QED BY <3>1, <3>2
  <2> QED BY <1>2, <2>1
<1>6. ASSUME NEW o \in DOMAIN utxo, o[1] # tx.id, NEW k \in 0..(Len(utxo[o]) - 1)
      PROVE  <<o, k>> \in Rows(offs2) <=> utxo[o][k + 1] \in insc2
  <2> PICK l : l = <<o, k>>
    OBVIOUS
  <2>1. l[1] = o /\ l[1][1] # tx.id /\ o # tx.inputs[i]
    BY <1>4, <1>6
  <2>2. l \in offs2 <=> l \in offs
    BY <1>2, <2>1
  <2>3. l \in Rows(offs2) <=> l \in Rows(offs)
    BY <2>2 DEF Rows
  <2>4. l \in Rows(offs) <=> utxo[o][k + 1] \in insc
    BY <1>6 DEF Mid
  <2>5. k + 1 \in DOMAIN utxo[o]
    <3>1. utxo[o] \in Seq(Satoshis)
      BY DEF ChainTyped
    <3> QED BY <3>1
  <2>6. ASSUME NEW p \in B PROVE utxo[o][k + 1] # tx.sats[p + 1]
    <3>1. p + 1 \in DOMAIN tx.sats
      BY SatIndex
    <3> QED BY <1>6, <2>5, <3>1 DEF SatsApart
  <2> QED BY <2>3, <2>4, <2>6
<1>7. leak2 \subseteq 0..(Len(feeSats) - 1)
  <2>1. leak \subseteq 0..(Len(feeSats) - 1) /\ Len(feeSats) \in Nat
    BY DEF Mid, ChainTyped
  <2> QED BY <1>3, <2>1
<1>8. ASSUME NEW m \in 0..(Base - 1) PROVE m \in leak2 <=> feeSats[m + 1] \in insc2
  <2>1. m \in leak2 <=> m \in leak
    <3>1. m \notin Base..(Len(feeSats) - 1)
      BY <1>3
    <3> QED BY <1>3, <3>1
  <2>2. m \in leak <=> feeSats[m + 1] \in insc
    BY DEF Mid
  <2>3. ASSUME NEW p \in B PROVE feeSats[m + 1] # tx.sats[p + 1]
    <3>1. p + 1 \in DOMAIN tx.sats /\ m + 1 \in 1..Base
      BY <1>3, TxFields
    <3> QED BY <3>1 DEF SatsApart
  <2> QED BY <2>1, <2>2, <2>3
<1>9. ASSUME NEW p \in 0..(Len(tx.sats) - 1)
      PROVE  tx.sats[p + 1] \in insc2 <=> Moved(offs2, leak2, p) \/ Waiting(offs2, i + 1, p)
  <2>1. tx.sats[p + 1] \in insc <=> Moved(offs, leak, p) \/ Waiting(offs, i, p)
    BY DEF Mid
  <2>2. tx.sats[p + 1] \in insc2 <=> tx.sats[p + 1] \in insc \/ p \in B
    <3>1. ASSUME NEW q \in B, tx.sats[p + 1] = tx.sats[q + 1] PROVE p = q
      <4>1. p + 1 \in DOMAIN tx.sats /\ q + 1 \in DOMAIN tx.sats /\ q \in Nat
        BY SatIndex
      <4>2. p + 1 = q + 1
        BY <3>1, <4>1 DEF SatsApart
      <4> QED BY ONLY <4>1, <4>2, p \in 0..(Len(tx.sats) - 1)
    <3> QED BY <3>1
  <2>3. Moved(offs2, leak2, p) <=> Moved(rest, leak, p) \/ p \in Q
    <3> HIDE DEF rest
    <3> QED BY <1>1, FiledMoved
  <2>4. Moved(rest, leak, p) <=> Moved(offs, leak, p)
    <3>1. ASSUME p < SumOf(tx.outs) PROVE Loc(p)[1] # tx.inputs[i]
      <4>1. p \in Nat
        OBVIOUS
      <4>2. Loc(p)[1][1] = tx.id
        BY <3>1, <4>1, LocFirst
      <4>3. tx.inputs[i][1] # tx.id
        BY InputFields
      <4> QED BY <4>2, <4>3
    <3> QED BY <3>1 DEF Moved
  <2>5. Waiting(offs, i, p) <=> Waiting(offs2, i + 1, p) \/ p \in Arriving(offs, i)
    BY <1>1, WaitingNext
  <2> QED BY <2>1, <2>2, <2>3, <2>4, <2>5
<1> HIDE DEF insc2
<1>10. Mid(offs2, leak2, insc2, i + 1)
  BY <1>5, <1>6, <1>7, <1>8, <1>9 DEF Mid
<1> QED BY <1>10 DEF insc2

----------------------------------------------------------------------------
(* What Input computes, by positions. *)

Here(i) == {l[2] : l \in {m \in offsets : m[1] = tx.inputs[i]}}
Gone(i) == {k \in Here(i) : Target(i, k) = Nil}
MovedRows(i) == {l \in offsets : l[1] # tx.inputs[i]}
                \cup {LocationOf(Target(i, k)) : k \in Here(i) \ Gone(i)}
GoneLeaks(i) == {LeakOffset(tx.values, i, k, tx.outs) : k \in Gone(i)}
FoundAt(i) == IF jubilee \/ i = 1 THEN Found(Parts(i)) ELSE <<>>
Lost(i) == FoundAt(i) # <<>> /\ Target(i, 0) = Nil

LEMMA InputIs ==
  ASSUME Input, NEW i, i = input_index
  PROVE  /\ offsets' = MovedRows(i)
              \cup IF Lost(i) THEN {} ELSE {Placed(i, FoundAt(i)[n]) : n \in DOMAIN FoundAt(i)}
         /\ leaked' = leaked \cup GoneLeaks(i)
              \cup {LeakOffset(tx.values, i, 0, tx.outs) : n \in IF Lost(i) THEN {1} ELSE {}}
         /\ created' = IF Lost(i) THEN {} ELSE
              {BornOn(i, FoundAt(i)[n]) :
                 n \in {m \in DOMAIN FoundAt(i) : ~Skipped(Placed(i, FoundAt(i)[m]), MovedRows(i))}}
         /\ inscribed' = inscribed \cup {BornOn(i, FoundAt(i)[n]) : n \in DOMAIN FoundAt(i)}
BY DEF Input, Here, Gone, GoneLeaks, MovedRows, FoundAt, Lost

\* The first satoshi of an input, and the one an inscription is born on.
First(i) == Before(tx.values, i)
BornAt(i, pointer) ==
  IF pointer # Nil /\ First(i) < SumOf(tx.outs) /\ pointer < SumOf(tx.outs) THEN pointer ELSE First(i)

LEMMA FirstIs ==
  ASSUME TxTyped, NEW i \in 1..Len(tx.values)
  PROVE  /\ InputAt(i, 0, First(i)) /\ First(i) \in 0..(Len(tx.sats) - 1)
         /\ First(i) < SumOf(tx.outs) <=> Target(i, 0) # Nil
<1>1. First(i) \in Nat /\ First(i) = Before(tx.values, i) + 0
  BY TxFields, BeforeNext DEF First
<1>2. 0 \in 0..(tx.values[i] - 1)
  BY InputFields
<1>3. InputAt(i, 0, First(i))
  BY <1>1, <1>2 DEF InputAt
<1> QED BY <1>3, InputAtPosition, TargetIs

LEMMA BornIs ==
  ASSUME TxTyped, NEW i \in 1..Len(tx.values), NEW pointer \in Nat \cup {Nil}
  PROVE  /\ BornAt(i, pointer) \in 0..(Len(tx.sats) - 1)
         /\ BornOn(i, pointer) = tx.sats[BornAt(i, pointer) + 1]
         /\ Target(i, 0) # Nil => /\ BornAt(i, pointer) < SumOf(tx.outs)
                                  /\ Placed(i, pointer) = Loc(BornAt(i, pointer))
         /\ Target(i, 0) = Nil => BornAt(i, pointer) = First(i)
<1> PICK S, V, N, f, b : /\ S = SumOf(tx.outs) /\ V = SumOf(tx.values) /\ N = Len(tx.sats)
                         /\ f = First(i) /\ b = BornAt(i, pointer)
  OBVIOUS
<1>1. S \in Nat /\ V \in Nat /\ S <= V /\ N = V /\ f \in 0..(N - 1)
  BY TxFields, FirstIs DEF TxTyped
<1>2. f < S <=> Target(i, 0) # Nil
  BY FirstIs
<1>3. InputAt(i, 0, f)
  BY FirstIs
<1>4. b \in 0..(N - 1)
  <2>1. CASE pointer # Nil /\ f < S /\ pointer < S
    <3>1. b = pointer /\ pointer \in Nat
      BY <2>1 DEF BornAt
    <3> QED BY ONLY <1>1, <2>1, <3>1
  <2>2. CASE ~(pointer # Nil /\ f < S /\ pointer < S)
    BY <1>1, <2>2 DEF BornAt
  <2> QED BY <2>1, <2>2
<1>5. BornOn(i, pointer) = tx.sats[b + 1]
  <2>1. BornOn(i, pointer) = tx.sats[1 + b]
    BY DEF BornOn, BornAt, First
  <2>2. 1 + b = b + 1
    BY <1>1, <1>4
  <2> QED BY <2>1, <2>2
<1>6. ASSUME f < S PROVE b < S /\ Placed(i, pointer) = Loc(b)
  <2>1. CASE pointer # Nil /\ pointer < S
    <3>1. b = pointer /\ pointer \in Nat
      BY <1>6, <2>1 DEF BornAt
    <3>2. get_output(pointer, tx.outs) = OutputAt(pointer, tx.outs)
      BY <2>1, <3>1, TxFields, GetOutput
    <3>3. OutputAt(pointer, tx.outs) # Nil
      <4> PICK v, k : OutputAt(pointer, tx.outs) = <<v, k>> /\ IsAt(tx.outs, pointer, v, k)
        BY <2>1, <3>1, LocIs
      <4>1. <<v, k>> \in Nat \X Nat
        BY DEF IsAt
      <4> QED BY <4>1, InscriptionsAssumption
    <3> QED BY <2>1, <3>1, <3>2, <3>3 DEF Placed, Loc
  <2>2. CASE ~(pointer # Nil /\ pointer < S)
    <3>1. b = f
      BY <2>2 DEF BornAt
    <3>2. get_output(pointer, tx.outs) = Nil
      BY <2>2, TxFields, GetOutput DEF get_output
    <3>3. Target(i, 0) = OutputAt(f, tx.outs)
      BY <1>3, <1>6, TargetIs
    <3> QED BY <1>6, <3>1, <3>2, <3>3 DEF Placed, Loc
  <2> QED BY <2>1, <2>2
<1>7. ASSUME ~(f < S) PROVE b = f
  BY <1>7 DEF BornAt
<1> QED BY <1>2, <1>4, <1>5, <1>6, <1>7

LEMMA HereIs ==
  ASSUME ChainTyped, TxTyped, NEW leak, NEW insc, NEW i \in 1..Len(tx.values),
         Mid(offsets, leak, insc, i), NEW k
  PROVE  /\ k \in Here(i) <=> <<tx.inputs[i], k>> \in offsets
         /\ k \in Here(i) => \E p \in Arriving(offsets, i) : InputAt(i, k, p)
<1>1. ASSUME NEW l \in offsets, l[1] = tx.inputs[i]
      PROVE  l = <<tx.inputs[i], l[2]>> /\ l[2] \in 0..(tx.values[i] - 1)
  <2>1. /\ l = <<l[1], l[2]>>
        /\ \/ l[1] \in DOMAIN utxo
           \/ \E j \in i..Len(tx.values) : l[1] = tx.inputs[j] /\ l[2] \in 0..(tx.values[j] - 1)
    BY DEF Mid
  <2>2. tx.inputs[i] \notin DOMAIN utxo
    BY InputFields DEF ChainTyped
  <2> PICK j \in i..Len(tx.values) : l[1] = tx.inputs[j] /\ l[2] \in 0..(tx.values[j] - 1)
    BY <1>1, <2>1, <2>2
  <2>3. j = i
    <3>1. j \in 1..Len(tx.values) /\ tx.inputs[i] = tx.inputs[j]
      BY <1>1
    <3> QED BY <3>1, InputFields
  <2> QED BY <1>1, <2>1, <2>3
<1>2. ASSUME k \in Here(i)
      PROVE  <<tx.inputs[i], k>> \in offsets /\ \E p \in Arriving(offsets, i) : InputAt(i, k, p)
  <2> PICK l \in offsets : l[1] = tx.inputs[i] /\ k = l[2]
    BY <1>2 DEF Here
  <2>1. l = <<tx.inputs[i], k>> /\ k \in 0..(tx.values[i] - 1)
    BY <1>1
  <2> PICK p : p = Before(tx.values, i) + k
    OBVIOUS
  <2>2. InputAt(i, k, p)
    BY <2>1 DEF InputAt
  <2>3. p \in 0..(Len(tx.sats) - 1)
    BY <2>2, InputAtPosition
  <2> QED BY <2>1, <2>2, <2>3 DEF Arriving
<1>3. ASSUME <<tx.inputs[i], k>> \in offsets PROVE k \in Here(i)
  <2> PICK l : l = <<tx.inputs[i], k>>
    OBVIOUS
  <2>1. l \in offsets /\ l[1] = tx.inputs[i] /\ l[2] = k
    BY <1>3
  <2> QED BY <2>1 DEF Here
<1> QED BY <1>2, <1>3

\* A pointer is an offset; only tapscripts have one.
LEMMA FoundTyped ==
  ASSUME TxTyped, RowsTyped, NEW i \in 1..Len(tx.values)
  PROVE  /\ FoundAt(i) \in Seq(Nat \cup {Nil})
         /\ ~jubilee /\ ~Bells => \A n \in DOMAIN FoundAt(i) : FoundAt(i)[n] = Nil
<1> PICK s, q : s = tx.scripts[i] /\ q = Parts(i)
  OBVIOUS
<1>1. s \in Scripts /\ s.pointers \in Seq(Nat \cup {Nil}) /\ s.tap \in BOOLEAN
  BY InputFields, InscriptionsAssumption
<1>2. s.tap => jubilee \/ Bells
  BY InputFields DEF TxTyped
<1>3. Len(q) = 1 => q[1] = s
  <2>1. CASE tx.inputs[i] \in DOMAIN partials
    <3> PICK r : r = partials[tx.inputs[i]]
      OBVIOUS
    <3>1. r \in Seq(Scripts) /\ q = Append(r, s)
      BY <2>1 DEF RowsTyped, Parts
    <3>2. Len(q) = Len(r) + 1 /\ q[Len(r) + 1] = s /\ Len(r) \in Nat
      BY <1>1, <3>1
    <3> QED BY <3>2
  <2>2. CASE tx.inputs[i] \notin DOMAIN partials
    BY <2>2 DEF Parts
  <2> QED BY <2>1, <2>2
<1>4. FoundAt(i) = <<>> \/ FoundAt(i) = Found(q)
  BY DEF FoundAt
<1> PICK f, T : f = FoundAt(i) /\ T = Nat \cup {Nil}
  OBVIOUS
<1>7. <<>> \in Seq(T) /\ \A n \in DOMAIN <<>> : <<>>[n] = Nil
  OBVIOUS
<1>5. CASE HasEnvelopes(q)
  <2>1. Found(q) = s.pointers /\ (jubilee \/ Bells)
    BY <1>2, <1>3, <1>5 DEF Found, HasEnvelopes
  <2>2. f = <<>> \/ f = s.pointers
    BY <1>4, <2>1
  <2>3. f \in Seq(T)
    BY <1>1, <1>7, <2>2
  <2> QED BY <2>1, <2>3
<1>6. CASE ~HasEnvelopes(q)
  <2>1. Found(q) = <<Nil>> \/ Found(q) = <<>>
    BY <1>6 DEF Found
  <2>2. f = <<Nil>> \/ f = <<>>
    BY <1>4, <2>1
  <2>3. <<Nil>> \in Seq(T) /\ \A n \in DOMAIN <<Nil>> : <<Nil>>[n] = Nil
    OBVIOUS
  <2>4. f \in Seq(T) /\ \A n \in DOMAIN f : f[n] = Nil
    BY <1>7, <2>2, <2>3
  <2> QED BY <2>4
<1> QED BY <1>5, <1>6

\* The positions of the inscriptions of input i.
Births(i) == {BornAt(i, FoundAt(i)[n]) : n \in DOMAIN FoundAt(i)}

LEMMA MovedRowsAre ==
  ASSUME ChainTyped, TxTyped, NEW leak, NEW insc, NEW i \in 1..Len(tx.values),
         Mid(offsets, leak, insc, i), NEW l
  PROVE  l \in MovedRows(i) <=> \/ l \in offsets /\ l[1] # tx.inputs[i]
                                \/ \E p \in Arriving(offsets, i) : p < SumOf(tx.outs) /\ l = Loc(p)
<1>1. ASSUME NEW k \in Here(i) \ Gone(i)
      PROVE  \E p \in Arriving(offsets, i) : p < SumOf(tx.outs) /\ LocationOf(Target(i, k)) = Loc(p)
  <2> PICK p \in Arriving(offsets, i) : InputAt(i, k, p)
    BY HereIs
  <2>1. p < SumOf(tx.outs) /\ Target(i, k) = OutputAt(p, tx.outs)
    BY TargetIs DEF Gone
  <2> QED BY <2>1 DEF Loc
<1>2. ASSUME NEW p \in Arriving(offsets, i), p < SumOf(tx.outs)
      PROVE  \E k \in Here(i) \ Gone(i) : LocationOf(Target(i, k)) = Loc(p)
  <2> PICK k : InputAt(i, k, p) /\ <<tx.inputs[i], k>> \in offsets
    BY DEF Arriving
  <2>1. Target(i, k) = OutputAt(p, tx.outs) /\ Target(i, k) # Nil
    BY <1>2, TargetIs
  <2>2. k \in Here(i) \ Gone(i)
    BY <2>1, HereIs DEF Gone
  <2> QED BY <2>1, <2>2 DEF Loc
<1> QED BY <1>1, <1>2 DEF MovedRows

LEMMA GoneAre ==
  ASSUME ChainTyped, TxTyped, NEW leak, NEW insc, NEW i \in 1..Len(tx.values),
         Mid(offsets, leak, insc, i), NEW x
  PROVE  x \in GoneLeaks(i) <=>
           \E p \in Arriving(offsets, i) : ~(p < SumOf(tx.outs)) /\ x = Base + p - SumOf(tx.outs)
<1>1. ASSUME NEW k \in Gone(i)
      PROVE  \E p \in Arriving(offsets, i) :
               ~(p < SumOf(tx.outs)) /\ LeakOffset(tx.values, i, k, tx.outs) = Base + p - SumOf(tx.outs)
  <2>1. k \in Here(i) /\ Target(i, k) = Nil
    BY DEF Gone
  <2> PICK p \in Arriving(offsets, i) : InputAt(i, k, p)
    BY <2>1, HereIs
  <2>2. ~(p < SumOf(tx.outs))
    BY <2>1, TargetIs
  <2> QED BY <2>2, LeakIs
<1>2. ASSUME NEW p \in Arriving(offsets, i), ~(p < SumOf(tx.outs))
      PROVE  \E k \in Gone(i) : LeakOffset(tx.values, i, k, tx.outs) = Base + p - SumOf(tx.outs)
  <2> PICK k : InputAt(i, k, p) /\ <<tx.inputs[i], k>> \in offsets
    BY DEF Arriving
  <2>1. Target(i, k) = Nil
    BY <1>2, TargetIs
  <2>2. k \in Gone(i)
    BY <2>1, HereIs DEF Gone
  <2> QED BY <2>2, LeakIs
<1> QED BY <1>1, <1>2 DEF GoneLeaks

LEMMA InputFiled ==
  ASSUME ChainTyped, TxTyped, RowsTyped, NEW i \in 1..Len(tx.values), i = input_index, Input,
         Mid(offsets, leaked, inscribed, i)
  PROVE  /\ Births(i) \in SUBSET (0..(Len(tx.sats) - 1))
         /\ Filed({l \in offsets : l[1] # tx.inputs[i]}, leaked, Births(i) \cup Arriving(offsets, i),
                  offsets', leaked')
         /\ inscribed' = inscribed \cup {tx.sats[p + 1] : p \in Births(i)}
<1> PICK f : f = FoundAt(i)
  OBVIOUS
<1>1. ASSUME NEW n \in DOMAIN f
      PROVE  /\ BornAt(i, f[n]) \in 0..(Len(tx.sats) - 1)
             /\ BornOn(i, f[n]) = tx.sats[BornAt(i, f[n]) + 1]
             /\ Target(i, 0) # Nil => /\ BornAt(i, f[n]) < SumOf(tx.outs)
                                      /\ Placed(i, f[n]) = Loc(BornAt(i, f[n]))
             /\ Target(i, 0) = Nil => BornAt(i, f[n]) = First(i)
  <2>1. f[n] \in Nat \cup {Nil}
    BY FoundTyped
  <2> QED BY <2>1, BornIs
<1>2. Births(i) \in SUBSET (0..(Len(tx.sats) - 1))
  BY <1>1 DEF Births
<1>3. inscribed' = inscribed \cup {tx.sats[p + 1] : p \in Births(i)}
  <2>1. inscribed' = inscribed \cup {BornOn(i, f[n]) : n \in DOMAIN f}
    BY InputIs
  <2> QED BY <1>1, <2>1 DEF Births
<1>4. First(i) < SumOf(tx.outs) <=> Target(i, 0) # Nil
  BY FirstIs
<1>5. LeakOffset(tx.values, i, 0, tx.outs) = Base + First(i) - SumOf(tx.outs)
  BY FirstIs, LeakIs
<1>6. Births(i) = {BornAt(i, f[n]) : n \in DOMAIN f}
  BY DEF Births
<1>7. ASSUME NEW l
      PROVE  l \in (IF Lost(i) THEN {} ELSE {Placed(i, f[n]) : n \in DOMAIN f}) <=>
               \E p \in Births(i) : p < SumOf(tx.outs) /\ l = Loc(p)
  <2>1. CASE Target(i, 0) = Nil
    <3>1. Births(i) \subseteq {First(i)}
      BY <1>1, <1>6, <2>1
    <3>2. Lost(i) \/ DOMAIN f = {}
      BY <2>1 DEF Lost
    <3> QED BY <1>4, <2>1, <3>1, <3>2
  <2>2. CASE Target(i, 0) # Nil
    <3>1. ~Lost(i)
      BY <2>2 DEF Lost
    <3> QED BY <1>1, <1>6, <2>2, <3>1
  <2> QED BY <2>1, <2>2
<1>8. ASSUME NEW x
      PROVE  x \in {LeakOffset(tx.values, i, 0, tx.outs) : n \in (IF Lost(i) THEN {1} ELSE {})} <=>
               \E p \in Births(i) : ~(p < SumOf(tx.outs)) /\ x = Base + p - SumOf(tx.outs)
  <2>1. CASE Lost(i)
    <3>1. f # <<>> /\ Target(i, 0) = Nil
      BY <2>1 DEF Lost
    <3>2. Births(i) = {First(i)}
      <4>1. ASSUME DOMAIN f = {} PROVE FALSE
        <5>1. f \in Seq(Nat \cup {Nil})
          BY FoundTyped
        <5> QED BY <3>1, <4>1
      <4> QED BY <1>1, <1>6, <3>1, <4>1
    <3> QED BY <1>4, <1>5, <2>1, <3>1, <3>2
  <2>2. CASE ~Lost(i)
    <3>1. CASE Target(i, 0) = Nil
      <4>1. DOMAIN f = {}
        BY <2>2, <3>1 DEF Lost
      <4> QED BY <1>6, <2>2, <4>1
    <3>2. CASE Target(i, 0) # Nil
      BY <1>1, <1>6, <2>2, <3>2
    <3> QED BY <3>1, <3>2
  <2> QED BY <2>1, <2>2
<1>9. ASSUME NEW l
      PROVE  l \in offsets' <=>
               \/ l \in {m \in offsets : m[1] # tx.inputs[i]}
               \/ \E p \in Births(i) \cup Arriving(offsets, i) : p < SumOf(tx.outs) /\ l = Loc(p)
  <2>1. l \in offsets' <=> \/ l \in MovedRows(i)
                           \/ l \in IF Lost(i) THEN {} ELSE {Placed(i, f[n]) : n \in DOMAIN f}
    BY InputIs
  <2>2. l \in MovedRows(i) <=> \/ l \in offsets /\ l[1] # tx.inputs[i]
                               \/ \E p \in Arriving(offsets, i) : p < SumOf(tx.outs) /\ l = Loc(p)
    BY MovedRowsAre
  <2> QED BY <1>7, <2>1, <2>2
<1>10. ASSUME NEW x
       PROVE  x \in leaked' <=>
                \/ x \in leaked
                \/ \E p \in Births(i) \cup Arriving(offsets, i) :
                     ~(p < SumOf(tx.outs)) /\ x = Base + p - SumOf(tx.outs)
  <2>1. x \in leaked' <=>
          \/ x \in leaked
          \/ x \in GoneLeaks(i)
          \/ x \in {LeakOffset(tx.values, i, 0, tx.outs) : n \in IF Lost(i) THEN {1} ELSE {}}
    BY InputIs
  <2>2. x \in GoneLeaks(i) <=>
          \E p \in Arriving(offsets, i) : ~(p < SumOf(tx.outs)) /\ x = Base + p - SumOf(tx.outs)
    BY GoneAre
  <2> QED BY <1>8, <2>1, <2>2
<1>11. Filed({l \in offsets : l[1] # tx.inputs[i]}, leaked, Births(i) \cup Arriving(offsets, i),
             offsets', leaked')
  BY <1>9, <1>10 DEF Filed
<1> QED BY <1>2, <1>3, <1>11

----------------------------------------------------------------------------
(* Behind the last input every row is that of an output, or among the fees. *)

\* An output of the transaction holds the satoshi of a position ...
LEMMA OutputSpot ==
  ASSUME ChainTyped, TxTyped, SatsSpread, NEW o \in DOMAIN utxo, o[1] = tx.id,
         NEW k \in 0..(Len(utxo[o]) - 1)
  PROVE  \E p \in 0..(Len(tx.sats) - 1) :
           p < SumOf(tx.outs) /\ Loc(p) = <<o, k>> /\ utxo[o][k + 1] = tx.sats[p + 1]
<1> PICK v : v = o[2]
  OBVIOUS
<1>1. o = <<tx.id, v>>
  BY DEF ChainTyped, Outpoints
<1>2. v \in DOMAIN tx.outs /\ tx.outs[v] > 0
  BY DEF SatsSpread
<1>3. v \in 1..Len(tx.outs) /\ tx.outs[v] \in Nat
  <2>1. tx.outs \in Seq(Nat)
    BY TxFields
  <2> QED BY <1>2, <2>1
<1>4. k \in Nat /\ k < tx.outs[v]
  <2>1. Len(utxo[o]) = tx.outs[v]
    BY <1>1, <1>2 DEF SatsSpread
  <2> QED BY <1>3, <2>1
<1> PICK p : p = Before(tx.outs, v) + k
  OBVIOUS
<1>5. IsAt(tx.outs, p, v, k)
  BY <1>3, <1>4 DEF IsAt
<1>6. p \in Nat /\ p < SumOf(tx.outs) /\ OutputAt(p, tx.outs) = <<v, k>>
  BY <1>5, TxFields, AtInSum, OutputAtOf
<1>7. Loc(p) = <<o, k>>
  BY <1>1, <1>6 DEF Loc, LocationOf
<1>8. utxo[o][k + 1] = tx.sats[p + 1]
  <2>0. p \in Nat /\ p < SumOf(tx.outs)
    BY <1>6
  <2> PICK w, m : /\ Loc(p) = <<<<tx.id, w>>, m>> /\ IsAt(tx.outs, p, w, m)
                  /\ <<tx.id, w>> \in DOMAIN utxo
                  /\ m \in 0..(Len(utxo[<<tx.id, w>>]) - 1)
                  /\ utxo[<<tx.id, w>>][m + 1] = tx.sats[p + 1]
    BY <2>0, LocHolds
  <2>1. <<<<tx.id, w>>, m>> = <<o, k>>
    BY <1>7
  <2> QED BY <2>1
<1>9. p \in 0..(Len(tx.sats) - 1)
  <2>1. Len(tx.sats) = SumOf(tx.values) /\ SumOf(tx.outs) <= SumOf(tx.values)
    BY DEF TxTyped
  <2>2. SumOf(tx.outs) \in Nat /\ SumOf(tx.values) \in Nat
    BY TxFields
  <2> QED BY <1>6, <2>1, <2>2
<1> QED BY <1>6, <1>7, <1>8, <1>9

\* ... and so do the fees behind those of the transactions before.
LEMMA FeeSpot ==
  ASSUME ChainTyped, TxTyped, SatsSpread, NEW x \in Base..(Len(feeSats) - 1)
  PROVE  \E p \in 0..(Len(tx.sats) - 1) :
           /\ ~(p < SumOf(tx.outs)) /\ x = Base + p - SumOf(tx.outs)
           /\ feeSats[x + 1] = tx.sats[p + 1]
<1> PICK S, V, n, b, N : /\ S = SumOf(tx.outs) /\ V = SumOf(tx.values) /\ n = Len(feeSats)
                         /\ b = Base /\ N = Len(tx.sats)
  OBVIOUS
<1>1. S \in Nat /\ V \in Nat /\ n \in Nat /\ b = n - (V - S) /\ b >= 0 /\ S <= V /\ N = V
  <2>1. S \in Nat /\ V \in Nat /\ S <= V /\ N = V
    BY TxFields DEF TxTyped
  <2>2. n \in Nat
    BY DEF ChainTyped
  <2>3. b = n - (V - S)
    BY DEF Base
  <2>4. b >= 0
    BY DEF SatsSpread
  <2> QED BY <2>1, <2>2, <2>3, <2>4
<1> PICK m, p : m = x - b + 1 /\ p = x - b + S
  OBVIOUS
<1>2. x \in b..(n - 1)
  OBVIOUS
<1>3. m \in 1..(V - S) /\ p \in 0..(N - 1) /\ ~(p < S) /\ x = b + p - S /\ b + m = x + 1 /\ S + m = p + 1
  BY ONLY <1>1, <1>2, m = x - b + 1, p = x - b + S
<1>4. feeSats[b + m] = tx.sats[S + m]
  BY <1>3 DEF SatsSpread
<1> QED BY <1>3, <1>4

LEMMA RestAfter ==
  ASSUME ChainTyped, TxTyped, SatsSpread, RowsTyped, DbRowsIn, NEW offs, NEW leak, NEW insc,
         Mid(offs, leak, insc, Len(tx.values) + 1)
  PROVE  Rested(offs, leak, insc)
<1> PICK n \in Nat : n = Len(tx.values)
  <2>1. tx.values \in Seq(Nat)
    BY TxFields
  <2> QED BY <2>1
<1>1. \A p : ~Waiting(offs, n + 1, p)
  <2>1. (n + 1)..n = {}
    OBVIOUS
  <2> QED BY <2>1 DEF Waiting
<1>2. ASSUME NEW l \in Rows(offs)
      PROVE  l = <<l[1], l[2]>> /\ l[1] \in DOMAIN utxo /\ l[2] \in 0..(Len(utxo[l[1]]) - 1)
  <2>1. CASE l \in offs
    <3>1. (n + 1)..n = {}
      OBVIOUS
    <3> QED BY <2>1, <3>1 DEF Mid
  <2>2. CASE l \notin offs
    <3>1. l \in db_offsets /\ l[1] \notin loaded
      BY <2>2 DEF Rows
    <3> QED BY <3>1 DEF RowsTyped, DbRowsIn
  <2> QED BY <2>1, <2>2
<1>3. ASSUME NEW l \in Rows(offs), l[1][1] = tx.id PROVE l \in offs
  <2>1. ASSUME l \in db_offsets PROVE FALSE
    BY <1>3, <2>1, TxFields DEF RowsTyped
  <2> QED BY <2>1 DEF Rows
<1>4. ASSUME NEW o \in DOMAIN utxo, NEW k \in 0..(Len(utxo[o]) - 1)
      PROVE  <<o, k>> \in Rows(offs) <=> utxo[o][k + 1] \in insc
  <2>1. CASE o[1] # tx.id
    BY <2>1 DEF Mid
  <2>2. CASE o[1] = tx.id
    <3> PICK p \in 0..(Len(tx.sats) - 1) :
          p < SumOf(tx.outs) /\ Loc(p) = <<o, k>> /\ utxo[o][k + 1] = tx.sats[p + 1]
      BY <2>2, OutputSpot
    <3>1. tx.sats[p + 1] \in insc <=> Moved(offs, leak, p) \/ Waiting(offs, n + 1, p)
      BY DEF Mid
    <3>2. Moved(offs, leak, p) <=> <<o, k>> \in offs
      BY DEF Moved
    <3>3. <<o, k>> \in Rows(offs) <=> <<o, k>> \in offs
      <4> PICK l : l = <<o, k>>
        OBVIOUS
      <4>1. l[1][1] = tx.id
        BY <2>2
      <4>2. l \in Rows(offs) => l \in offs
        BY <1>3, <4>1
      <4>3. l \in offs => l \in Rows(offs)
        BY DEF Rows
      <4> QED BY <4>2, <4>3
    <3> QED BY <1>1, <3>1, <3>2, <3>3
  <2> QED BY <2>1, <2>2
<1>5. ASSUME NEW l \in Rows(offs)
      PROVE  /\ l = <<l[1], l[2]>> /\ l[1] \in DOMAIN utxo
             /\ l[2] \in Inscribed(utxo[l[1]], insc)
  <2>1. l = <<l[1], l[2]>> /\ l[1] \in DOMAIN utxo /\ l[2] \in 0..(Len(utxo[l[1]]) - 1)
    BY <1>2
  <2>2. utxo[l[1]][l[2] + 1] \in insc
    <3> PICK o, k : o = l[1] /\ k = l[2]
      OBVIOUS
    <3>1. <<o, k>> \in Rows(offs) /\ o \in DOMAIN utxo /\ k \in 0..(Len(utxo[o]) - 1)
      BY <2>1
    <3>2. utxo[o][k + 1] \in insc
      BY <1>4, <3>1
    <3> QED BY <3>2
  <2> QED BY <2>1, <2>2 DEF Inscribed
<1>6. ASSUME NEW o \in DOMAIN utxo, NEW k \in Inscribed(utxo[o], insc) PROVE <<o, k>> \in Rows(offs)
  <2>1. k \in 0..(Len(utxo[o]) - 1) /\ utxo[o][k + 1] \in insc
    BY DEF Inscribed
  <2> QED BY <1>4, <2>1
<1>7. ASSUME NEW x \in 0..(Len(feeSats) - 1) PROVE x \in leak <=> feeSats[x + 1] \in insc
  <2>1. Base \in Int /\ x \in Int
    <3>1. Len(feeSats) \in Int /\ SumOf(tx.values) \in Int /\ SumOf(tx.outs) \in Int
      BY TxFields DEF ChainTyped
    <3> QED BY <3>1 DEF Base
  <2>2. CASE x < Base
    <3>1. x \in 0..(Base - 1)
      BY <2>1, <2>2
    <3> QED BY <3>1 DEF Mid
  <2>3. CASE ~(x < Base)
    <3>1. x \in Base..(Len(feeSats) - 1)
      BY <2>1, <2>3
    <3> PICK p \in 0..(Len(tx.sats) - 1) :
          /\ ~(p < SumOf(tx.outs)) /\ x = Base + p - SumOf(tx.outs)
          /\ feeSats[x + 1] = tx.sats[p + 1]
      BY <3>1, FeeSpot
    <3>2. tx.sats[p + 1] \in insc <=> Moved(offs, leak, p) \/ Waiting(offs, n + 1, p)
      BY DEF Mid
    <3>3. Moved(offs, leak, p) <=> x \in leak
      BY DEF Moved
    <3> QED BY <1>1, <3>2, <3>3
  <2> QED BY <2>2, <2>3
<1>8. leak = Inscribed(feeSats, insc)
  <2>1. leak \subseteq 0..(Len(feeSats) - 1)
    BY DEF Mid
  <2> QED BY <1>7, <2>1 DEF Inscribed
<1> QED BY <1>5, <1>6, <1>8 DEF Rested

----------------------------------------------------------------------------
(* What a step leaves alone. *)

LEMMA MidNext ==
  ASSUME UNCHANGED <<utxo, feeSats, db_offsets, loaded, tx>>,
         Mid(offsets', leaked', inscribed', input_index')
  PROVE  Mid(offsets, leaked, inscribed, input_index)'
<1>1. \A p : Loc(p)' = Loc(p)
  BY DEF Loc, LocationOf
<1>2. Base' = Base
  BY DEF Base
<1>3. \A p : Moved(offsets, leaked, p)' = Moved(offsets', leaked', p)
  BY <1>1, <1>2 DEF Moved
<1>4. \A p : Waiting(offsets, input_index, p)' = Waiting(offsets', input_index', p)
  BY DEF Waiting
<1>5. Rows(offsets)' = Rows(offsets')
  BY DEF Rows
<1> QED BY <1>1, <1>2, <1>3, <1>4, <1>5 DEF Mid

LEMMA RestNext ==
  ASSUME UNCHANGED <<utxo, feeSats, db_offsets, loaded>>,
         Rested(offsets', leaked', inscribed')
  PROVE  Rested(offsets, leaked, inscribed)'
<1>1. Rows(offsets)' = Rows(offsets')
  BY DEF Rows
<1> QED BY <1>1 DEF Rested, Inscribed

----------------------------------------------------------------------------
(* Input keeps the invariant. *)

LEMMA DoneIs ==
  ASSUME ChainTyped
  PROVE  Done \in Nat /\ (inBlock => Done = blocks - 1) /\ (~inBlock => Done = blocks)
BY DEF ChainTyped, Done

LEMMA InputMidNext ==
  ASSUME IInv, Input, NEW i, i = input_index
  PROVE  /\ TxTyped /\ SatsSpread /\ SatsApart /\ i \in 1..Len(tx.values)
         /\ Mid(offsets, leaked, inscribed, i) /\ DbRowsIn
         /\ Mid(offsets', leaked', inscribed', i + 1)
         /\ \A s \in inscribed' \ inscribed : s \in Satoshis /\ s[1] <= Done
         /\ inscribed \subseteq inscribed'
<1>1. tx # Nil
  BY DEF Input
<1>2. /\ TxTyped /\ SatsSpread /\ SatsApart /\ ChainTyped /\ RowsTyped
      /\ Mid(offsets, leaked, inscribed, i) /\ DbRowsIn
  BY <1>1 DEF IInv, TxOk, InTx
<1>3. i \in 1..Len(tx.values)
  BY <1>2 DEF TxTyped
<1> PICK B : B = Births(i)
  OBVIOUS
<1>4. /\ B \in SUBSET (0..(Len(tx.sats) - 1))
      /\ Filed({l \in offsets : l[1] # tx.inputs[i]}, leaked, B \cup Arriving(offsets, i),
               offsets', leaked')
      /\ inscribed' = inscribed \cup {tx.sats[p + 1] : p \in B}
  BY <1>2, <1>3, InputFiled
<1>5. Mid(offsets', leaked', inscribed \cup {tx.sats[p + 1] : p \in B}, i + 1)
  BY <1>2, <1>3, <1>4, InputMid, ZenonT(30)
<1>6. ASSUME NEW s \in inscribed' \ inscribed PROVE s \in Satoshis /\ s[1] <= Done
  <2> PICK p \in B : s = tx.sats[p + 1]
    BY <1>4
  <2>1. tx.sats \in Seq(Satoshis)
    BY <1>2, TxFields
  <2>2. p + 1 \in DOMAIN tx.sats
    BY <1>4, <2>1
  <2> QED BY <1>2, <2>1, <2>2 DEF TxTyped
<1> QED BY <1>2, <1>3, <1>4, <1>5, <1>6

LEMMA InputStep ==
  ASSUME IInv, Input
  PROVE  IInv'
<1> PICK i : i = input_index
  OBVIOUS
<1>1. /\ TxTyped /\ SatsSpread /\ SatsApart /\ i \in 1..Len(tx.values)
      /\ Mid(offsets, leaked, inscribed, i) /\ DbRowsIn
      /\ Mid(offsets', leaked', inscribed', i + 1)
      /\ \A s \in inscribed' \ inscribed : s \in Satoshis /\ s[1] <= Done
      /\ inscribed \subseteq inscribed'
  BY InputMidNext
<1>2. ChainTyped /\ Dated /\ Unique /\ RowsTyped
  BY DEF IInv
<1>3. /\ UNCHANGED <<utxo, feeSats, db_offsets, db_partials, jubilee, inBlock, loaded,
                     total_amount, txs, blocks>>
      /\ IF i = Len(tx.inputs) THEN tx' = Nil /\ input_index' = 1
         ELSE input_index' = i + 1 /\ tx' = tx
  BY DEF Input
<1>4. tx # Nil /\ inBlock /\ Len(tx.inputs) = Len(tx.values)
  BY <1>1, TxFields DEF TxTyped
<1>5. ChainTyped'
  <2>1. inscribed' \subseteq Satoshis
    BY <1>1, <1>2 DEF ChainTyped
  <2> QED BY <1>2, <1>3, <1>4, <2>1 DEF ChainTyped
<1>6. Done' = Done
  BY <1>3 DEF Done
<1>7. Dated'
  <2>1. \A s \in inscribed' : s[1] <= Done
    BY <1>1, <1>2 DEF Dated
  <2> QED BY <1>2, <1>3, <1>6, <2>1 DEF Dated
<1>8. Unique'
  BY <1>2, <1>3 DEF Unique
<1>9. \A o \in DOMAIN partials' : partials'[o] \in Seq(Scripts)
  <2> PICK op, q : op = tx.inputs[i] /\ q = Parts(i)
    OBVIOUS
  <2>1. q \in Seq(Scripts)
    <3>1. tx.scripts[i] \in Scripts
      BY <1>1, InputFields
    <3>2. CASE op \in DOMAIN partials
      <4>1. partials[op] \in Seq(Scripts) /\ q = Append(partials[op], tx.scripts[i])
        BY <1>2, <3>2 DEF RowsTyped, Parts
      <4> QED BY <3>1, <4>1
    <3>3. CASE op \notin DOMAIN partials
      <4>1. q = <<tx.scripts[i]>>
        BY <3>3 DEF Parts
      <4> QED BY <3>1, <4>1
    <3> QED BY <3>2, <3>3
  <2>2. \/ partials' = partials \/ partials' = Drop(partials, {op})
        \/ partials' = Add(Drop(partials, {op}), [o \in {<<tx.id, i>>} |-> q])
    BY DEF Input
  <2>3. \A o \in DOMAIN partials : partials[o] \in Seq(Scripts)
    BY <1>2 DEF RowsTyped
  <2>4. \A o \in DOMAIN Drop(partials, {op}) : Drop(partials, {op})[o] \in Seq(Scripts)
    BY <2>3 DEF Drop
  <2> PICK r : r = Drop(partials, {op})
    OBVIOUS
  <2>5. \A x \in DOMAIN Add(r, [o \in {<<tx.id, i>>} |-> q]) :
          Add(r, [o \in {<<tx.id, i>>} |-> q])[x] \in Seq(Scripts)
    BY <2>1, <2>4 DEF Add
  <2> QED BY <2>2, <2>3, <2>4, <2>5
<1>10. CASE i = Len(tx.inputs)
  <2>1. tx' = Nil
    BY <1>3, <1>10
  <2>2. Rested(offsets', leaked', inscribed')
    BY <1>1, <1>2, <1>4, <1>10, RestAfter
  <2>3. Rested(offsets, leaked, inscribed)'
    BY <1>3, <2>2, RestNext
  <2>4. RowsTyped'
    BY <1>2, <1>3, <1>9, <2>1 DEF RowsTyped
  <2> QED BY <1>5, <1>7, <1>8, <2>1, <2>3, <2>4 DEF IInv, TxOk, AtRest, InTx
<1>11. CASE i # Len(tx.inputs)
  <2>1. tx' = tx /\ input_index' = i + 1
    BY <1>3, <1>11
  <2>2. RowsTyped'
    BY <1>2, <1>3, <1>9, <2>1 DEF RowsTyped
  <2>3. TxTyped'
    <3>1. i + 1 \in 1..Len(tx.values)
      <4>1. tx.values \in Seq(Nat)
        BY <1>1, TxFields
      <4> QED BY <1>1, <1>4, <1>11, <4>1
    <3> QED BY <1>1, <1>3, <1>6, <2>1, <3>1 DEF TxTyped
  <2>4. SatsSpread' /\ SatsApart'
    <3>1. Base' = Base
      BY <1>3, <2>1 DEF Base
    <3> QED BY <1>1, <1>3, <2>1, <3>1 DEF SatsSpread, SatsApart
  <2>5. Mid(offsets, leaked, inscribed, input_index)'
    BY <1>1, <1>3, <2>1, MidNext
  <2>6. DbRowsIn'
    BY <1>1, <1>3 DEF DbRowsIn
  <2> QED BY <1>4, <1>5, <1>7, <1>8, <2>1, <2>2, <2>3, <2>4, <2>5, <2>6 DEF IInv, TxOk, AtRest, InTx
<1> QED BY <1>10, <1>11

----------------------------------------------------------------------------
(* The satoshis that a transaction spends, and its outputs. *)

Spends(inputs, values, sats) ==
  /\ inputs \in Seq(Outpoints) /\ Len(inputs) >= 1
  /\ values \in Seq(Nat) /\ Len(values) = Len(inputs)
  /\ sats \in Seq(Satoshis) /\ Len(sats) = SumOf(values)
  /\ \A i \in 1..Len(inputs) : /\ inputs[i] \in DOMAIN utxo
                               /\ values[i] = Len(utxo[inputs[i]]) /\ values[i] > 0
  /\ \A i \in 1..Len(inputs) : \A k \in 1..values[i] :
       sats[Before(values, i) + k] = utxo[inputs[i]][k]
  /\ \A i, j \in 1..Len(inputs) : inputs[i] = inputs[j] => i = j

LEMMA SpendsHolds ==
  ASSUME ChainTyped, NEW inputs \in Spendable,
         NEW values, values = [i \in DOMAIN inputs |-> Len(utxo[inputs[i]])],
         NEW sats, sats = FlattenSeq([i \in DOMAIN inputs |-> utxo[inputs[i]]])
  PROVE  Spends(inputs, values, sats)
<1> PICK n \in 1..MaxInputs : inputs \in [1..n -> DOMAIN utxo]
  BY DEF Spendable
<1>1. IsInjective(inputs)
  BY DEF Spendable
<1>2. n \in Nat /\ n >= 1
  BY InscriptionsAssumption
<1>3. inputs \in Seq(Outpoints) /\ Len(inputs) = n /\ DOMAIN inputs = 1..n
  <2>1. inputs \in [1..n -> Outpoints]
    BY DEF ChainTyped
  <2> QED BY <1>2, <2>1
<1> DEFINE q == [i \in 1..n |-> utxo[inputs[i]]]
<1>4. \A i \in 1..n : inputs[i] \in DOMAIN utxo /\ utxo[inputs[i]] \in Seq(Satoshis) /\ utxo[inputs[i]] # <<>>
  BY DEF ChainTyped
<1>5. q \in Seq(Seq(Satoshis)) /\ Len(q) = n /\ \A i \in 1..n : q[i] = utxo[inputs[i]]
  BY <1>2, <1>4
<1>6. sats = FlattenSeq(q)
  BY <1>3
<1> HIDE DEF q
<1>7. values = [i \in 1..Len(q) |-> Len(q[i])]
  BY <1>3, <1>5
<1>9. ASSUME NEW i \in 1..n
      PROVE  values[i] = Len(utxo[inputs[i]]) /\ values[i] \in Nat /\ values[i] > 0
  <2>1. values[i] = Len(utxo[inputs[i]])
    BY <1>5, <1>7
  <2>2. utxo[inputs[i]] \in Seq(Satoshis) /\ utxo[inputs[i]] # <<>>
    BY <1>4
  <2> QED BY <2>1, <2>2
<1>10. values \in Seq(Nat) /\ Len(values) = n
  BY <1>2, <1>5, <1>7, <1>9
<1>8. /\ sats \in Seq(Satoshis) /\ Len(sats) = SumOf(values)
      /\ \A i \in 1..Len(q) : \A k \in 1..Len(q[i]) : sats[Before(values, i) + k] = q[i][k]
  <2>1. Len(q) > 0 /\ q \in Seq(Seq(Satoshis))
    BY <1>2, <1>5
  <2>2. /\ FlattenSeq(q) \in Seq(Satoshis) /\ Len(FlattenSeq(q)) = SumOf(values)
        /\ \A i \in 1..Len(q) : \A k \in 1..Len(q[i]) :
             FlattenSeq(q)[Before(values, i) + k] = q[i][k]
    <3>1. Len(values) = Len(q) /\ \A i \in 1..Len(q) : values[i] = Len(q[i])
      BY <1>5, <1>9, <1>10
    <3>2. Len(q) > 0 /\ q \in Seq(Seq(Satoshis)) /\ values \in Seq(Nat)
      BY <1>10, <2>1
    <3> QED BY ONLY <3>1, <3>2, FlattenIs, ZenonT(60)
  <2> QED BY <1>6, <2>2
<1>11. \A i, j \in 1..n : inputs[i] = inputs[j] => i = j
  BY <1>1, <1>3 DEF IsInjective
<1>12. ASSUME NEW i \in 1..n, NEW k \in 1..values[i]
       PROVE  sats[Before(values, i) + k] = utxo[inputs[i]][k]
  <2>1. q[i] = utxo[inputs[i]] /\ i \in 1..Len(q) /\ k \in 1..Len(q[i])
    BY <1>5, <1>9
  <2> QED BY <1>8, <2>1
<1>13. /\ inputs \in Seq(Outpoints) /\ Len(inputs) = n /\ Len(values) = n /\ n >= 1
       /\ values \in Seq(Nat) /\ sats \in Seq(Satoshis) /\ Len(sats) = SumOf(values)
  BY <1>2, <1>3, <1>8, <1>10
<1> QED BY <1>4, <1>9, <1>11, <1>12, <1>13 DEF Spends

\* Each of them comes from one place in one input.
LEMMA SpendSpot ==
  ASSUME ChainTyped, NEW inputs, NEW values, NEW sats, Spends(inputs, values, sats),
         NEW p \in DOMAIN sats
  PROVE  \E i \in 1..Len(inputs) : \E k :
           /\ IsAt(values, p - 1, i, k) /\ k + 1 \in DOMAIN utxo[inputs[i]]
           /\ sats[p] = utxo[inputs[i]][k + 1]
<1>1. /\ values \in Seq(Nat) /\ sats \in Seq(Satoshis)
      /\ Len(sats) = SumOf(values) /\ Len(values) = Len(inputs)
  BY DEF Spends
<1>2. p \in 1..SumOf(values) /\ SumOf(values) \in Nat
  BY <1>1, BeforeLast
<1>3. p - 1 \in Nat /\ p - 1 < SumOf(values)
  BY <1>2
<1> PICK i, k : i = OutputAt(p - 1, values)[1] /\ k = OutputAt(p - 1, values)[2]
  OBVIOUS
<1>4. IsAt(values, p - 1, i, k)
  BY <1>1, <1>3, OutputAtIs
<1>5. i \in 1..Len(inputs) /\ k \in Nat /\ k < values[i] /\ p - 1 = Before(values, i) + k
  BY <1>1, <1>4 DEF IsAt
<1>6. values[i] \in Nat /\ Before(values, i) \in Nat /\ values[i] = Len(utxo[inputs[i]])
  <2>1. i \in 1..Len(values)
    BY <1>1, <1>5
  <2>2. values[i] \in Nat /\ Before(values, i) \in Nat
    <3>1. values \in Seq(Nat)
      BY <1>1
    <3>2. values[i] \in Nat
      BY ONLY <2>1, <3>1
    <3> QED BY ONLY <2>1, <3>1, <3>2, BeforeNext
  <2>3. values[i] = Len(utxo[inputs[i]])
    BY <1>5 DEF Spends
  <2> QED BY <2>2, <2>3
<1>7. k + 1 \in 1..values[i] /\ Before(values, i) + (k + 1) = p
  <2> PICK b, x : b = Before(values, i) /\ x = values[i]
    OBVIOUS
  <2>1. p \in Nat /\ k \in Nat /\ k < x /\ p - 1 = b + k /\ x \in Nat /\ b \in Nat
    BY <1>2, <1>5, <1>6
  <2>2. k + 1 \in 1..x /\ b + (k + 1) = p
    BY ONLY <2>1
  <2> QED BY <2>2
<1>8. sats[p] = utxo[inputs[i]][k + 1]
  <2>1. sats[Before(values, i) + (k + 1)] = utxo[inputs[i]][k + 1]
    BY <1>5, <1>7 DEF Spends
  <2> QED BY <1>7, <2>1
<1>9. k + 1 \in DOMAIN utxo[inputs[i]]
  <2> PICK s : s = utxo[inputs[i]]
    OBVIOUS
  <2>1. DOMAIN s = 1..Len(s)
    <3>1. s \in Seq(Satoshis)
      BY <1>5 DEF Spends, ChainTyped
    <3> QED BY <3>1
  <2> QED BY <1>6, <1>7, <2>1
<1> QED BY <1>4, <1>5, <1>8, <1>9

LEMMA Cut ==
  ASSUME NEW S, NEW s \in Seq(S), NEW a \in Nat, NEW b \in a..Len(s)
  PROVE  /\ SubSeq(s, a + 1, b) \in Seq(S) /\ Len(SubSeq(s, a + 1, b)) = b - a
         /\ \A k \in 1..(b - a) : SubSeq(s, a + 1, b)[k] = s[a + k]
<1> PICK n \in Nat : n = Len(s)
  OBVIOUS
<1>1. a + 1 \in Int /\ b \in Int
  OBVIOUS
<1>2. \A i \in (a + 1)..b : s[i] \in S
  OBVIOUS
<1>3. /\ SubSeq(s, a + 1, b) \in Seq(S)
      /\ Len(SubSeq(s, a + 1, b)) = IF a + 1 <= b THEN b - (a + 1) + 1 ELSE 0
      /\ \A i \in 1..(b - (a + 1) + 1) : SubSeq(s, a + 1, b)[i] = s[(a + 1) + i - 1]
  BY ONLY <1>1, <1>2, SubSeqProperties
<1>4. (IF a + 1 <= b THEN b - (a + 1) + 1 ELSE 0) = b - a /\ b - (a + 1) + 1 = b - a
  OBVIOUS
<1>5. ASSUME NEW k \in 1..(b - a) PROVE SubSeq(s, a + 1, b)[k] = s[a + k]
  <2>1. (a + 1) + k - 1 = a + k
    OBVIOUS
  <2> QED BY <1>3, <1>4, <2>1
<1> QED BY <1>3, <1>4, <1>5

NewOutputs(id, outs) == {<<id, v>> : v \in {w \in DOMAIN outs : outs[w] > 0}}

\* r puts the satoshis on the outputs, one after the other.
Holds(r, id, outs, sats) ==
  \A v \in DOMAIN outs : outs[v] > 0 =>
    /\ r[<<id, v>>] \in Seq(Satoshis) /\ Len(r[<<id, v>>]) = outs[v]
    /\ \A k \in 1..outs[v] : /\ r[<<id, v>>][k] = sats[Before(outs, v) + k]
                             /\ Before(outs, v) + k \in 1..SumOf(outs)

LEMMA OutputsAre ==
  ASSUME NEW outs \in Seq(Nat), NEW sats \in Seq(Satoshis), SumOf(outs) <= Len(sats), NEW id \in Int,
         NEW r, r = Outputs(id, outs, sats)
  PROVE  DOMAIN r = NewOutputs(id, outs) /\ Holds(r, id, outs, sats)
<1>1. DOMAIN r = {<<id, v>> : v \in {w \in DOMAIN outs : outs[w] > 0}}
  BY DEF Outputs
<1>2. ASSUME NEW v \in DOMAIN outs, outs[v] > 0
      PROVE  /\ r[<<id, v>>] \in Seq(Satoshis) /\ Len(r[<<id, v>>]) = outs[v]
             /\ \A k \in 1..outs[v] : /\ r[<<id, v>>][k] = sats[Before(outs, v) + k]
                                      /\ Before(outs, v) + k \in 1..SumOf(outs)
  <2> PICK o : o = <<id, v>>
    OBVIOUS
  <2>1. o \in DOMAIN r /\ o[2] = v
    BY <1>1, <1>2
  <2>2. r[o] = SubSeq(sats, Before(outs, v) + 1, Before(outs, v + 1))
    BY <2>1 DEF Outputs
  <2> PICK b, c, x, S : b = Before(outs, v) /\ c = Before(outs, v + 1) /\ x = outs[v] /\ S = SumOf(outs)
    OBVIOUS
  <2>3. b \in Nat /\ c = b + x /\ x \in Nat /\ c <= S /\ S \in Nat
    <3>1. v \in 1..Len(outs)
      OBVIOUS
    <3>2. b \in Nat /\ c = b + x /\ x \in Nat
      BY <3>1, BeforeNext
    <3>3. S = Before(outs, Len(outs) + 1) /\ S \in Nat
      BY BeforeLast
    <3>4. c <= S
      <4>1. v + 1 \in 1..(Len(outs) + 1) /\ Len(outs) + 1 \in (v + 1)..(Len(outs) + 1)
        BY <3>1
      <4> QED BY <3>3, <4>1, BeforeGrows
    <3> QED BY <3>2, <3>3, <3>4
  <2> PICK n : n = Len(sats)
    OBVIOUS
  <2>4. n \in Nat /\ S <= n
    OBVIOUS
  <2>8. b \in Nat /\ c \in b..n /\ c - b = x
    BY ONLY <2>3, <2>4
  <2>5. /\ SubSeq(sats, b + 1, c) \in Seq(Satoshis) /\ Len(SubSeq(sats, b + 1, c)) = x
        /\ \A k \in 1..x : SubSeq(sats, b + 1, c)[k] = sats[b + k]
    <3>1. c \in b..Len(sats)
      BY <2>8
    <3>2. /\ SubSeq(sats, b + 1, c) \in Seq(Satoshis) /\ Len(SubSeq(sats, b + 1, c)) = c - b
          /\ \A k \in 1..(c - b) : SubSeq(sats, b + 1, c)[k] = sats[b + k]
      <4>1. sats \in Seq(Satoshis) /\ b \in Nat /\ c \in b..Len(sats)
        BY <2>3, <3>1
      <4> QED BY ONLY <4>1, Cut
    <3> QED BY <2>8, <3>2
  <2>6. ASSUME NEW k \in 1..x PROVE b + k \in 1..S
    BY ONLY <2>3, k \in 1..x
  <2> QED BY <2>2, <2>5, <2>6
<1> QED BY <1>1, <1>2 DEF NewOutputs, Holds

----------------------------------------------------------------------------
(* The state in which the first input of a transaction is next. *)

\* What was there before the transaction is in one place.
StartApart ==
  /\ \A o, p \in DOMAIN utxo : o[1] # tx.id /\ p[1] # tx.id =>
       \A k \in DOMAIN utxo[o], m \in DOMAIN utxo[p] : utxo[o][k] = utxo[p][m] => o = p /\ k = m
  /\ \A k, m \in 1..Base : feeSats[k] = feeSats[m] => k = m
  /\ \A o \in DOMAIN utxo : o[1] # tx.id =>
       \A k \in DOMAIN utxo[o], m \in 1..Base : utxo[o][k] # feeSats[m]

\* The rows are those of before; the ones of the inputs are loaded.
StartRows ==
  /\ \A l \in offsets :
       /\ l = <<l[1], l[2]>> /\ l[1][1] # tx.id
       /\ \/ l[1] \in DOMAIN utxo /\ l[2] \in 0..(Len(utxo[l[1]]) - 1)
          \/ \E j \in 1..Len(tx.values) : l[1] = tx.inputs[j] /\ l[2] \in 0..(tx.values[j] - 1)
  /\ \A o \in DOMAIN utxo : o[1] # tx.id =>
       \A k \in 0..(Len(utxo[o]) - 1) : <<o, k>> \in Rows(offsets) <=> utxo[o][k + 1] \in inscribed
  /\ leaked = {m \in 0..(Base - 1) : feeSats[m + 1] \in inscribed}
  /\ \A j \in 1..Len(tx.values) : \A k \in 0..(tx.values[j] - 1) :
       <<tx.inputs[j], k>> \in offsets <=> tx.sats[(Before(tx.values, j) + k) + 1] \in inscribed

LEMMA BaseIs ==
  ASSUME ChainTyped, TxTyped, SatsSpread
  PROVE  Base \in Nat /\ Base <= Len(feeSats) /\ Len(feeSats) \in Nat
<1>1. Len(feeSats) \in Nat
  BY DEF ChainTyped
<1> PICK S, V, n, b : S = SumOf(tx.outs) /\ V = SumOf(tx.values) /\ n = Len(feeSats) /\ b = Base
  OBVIOUS
<1>2. S \in Nat /\ V \in Nat /\ S <= V
  BY TxFields DEF TxTyped
<1>3. b = n - (V - S) /\ b >= 0
  BY DEF Base, SatsSpread
<1>4. b \in Nat /\ b <= n
  BY <1>1, <1>2, <1>3
<1> QED BY <1>1, <1>4

LEMMA StartUnique ==
  ChainTyped /\ TxTyped /\ SatsSpread /\ SatsApart /\ StartApart => Unique
<1> SUFFICES ASSUME ChainTyped, TxTyped, SatsSpread, SatsApart, StartApart PROVE Unique
  OBVIOUS
<1>1. tx.sats \in Seq(Satoshis) /\ Base \in Nat /\ Base <= Len(feeSats) /\ feeSats \in Seq(Satoshis)
  BY TxFields, BaseIs DEF ChainTyped
<1>2. ASSUME NEW p \in 0..(Len(tx.sats) - 1), NEW q \in 0..(Len(tx.sats) - 1),
             tx.sats[p + 1] = tx.sats[q + 1]
      PROVE  p = q
  <2>1. p + 1 \in DOMAIN tx.sats /\ q + 1 \in DOMAIN tx.sats /\ p \in Int /\ q \in Int
    BY <1>1
  <2>2. p + 1 = q + 1
    BY <1>2, <2>1 DEF SatsApart
  <2> QED BY ONLY <2>1, <2>2
<1>3. ASSUME NEW o \in DOMAIN utxo, o[1] = tx.id, NEW k \in DOMAIN utxo[o]
      PROVE  \E p \in 0..(Len(tx.sats) - 1) :
               p < SumOf(tx.outs) /\ Loc(p) = <<o, k - 1>> /\ utxo[o][k] = tx.sats[p + 1]
  <2>1. utxo[o] \in Seq(Satoshis)
    BY DEF ChainTyped
  <2>2. k - 1 \in 0..(Len(utxo[o]) - 1) /\ (k - 1) + 1 = k
    BY <2>1
  <2> QED BY <1>3, <2>2, OutputSpot
<1>4. ASSUME NEW k \in DOMAIN feeSats, k \notin 1..Base
      PROVE  \E p \in 0..(Len(tx.sats) - 1) :
               /\ ~(p < SumOf(tx.outs)) /\ k - 1 = Base + p - SumOf(tx.outs)
               /\ feeSats[k] = tx.sats[p + 1]
  <2>1. k - 1 \in Base..(Len(feeSats) - 1) /\ (k - 1) + 1 = k
    BY <1>1, <1>4
  <2> QED BY <2>1, FeeSpot
<1>5. ASSUME NEW o \in DOMAIN utxo, NEW p \in DOMAIN utxo, NEW k \in DOMAIN utxo[o],
             NEW m \in DOMAIN utxo[p], utxo[o][k] = utxo[p][m]
      PROVE  o = p /\ k = m
  <2>1. CASE o[1] = tx.id /\ p[1] = tx.id
    <3> PICK a \in 0..(Len(tx.sats) - 1) : Loc(a) = <<o, k - 1>> /\ utxo[o][k] = tx.sats[a + 1]
      BY <1>3, <2>1
    <3> PICK b \in 0..(Len(tx.sats) - 1) : Loc(b) = <<p, m - 1>> /\ utxo[p][m] = tx.sats[b + 1]
      BY <1>3, <2>1
    <3>1. a = b
      BY <1>2, <1>5
    <3>2. <<o, k - 1>> = <<p, m - 1>>
      BY <3>1
    <3>3. o = p /\ k - 1 = m - 1
      BY ONLY <3>2
    <3>4. k \in Int /\ m \in Int
      <4>1. utxo[o] \in Seq(Satoshis) /\ utxo[p] \in Seq(Satoshis)
        BY DEF ChainTyped
      <4> QED BY <4>1
    <3> QED BY ONLY <3>3, <3>4
  <2>2. CASE o[1] = tx.id /\ p[1] # tx.id
    <3> PICK a \in 0..(Len(tx.sats) - 1) : utxo[o][k] = tx.sats[a + 1]
      BY <1>3, <2>2
    <3>1. a + 1 \in DOMAIN tx.sats
      BY <1>1
    <3> QED BY <1>5, <2>2, <3>1 DEF SatsApart
  <2>3. CASE o[1] # tx.id /\ p[1] = tx.id
    <3> PICK a \in 0..(Len(tx.sats) - 1) : utxo[p][m] = tx.sats[a + 1]
      BY <1>3, <2>3
    <3>1. a + 1 \in DOMAIN tx.sats
      BY <1>1
    <3> QED BY <1>5, <2>3, <3>1 DEF SatsApart
  <2>4. CASE o[1] # tx.id /\ p[1] # tx.id
    BY <1>5, <2>4 DEF StartApart
  <2> QED BY <2>1, <2>2, <2>3, <2>4
<1>6. ASSUME NEW k \in DOMAIN feeSats, NEW m \in 1..Base, k \notin 1..Base PROVE feeSats[k] # feeSats[m]
  <2> PICK a \in 0..(Len(tx.sats) - 1) : feeSats[k] = tx.sats[a + 1]
    BY <1>4, <1>6
  <2>1. a + 1 \in DOMAIN tx.sats
    BY <1>1
  <2> QED BY <2>1 DEF SatsApart
<1>7. ASSUME NEW k \in DOMAIN feeSats, NEW m \in DOMAIN feeSats, feeSats[k] = feeSats[m]
      PROVE  k = m
  <2>1. CASE k \in 1..Base /\ m \in 1..Base
    BY <1>7, <2>1 DEF StartApart
  <2>2. CASE k \notin 1..Base /\ m \notin 1..Base
    <3> PICK a \in 0..(Len(tx.sats) - 1) :
          k - 1 = Base + a - SumOf(tx.outs) /\ feeSats[k] = tx.sats[a + 1]
      BY <1>4, <2>2
    <3> PICK b \in 0..(Len(tx.sats) - 1) :
          m - 1 = Base + b - SumOf(tx.outs) /\ feeSats[m] = tx.sats[b + 1]
      BY <1>4, <2>2
    <3>1. a = b
      BY <1>2, <1>7
    <3>2. k - 1 = m - 1 /\ k \in Int /\ m \in Int
      BY <1>1, <3>1
    <3> QED BY ONLY <3>2
  <2> QED BY <1>6, <1>7, <2>1, <2>2
<1>8. ASSUME NEW o \in DOMAIN utxo, NEW k \in DOMAIN utxo[o], NEW m \in DOMAIN feeSats,
             utxo[o][k] = feeSats[m]
      PROVE  FALSE
  <2>1. CASE o[1] = tx.id
    <3> PICK a \in 0..(Len(tx.sats) - 1) : a < SumOf(tx.outs) /\ utxo[o][k] = tx.sats[a + 1]
      BY <1>3, <2>1
    <3>1. a + 1 \in DOMAIN tx.sats
      BY <1>1
    <3>2. CASE m \in 1..Base
      BY <1>8, <3>1, <3>2 DEF SatsApart
    <3>3. CASE m \notin 1..Base
      <4> PICK b \in 0..(Len(tx.sats) - 1) : ~(b < SumOf(tx.outs)) /\ feeSats[m] = tx.sats[b + 1]
        BY <1>4, <3>3
      <4> QED BY <1>2, <1>8
    <3> QED BY <3>2, <3>3
  <2>2. CASE o[1] # tx.id
    <3>1. CASE m \in 1..Base
      BY <1>8, <2>2, <3>1 DEF StartApart
    <3>2. CASE m \notin 1..Base
      <4> PICK b \in 0..(Len(tx.sats) - 1) : feeSats[m] = tx.sats[b + 1]
        BY <1>4, <3>2
      <4>1. b + 1 \in DOMAIN tx.sats
        BY <1>1
      <4> QED BY <1>8, <2>2, <4>1 DEF SatsApart
    <3> QED BY <3>1, <3>2
  <2> QED BY <2>1, <2>2
<1> QED BY <1>5, <1>7, <1>8 DEF Unique

LEMMA StartMid ==
  ChainTyped /\ TxTyped /\ SatsSpread /\ StartRows /\ input_index = 1
    => Mid(offsets, leaked, inscribed, input_index)
<1> SUFFICES ASSUME ChainTyped, TxTyped, SatsSpread, StartRows
             PROVE  Mid(offsets, leaked, inscribed, 1)
  OBVIOUS
<1>1. Base \in Nat /\ Base <= Len(feeSats) /\ Len(feeSats) \in Nat
  BY BaseIs
<1>2. leaked \subseteq 0..(Len(feeSats) - 1)
  BY <1>1 DEF StartRows
<1>3. ASSUME NEW p \in 0..(Len(tx.sats) - 1) PROVE ~Moved(offsets, leaked, p)
  <2>1. p \in Nat
    OBVIOUS
  <2>2. CASE p < SumOf(tx.outs)
    <3>1. Loc(p)[1][1] = tx.id
      BY <2>1, <2>2, LocFirst
    <3>2. Loc(p) \notin offsets
      BY <3>1 DEF StartRows
    <3> QED BY <2>2, <3>2 DEF Moved
  <2>3. CASE ~(p < SumOf(tx.outs))
    <3>1. Base + p - SumOf(tx.outs) \notin 0..(Base - 1)
      <4>1. SumOf(tx.outs) \in Nat
        BY TxFields
      <4> QED BY <1>1, <2>1, <2>3, <4>1
    <3>2. Base + p - SumOf(tx.outs) \notin leaked
      BY <3>1 DEF StartRows
    <3> QED BY <2>3, <3>2 DEF Moved
  <2> QED BY <2>2, <2>3
<1>4. ASSUME NEW p \in 0..(Len(tx.sats) - 1)
      PROVE  tx.sats[p + 1] \in inscribed <=> Waiting(offsets, 1, p)
  <2> PICK v : v = tx.values
    OBVIOUS
  <2>1. v \in Seq(Nat) /\ p \in Nat /\ p < SumOf(v)
    <3>1. v \in Seq(Nat) /\ SumOf(v) \in Nat /\ Len(tx.sats) = SumOf(v)
      BY TxFields DEF TxTyped
    <3> QED BY <3>1
  <2> PICK j, k : IsAt(v, p, j, k)
    BY <2>1, OutputAtIs
  <2>2. InputAt(j, k, p)
    BY InputAtIs
  <2>3. j \in 1..Len(v) /\ k \in 0..(v[j] - 1) /\ p = Before(v, j) + k
    BY <2>2 DEF InputAt
  <2>4. <<tx.inputs[j], k>> \in offsets <=> tx.sats[p + 1] \in inscribed
    BY <2>3 DEF StartRows
  <2>5. ASSUME Waiting(offsets, 1, p) PROVE <<tx.inputs[j], k>> \in offsets
    <3> PICK i \in 1..Len(v) : \E m \in 0..(v[i] - 1) :
               p = Before(v, i) + m /\ <<tx.inputs[i], m>> \in offsets
      BY <2>5 DEF Waiting
    <3> PICK m \in 0..(v[i] - 1) : p = Before(v, i) + m /\ <<tx.inputs[i], m>> \in offsets
      OBVIOUS
    <3>1. InputAt(i, m, p)
      BY DEF InputAt
    <3>2. IsAt(v, p, i, m)
      BY <3>1, InputAtIs
    <3>3. i = j /\ m = k
      BY <2>1, <3>2, AtUnique
    <3> QED BY <3>3
  <2>6. ASSUME <<tx.inputs[j], k>> \in offsets PROVE Waiting(offsets, 1, p)
    BY <2>3, <2>6 DEF Waiting
  <2> QED BY <2>4, <2>5, <2>6
<1> QED BY <1>2, <1>3, <1>4 DEF Mid, StartRows

----------------------------------------------------------------------------
(* BeginTx keeps the invariant. *)

Begins(inputs, outs, scripts, values, sats, id) ==
  /\ Spends(inputs, values, sats) /\ outs \in Seq(Nat) /\ SumOf(outs) <= SumOf(values)
  /\ scripts \in Seq(Scripts) /\ Len(scripts) = Len(inputs)
  /\ \A i \in DOMAIN scripts : scripts[i].tap => jubilee \/ Bells
  /\ id = txs + 1 /\ txs' = id
  /\ tx' = [id |-> id, inputs |-> inputs, values |-> values, outs |-> outs,
            scripts |-> scripts, sats |-> sats]
  /\ utxo' = Add(Drop(utxo, Range(inputs)), Outputs(id, outs, sats))
  /\ feeSats' = feeSats \o SubSeq(sats, SumOf(outs) + 1, Len(sats))
  /\ total_amount' = total_amount + SumOf(values) - SumOf(outs)
  /\ offsets' = offsets \cup {l \in db_offsets : l[1] \in Range(inputs)}
  /\ partials' = Add(partials, Only(db_partials, Range(inputs)))
  /\ loaded' = loaded \cup Range(inputs)
  /\ inBlock /\ tx = Nil /\ input_index' = 1
  /\ UNCHANGED <<inscribed, db_offsets, db_partials, jubilee, inBlock, leaked, blocks>>

LEMMA BeginTxIs ==
  ASSUME ChainTyped, BeginTx
  PROVE  \E inputs, outs, scripts, values, sats, id : Begins(inputs, outs, scripts, values, sats, id)
<1> DEFINE values(inputs) == [i \in DOMAIN inputs |-> Len(utxo[inputs[i]])]
           sats(inputs) == FlattenSeq([i \in DOMAIN inputs |-> utxo[inputs[i]]])
<1> PICK inputs \in Spendable, outs \in Outs :
      \E scripts \in [DOMAIN inputs -> Scripts] :
        /\ SumOf(outs) =< SumOf(values(inputs))
        /\ \A i \in DOMAIN scripts : scripts[i].tap => jubilee \/ Bells
        /\ tx' = [id |-> txs + 1, inputs |-> inputs, values |-> values(inputs), outs |-> outs,
                  scripts |-> scripts, sats |-> sats(inputs)]
        /\ utxo' = Add(Drop(utxo, Range(inputs)), Outputs(txs + 1, outs, sats(inputs)))
        /\ feeSats' = feeSats \o SubSeq(sats(inputs), SumOf(outs) + 1, Len(sats(inputs)))
        /\ total_amount' = total_amount + SumOf(values(inputs)) - SumOf(outs)
        /\ offsets' = offsets \cup {l \in db_offsets : l[1] \in Range(inputs)}
        /\ partials' = Add(partials, Only(db_partials, Range(inputs)))
        /\ loaded' = loaded \cup Range(inputs)
  BY DEF BeginTx
<1> PICK v, s, id : v = values(inputs) /\ s = sats(inputs) /\ id = txs + 1
  OBVIOUS
<1>1. Spends(inputs, v, s)
  BY SpendsHolds
<1> HIDE DEF values, sats
<1> PICK scripts \in [DOMAIN inputs -> Scripts] :
        /\ SumOf(outs) =< SumOf(v)
        /\ \A i \in DOMAIN scripts : scripts[i].tap => jubilee \/ Bells
        /\ tx' = [id |-> id, inputs |-> inputs, values |-> v, outs |-> outs,
                  scripts |-> scripts, sats |-> s]
        /\ utxo' = Add(Drop(utxo, Range(inputs)), Outputs(id, outs, s))
        /\ feeSats' = feeSats \o SubSeq(s, SumOf(outs) + 1, Len(s))
        /\ total_amount' = total_amount + SumOf(v) - SumOf(outs)
        /\ offsets' = offsets \cup {l \in db_offsets : l[1] \in Range(inputs)}
        /\ partials' = Add(partials, Only(db_partials, Range(inputs)))
        /\ loaded' = loaded \cup Range(inputs)
  OBVIOUS
<1>2. scripts \in Seq(Scripts) /\ Len(scripts) = Len(inputs)
  <2>1. inputs \in Seq(Outpoints)
    BY <1>1 DEF Spends
  <2> PICK n \in Nat : n = Len(inputs) /\ DOMAIN inputs = 1..n
    BY <2>1
  <2>2. scripts \in [1..n -> Scripts]
    OBVIOUS
  <2>3. scripts \in Seq(Scripts) /\ Len(scripts) = n
    BY ONLY <2>2, n \in Nat
  <2> QED BY <2>3
<1>3. outs \in Seq(Nat)
  BY InscriptionsAssumption
<1>4. /\ txs' = id /\ inBlock /\ tx = Nil /\ input_index' = 1
      /\ UNCHANGED <<inscribed, db_offsets, db_partials, jubilee, inBlock, leaked, blocks>>
  BY DEF BeginTx
<1>5. Begins(inputs, outs, scripts, v, s, id)
  BY <1>1, <1>2, <1>3, <1>4 DEF Begins
<1> QED BY <1>5

\* The outputs afterwards: those not spent, and the new ones.
LEMMA BeginUtxo ==
  ASSUME IInv, NEW inputs, NEW outs, NEW scripts, NEW values, NEW sats, NEW id,
         Begins(inputs, outs, scripts, values, sats, id)
  PROVE  /\ id \in Nat /\ id # 0 /\ DOMAIN inputs = 1..Len(inputs)
         /\ \A o : o \in Range(inputs) <=> \E i \in 1..Len(inputs) : o = inputs[i]
         /\ Range(inputs) \subseteq DOMAIN utxo
         /\ DOMAIN utxo' = (DOMAIN utxo \ Range(inputs))
                           \cup NewOutputs(id, outs)
         /\ \A o \in DOMAIN utxo \cup loaded : o[1] # id
         /\ \A o \in DOMAIN utxo \ Range(inputs) : utxo'[o] = utxo[o]
         /\ Holds(utxo', id, outs, sats)
<1>1. /\ Spends(inputs, values, sats) /\ outs \in Seq(Nat) /\ SumOf(outs) <= SumOf(values)
      /\ id = txs + 1 /\ txs \in Nat
  BY DEF Begins, IInv, ChainTyped
<1>2. sats \in Seq(Satoshis) /\ Len(sats) = SumOf(values) /\ inputs \in Seq(Outpoints)
  BY <1>1 DEF Spends
<1> PICK r, R : r = Outputs(id, outs, sats) /\ R = Range(inputs)
  OBVIOUS
<1>3. DOMAIN r = NewOutputs(id, outs) /\ Holds(r, id, outs, sats)
  <2>1. SumOf(outs) <= Len(sats) /\ id \in Int
    BY <1>1, <1>2
  <2> QED BY <1>1, <1>2, <2>1, OutputsAre
<1>4. DOMAIN inputs = 1..Len(inputs)
  BY <1>2
<1>5. (\A o : o \in R <=> \E i \in 1..Len(inputs) : o = inputs[i]) /\ R \subseteq DOMAIN utxo
  <2>1. \A o : o \in R <=> \E i \in 1..Len(inputs) : o = inputs[i]
    BY <1>4 DEF Range
  <2> QED BY <1>1, <2>1 DEF Spends
<1>6. \A o \in DOMAIN utxo \cup loaded : o[1] # id
  <2> SUFFICES ASSUME NEW o \in DOMAIN utxo \cup loaded PROVE o[1] # id
    OBVIOUS
  <2>1. o[1] <= txs /\ o[1] \in Int
    BY DEF IInv, Dated, ChainTyped, Outpoints
  <2> QED BY <1>1, <2>1
<1>7. utxo' = Add(Drop(utxo, R), r)
  BY DEF Begins
<1>8. DOMAIN utxo' = (DOMAIN utxo \ R) \cup DOMAIN r
  BY <1>7 DEF Add, Drop
<1>9. ASSUME NEW o \in DOMAIN r PROVE utxo'[o] = r[o]
  BY <1>7 DEF Add, Drop
<1>10. ASSUME NEW o \in DOMAIN utxo \ R PROVE utxo'[o] = utxo[o]
  <2>1. o \notin DOMAIN r
    BY <1>3, <1>6 DEF NewOutputs
  <2> QED BY <1>7, <2>1 DEF Add, Drop
<1>11. ASSUME NEW v \in DOMAIN outs, outs[v] > 0
       PROVE  utxo'[<<id, v>>] = r[<<id, v>>]
  BY <1>3, <1>9, <1>11 DEF NewOutputs
<1>12. id \in Nat /\ id # 0
  BY <1>1
<1>13. Holds(utxo', id, outs, sats)
  BY <1>3, <1>11 DEF Holds
<1> QED BY <1>3, <1>4, <1>5, <1>6, <1>8, <1>10, <1>12, <1>13

\* The fees afterwards.
LEMMA BeginFees ==
  ASSUME IInv, NEW inputs, NEW outs, NEW scripts, NEW values, NEW sats, NEW id,
         Begins(inputs, outs, scripts, values, sats, id)
  PROVE  /\ feeSats' \in Seq(Satoshis) /\ Len(feeSats) \in Nat
         /\ Len(feeSats') = Len(feeSats) + (SumOf(values) - SumOf(outs))
         /\ Len(feeSats') = total_amount'
         /\ \A k \in 1..Len(feeSats) : feeSats'[k] = feeSats[k]
         /\ \A m \in 1..(SumOf(values) - SumOf(outs)) : feeSats'[Len(feeSats) + m] = sats[SumOf(outs) + m]
         /\ SumOf(values) \in Nat /\ SumOf(outs) \in Nat
<1>1. /\ sats \in Seq(Satoshis) /\ Len(sats) = SumOf(values) /\ values \in Seq(Nat)
      /\ outs \in Seq(Nat) /\ SumOf(outs) <= SumOf(values)
  BY DEF Begins, Spends
<1> PICK s, S, V : /\ s = SubSeq(sats, SumOf(outs) + 1, Len(sats)) /\ S = SumOf(outs) /\ V = SumOf(values)
  OBVIOUS
<1>2. S \in Nat /\ V \in Nat /\ S <= V /\ V = Len(sats)
  BY <1>1, BeforeLast
<1>3. s \in Seq(Satoshis) /\ Len(s) = V - S /\ \A m \in 1..(V - S) : s[m] = sats[S + m]
  <2>1. V \in S..Len(sats)
    BY <1>2
  <2>2. s = SubSeq(sats, S + 1, V)
    BY <1>2
  <2>3. /\ SubSeq(sats, S + 1, V) \in Seq(Satoshis) /\ Len(SubSeq(sats, S + 1, V)) = V - S
        /\ \A m \in 1..(V - S) : SubSeq(sats, S + 1, V)[m] = sats[S + m]
    <3>1. sats \in Seq(Satoshis) /\ S \in Nat /\ V \in S..Len(sats)
      BY <1>1, <1>2, <2>1
    <3> QED BY ONLY <3>1, Cut
  <2> QED BY <2>2, <2>3
<1>4. feeSats \in Seq(Satoshis) /\ Len(feeSats) \in Nat /\ total_amount = Len(feeSats)
  BY DEF IInv, ChainTyped
<1>5. feeSats' = feeSats \o s /\ total_amount' = total_amount + V - S
  BY DEF Begins
<1> PICK f : f = feeSats'
  OBVIOUS
<1>6. Extends(f, feeSats, s, Satoshis)
  BY <1>3, <1>4, <1>5, Concatenated
<1>7. /\ f \in Seq(Satoshis) /\ Len(f) = Len(feeSats) + Len(s)
      /\ \A k \in 1..Len(feeSats) : f[k] = feeSats[k]
      /\ \A k \in 1..Len(s) : f[Len(feeSats) + k] = s[k]
  BY <1>6 DEF Extends
<1>8. Len(f) = Len(feeSats) + (V - S)
  BY <1>3, <1>7
<1>9. total_amount' = Len(feeSats) + (V - S)
  BY <1>2, <1>4, <1>5
<1>10. ASSUME NEW m \in 1..(V - S) PROVE f[Len(feeSats) + m] = sats[S + m]
  <2>1. m \in 1..Len(s)
    BY <1>3
  <2> QED BY <1>3, <1>7, <2>1
<1> QED BY <1>2, <1>4, <1>7, <1>8, <1>9, <1>10

\* The satoshis of the inputs were in one place each.
LEMMA BeginSats ==
  ASSUME IInv, NEW inputs, NEW values, NEW sats, Spends(inputs, values, sats)
  PROVE  /\ \A p, q \in DOMAIN sats : sats[p] = sats[q] => p = q
         /\ \A p \in DOMAIN sats : sats[p][1] <= Done
         /\ \A o \in DOMAIN utxo : (\A i \in 1..Len(inputs) : inputs[i] # o) =>
              \A p \in DOMAIN sats, k \in DOMAIN utxo[o] : sats[p] # utxo[o][k]
         /\ \A p \in DOMAIN sats, m \in DOMAIN feeSats : sats[p] # feeSats[m]
<1>1. ChainTyped /\ Unique /\ Dated
  BY DEF IInv
<1>2. ASSUME NEW p \in DOMAIN sats
      PROVE  \E i \in 1..Len(inputs) : \E k :
               /\ IsAt(values, p - 1, i, k) /\ inputs[i] \in DOMAIN utxo
               /\ k + 1 \in DOMAIN utxo[inputs[i]] /\ sats[p] = utxo[inputs[i]][k + 1]
  <2>1. \A i \in 1..Len(inputs) : inputs[i] \in DOMAIN utxo
    BY DEF Spends
  <2> QED BY <1>1, <2>1, SpendSpot
<1>3. ASSUME NEW p \in DOMAIN sats, NEW q \in DOMAIN sats, sats[p] = sats[q] PROVE p = q
  <2> PICK i \in 1..Len(inputs) : \E k :
        /\ IsAt(values, p - 1, i, k) /\ inputs[i] \in DOMAIN utxo
        /\ k + 1 \in DOMAIN utxo[inputs[i]] /\ sats[p] = utxo[inputs[i]][k + 1]
    BY <1>2
  <2> PICK k :
        /\ IsAt(values, p - 1, i, k) /\ inputs[i] \in DOMAIN utxo
        /\ k + 1 \in DOMAIN utxo[inputs[i]] /\ sats[p] = utxo[inputs[i]][k + 1]
    OBVIOUS
  <2> PICK j \in 1..Len(inputs) : \E m :
        /\ IsAt(values, q - 1, j, m) /\ inputs[j] \in DOMAIN utxo
        /\ m + 1 \in DOMAIN utxo[inputs[j]] /\ sats[q] = utxo[inputs[j]][m + 1]
    BY <1>2
  <2> PICK m :
        /\ IsAt(values, q - 1, j, m) /\ inputs[j] \in DOMAIN utxo
        /\ m + 1 \in DOMAIN utxo[inputs[j]] /\ sats[q] = utxo[inputs[j]][m + 1]
    OBVIOUS
  <2>1. inputs[i] = inputs[j] /\ k + 1 = m + 1
    <3> PICK o, w, x, y : o = inputs[i] /\ w = inputs[j] /\ x = k + 1 /\ y = m + 1
      OBVIOUS
    <3>1. o \in DOMAIN utxo /\ w \in DOMAIN utxo /\ x \in DOMAIN utxo[o] /\ y \in DOMAIN utxo[w]
      OBVIOUS
    <3>2. utxo[o][x] = utxo[w][y]
      BY <1>3
    <3>3. o = w /\ x = y
      BY <1>1, <3>1, <3>2 DEF Unique
    <3> QED BY <3>3
  <2>2. i = j
    BY <2>1 DEF Spends
  <2>3. k = m
    <3>1. k \in Nat /\ m \in Nat
      BY DEF IsAt
    <3> QED BY ONLY <2>1, <3>1
  <2>4. p - 1 = q - 1
    BY <2>2, <2>3 DEF IsAt
  <2>5. p \in Int /\ q \in Int
    <3>1. sats \in Seq(Satoshis)
      BY DEF Spends
    <3> QED BY <3>1
  <2> QED BY ONLY <2>4, <2>5
<1>4. ASSUME NEW p \in DOMAIN sats
      PROVE  /\ sats[p][1] <= Done
             /\ \A o \in DOMAIN utxo : (\A i \in 1..Len(inputs) : inputs[i] # o) =>
                  \A k \in DOMAIN utxo[o] : sats[p] # utxo[o][k]
             /\ \A m \in DOMAIN feeSats : sats[p] # feeSats[m]
  <2> PICK i \in 1..Len(inputs) : \E k :
        /\ IsAt(values, p - 1, i, k) /\ inputs[i] \in DOMAIN utxo
        /\ k + 1 \in DOMAIN utxo[inputs[i]] /\ sats[p] = utxo[inputs[i]][k + 1]
    BY <1>2
  <2> PICK k : inputs[i] \in DOMAIN utxo /\ k + 1 \in DOMAIN utxo[inputs[i]] /\ sats[p] = utxo[inputs[i]][k + 1]
    OBVIOUS
  <2>1. sats[p][1] <= Done
    BY <1>1 DEF Dated
  <2>2. \A m \in DOMAIN feeSats : sats[p] # feeSats[m]
    BY <1>1 DEF Unique
  <2>3. ASSUME NEW o \in DOMAIN utxo, \A x \in 1..Len(inputs) : inputs[x] # o,
               NEW m \in DOMAIN utxo[o], sats[p] = utxo[o][m]
        PROVE  FALSE
    <3>1. inputs[i] = o
      BY <1>1, <2>3 DEF Unique
    <3> QED BY <2>3, <3>1
  <2> QED BY <2>1, <2>2, <2>3
<1> QED BY <1>3, <1>4

LEMMA BeginChain ==
  ASSUME IInv, NEW inputs, NEW outs, NEW scripts, NEW values, NEW sats, NEW id,
         Begins(inputs, outs, scripts, values, sats, id)
  PROVE  ChainTyped' /\ Dated' /\ TxTyped' /\ RowsTyped'
<1>1. ChainTyped /\ Unique /\ Dated /\ RowsTyped
  BY DEF IInv
<1>2. Spends(inputs, values, sats)
  BY DEF Begins
<1>3. /\ id \in Nat /\ id # 0 /\ DOMAIN inputs = 1..Len(inputs)
      /\ \A o : o \in Range(inputs) <=> \E i \in 1..Len(inputs) : o = inputs[i]
      /\ Range(inputs) \subseteq DOMAIN utxo
      /\ DOMAIN utxo' = (DOMAIN utxo \ Range(inputs)) \cup NewOutputs(id, outs)
      /\ \A o \in DOMAIN utxo \cup loaded : o[1] # id
      /\ \A o \in DOMAIN utxo \ Range(inputs) : utxo'[o] = utxo[o]
      /\ Holds(utxo', id, outs, sats)
  BY BeginUtxo
<1>4. ASSUME NEW o \in NewOutputs(id, outs)
      PROVE  \E v \in DOMAIN outs : outs[v] > 0 /\ o = <<id, v>> /\ o \in Outpoints
  <2>1. outs \in Seq(Nat)
    BY DEF Begins
  <2> QED BY <1>3, <2>1 DEF NewOutputs, Outpoints
<1>5. ASSUME NEW o \in DOMAIN utxo'
      PROVE  o \in Outpoints /\ utxo'[o] \in Seq(Satoshis) \ {<<>>}
  <2>1. CASE o \in DOMAIN utxo \ Range(inputs)
    BY <1>1, <1>3, <2>1 DEF ChainTyped
  <2>2. CASE o \in NewOutputs(id, outs)
    <3> PICK v \in DOMAIN outs : outs[v] > 0 /\ o = <<id, v>> /\ o \in Outpoints
      BY <1>4, <2>2
    <3>1. utxo'[<<id, v>>] \in Seq(Satoshis) /\ Len(utxo'[<<id, v>>]) = outs[v]
      BY <1>3 DEF Holds
    <3> QED BY <3>1
  <2> QED BY <1>3, <2>1, <2>2
<1>6. utxo' = [o \in DOMAIN utxo' |-> utxo'[o]]
  <2> PICK r, s : r = Drop(utxo, Range(inputs)) /\ s = Outputs(id, outs, sats) /\ utxo' = Add(r, s)
    BY DEF Begins
  <2>1. Add(r, s) = [o \in DOMAIN Add(r, s) |-> Add(r, s)[o]]
    BY DEF Add
  <2> QED BY <2>1
<1>7. utxo' \in [DOMAIN utxo' -> Seq(Satoshis) \ {<<>>}] /\ DOMAIN utxo' \subseteq Outpoints
  BY <1>5, <1>6
<1>8. loaded' = loaded \cup Range(inputs)
  BY DEF Begins
<1>9. loaded' \subseteq Outpoints /\ loaded' \cap DOMAIN utxo' = {}
  <2>1. loaded' \subseteq Outpoints
    BY <1>1, <1>3, <1>8 DEF ChainTyped
  <2>2. ASSUME NEW o \in loaded', o \in DOMAIN utxo' PROVE FALSE
    <3>1. o[1] # id
      BY <1>3, <1>8
    <3>2. o \notin NewOutputs(id, outs)
      BY <3>1 DEF NewOutputs
    <3>3. o \in DOMAIN utxo \ Range(inputs)
      BY <1>3, <2>2, <3>2
    <3> QED BY <1>1, <1>8, <3>3 DEF ChainTyped
  <2> QED BY <2>1, <2>2
<1>10. /\ feeSats' \in Seq(Satoshis) /\ Len(feeSats') = total_amount'
       /\ txs' = id /\ inBlock /\ blocks > 0
       /\ UNCHANGED <<inscribed, db_offsets, db_partials, jubilee, inBlock, leaked, blocks>>
  BY <1>1, BeginFees DEF Begins, ChainTyped
<1>11. ChainTyped'
  BY <1>1, <1>3, <1>7, <1>9, <1>10 DEF ChainTyped
<1>12. Done' = Done
  BY <1>10 DEF Done
<1>13. /\ \A p, q \in DOMAIN sats : sats[p] = sats[q] => p = q
       /\ \A p \in DOMAIN sats : sats[p][1] <= Done
  BY <1>2, BeginSats
<1> PICK D : D = Done /\ D \in Nat
  BY <1>1, DoneIs
<1>14. ASSUME NEW o \in DOMAIN utxo' \cup loaded' PROVE o[1] <= id /\ 0 - D <= o[1]
  <2>1. CASE o \in DOMAIN utxo \cup loaded
    <3>1. o[1] <= txs /\ 0 - D <= o[1] /\ id = txs + 1 /\ txs \in Nat /\ o[1] \in Int
      BY <1>1, <2>1 DEF Dated, Begins, ChainTyped, Outpoints
    <3> QED BY ONLY <3>1
  <2>2. CASE o \in NewOutputs(id, outs)
    <3>1. o[1] = id
      BY <2>2 DEF NewOutputs
    <3> QED BY <1>3, <3>1
  <2> QED BY <1>3, <1>8, <2>1, <2>2
<1>15. ASSUME NEW o \in DOMAIN utxo', NEW k \in DOMAIN utxo'[o] PROVE utxo'[o][k][1] <= D
  <2>1. CASE o \in DOMAIN utxo \ Range(inputs)
    BY <1>1, <1>3, <2>1 DEF Dated
  <2>2. CASE o \in NewOutputs(id, outs)
    <3> PICK v \in DOMAIN outs : outs[v] > 0 /\ o = <<id, v>>
      BY <1>4, <2>2
    <3>1. /\ utxo'[o] \in Seq(Satoshis) /\ Len(utxo'[o]) = outs[v]
          /\ \A m \in 1..outs[v] : /\ utxo'[o][m] = sats[Before(outs, v) + m]
                                   /\ Before(outs, v) + m \in 1..SumOf(outs)
      BY <1>3 DEF Holds
    <3>2. k \in 1..outs[v]
      BY <3>1
    <3> PICK p : p = Before(outs, v) + k /\ utxo'[o][k] = sats[p] /\ p \in 1..SumOf(outs)
      BY <3>1, <3>2
    <3>3. p \in DOMAIN sats
      <4>1. sats \in Seq(Satoshis) /\ SumOf(outs) <= Len(sats) /\ SumOf(outs) \in Nat
        BY BeginFees DEF Begins, Spends
      <4> QED BY <4>1
    <3> QED BY <1>13, <3>3
  <2> QED BY <1>3, <2>1, <2>2
<1>16. ASSUME NEW k \in DOMAIN feeSats' PROVE feeSats'[k][1] <= D
  <2> PICK n, S, V, f : n = Len(feeSats) /\ S = SumOf(outs) /\ V = SumOf(values) /\ f = feeSats'
    OBVIOUS
  <2>1. /\ f \in Seq(Satoshis) /\ n \in Nat /\ Len(f) = n + (V - S) /\ V \in Nat /\ S \in Nat
        /\ \A m \in 1..n : f[m] = feeSats[m]
        /\ \A m \in 1..(V - S) : f[n + m] = sats[S + m]
    BY BeginFees
  <2>2. k \in 1..(n + (V - S))
    BY <2>1
  <2>3. CASE k \in 1..n
    <3>1. k \in DOMAIN feeSats
      BY <1>1, <2>3 DEF ChainTyped
    <3> QED BY <1>1, <2>1, <2>3, <3>1 DEF Dated
  <2>4. CASE k \notin 1..n
    <3> PICK m : m = k - n
      OBVIOUS
    <3>1. m \in 1..(V - S) /\ n + m = k /\ S + m \in 1..V
      <4>1. n \in Nat /\ V \in Nat /\ S \in Nat
        BY <2>1
      <4> QED BY ONLY <2>2, <2>4, <4>1, m = k - n
    <3>2. S + m \in DOMAIN sats
      <4>1. sats \in Seq(Satoshis) /\ Len(sats) = V
        BY <1>2 DEF Spends
      <4> QED BY <3>1, <4>1
    <3>3. f[k] = sats[S + m]
      BY <2>1, <3>1
    <3> QED BY <1>13, <3>2, <3>3
  <2> QED BY <2>3, <2>4
<1>17. Dated'
  BY <1>1, <1>10, <1>12, <1>14, <1>15, <1>16 DEF Dated
<1>18. TxTyped'
  <2>1. tx' = [id |-> id, inputs |-> inputs, values |-> values, outs |-> outs,
               scripts |-> scripts, sats |-> sats]
    BY DEF Begins
  <2>2. /\ inputs \in Seq(Outpoints) /\ Len(inputs) >= 1 /\ values \in Seq(Nat)
        /\ Len(values) = Len(inputs) /\ sats \in Seq(Satoshis) /\ Len(sats) = SumOf(values)
        /\ scripts \in Seq(Scripts) /\ Len(scripts) = Len(inputs) /\ outs \in Seq(Nat)
        /\ SumOf(outs) <= SumOf(values) /\ \A i \in DOMAIN scripts : scripts[i].tap => jubilee \/ Bells
        /\ input_index' = 1
    BY DEF Begins, Spends
  <2>3. tx' \in Txs
    BY <1>3, <2>1, <2>2 DEF Txs
  <2>4. DOMAIN values = 1..Len(inputs)
    BY <2>2
  <2>5. \A i \in DOMAIN values : values[i] > 0
    BY <1>2, <2>4 DEF Spends
  <2>6. 1 \in 1..Len(values)
    BY <2>2
  <2>7. \A i, j \in DOMAIN inputs : inputs[i] = inputs[j] => i = j
    BY <1>2, <1>3 DEF Spends
  <2>8. \A i \in DOMAIN inputs : inputs[i] \in loaded' /\ inputs[i][1] # id
    BY <1>3, <1>8
  <2> QED BY <1>3, <1>10, <1>12, <1>13, <2>1, <2>2, <2>3, <2>5, <2>6, <2>7, <2>8 DEF TxTyped
<1>19. RowsTyped'
  <2>1. tx' # Nil /\ tx'.id = id /\ UNCHANGED <<db_offsets, db_partials>>
    BY InscriptionsAssumption, <1>18 DEF Begins, TxTyped
  <2>2. ASSUME NEW l \in db_offsets
        PROVE  l = <<l[1], l[2]>> /\ l[1] \in DOMAIN utxo' \cup loaded' /\ l[1][1] # id
    <3>1. l = <<l[1], l[2]>> /\ l[1] \in DOMAIN utxo \cup loaded
      BY <1>1 DEF RowsTyped
    <3> QED BY <1>3, <1>8, <3>1
  <2>3. \A o \in DOMAIN partials' : partials'[o] \in Seq(Scripts)
    <3> PICK r : r = Only(db_partials, Range(inputs))
      OBVIOUS
    <3>1. \A o \in DOMAIN r : r[o] \in Seq(Scripts)
      BY <1>1 DEF Only, RowsTyped
    <3>2. partials' = Add(partials, r)
      BY DEF Begins
    <3>3. \A o \in DOMAIN partials : partials[o] \in Seq(Scripts)
      BY <1>1 DEF RowsTyped
    <3> QED BY <3>1, <3>2, <3>3 DEF Add
  <2> QED BY <1>1, <2>1, <2>2, <2>3 DEF RowsTyped
<1> QED BY <1>11, <1>17, <1>18, <1>19

LEMMA RestedIff ==
  ASSUME NEW offs, NEW leak, NEW insc, Rested(offs, leak, insc), NEW o \in DOMAIN utxo,
         NEW k \in 0..(Len(utxo[o]) - 1)
  PROVE  <<o, k>> \in Rows(offs) <=> utxo[o][k + 1] \in insc
<1>1. ASSUME <<o, k>> \in Rows(offs) PROVE utxo[o][k + 1] \in insc
  <2> PICK l : l = <<o, k>>
    OBVIOUS
  <2>1. l[2] \in Inscribed(utxo[l[1]], insc)
    BY <1>1 DEF Rested
  <2>2. k \in Inscribed(utxo[o], insc)
    BY <2>1
  <2> QED BY <2>2 DEF Inscribed
<1>2. ASSUME utxo[o][k + 1] \in insc PROVE <<o, k>> \in Rows(offs)
  BY <1>2 DEF Rested, Inscribed
<1> QED BY <1>1, <1>2

LEMMA BeginStart ==
  ASSUME IInv, NEW inputs, NEW outs, NEW scripts, NEW values, NEW sats, NEW id,
         Begins(inputs, outs, scripts, values, sats, id)
  PROVE  SatsSpread' /\ SatsApart' /\ StartApart' /\ StartRows' /\ DbRowsIn'
<1>1. ChainTyped /\ Unique /\ Dated /\ RowsTyped /\ Rested(offsets, leaked, inscribed)
  BY DEF IInv, AtRest, Begins
<1>2. Spends(inputs, values, sats) /\ outs \in Seq(Nat)
  BY DEF Begins
<1> DEFINE R == Range(inputs)
<1>3. /\ id \in Nat /\ id # 0 /\ DOMAIN inputs = 1..Len(inputs)
      /\ \A o : o \in R <=> \E i \in 1..Len(inputs) : o = inputs[i]
      /\ R \subseteq DOMAIN utxo
      /\ DOMAIN utxo' = (DOMAIN utxo \ R) \cup NewOutputs(id, outs)
      /\ \A o \in DOMAIN utxo \cup loaded : o[1] # id
      /\ \A o \in DOMAIN utxo \ R : utxo'[o] = utxo[o]
      /\ Holds(utxo', id, outs, sats)
  BY BeginUtxo
<1>4. /\ feeSats' \in Seq(Satoshis) /\ Len(feeSats) \in Nat
      /\ Len(feeSats') = Len(feeSats) + (SumOf(values) - SumOf(outs))
      /\ \A k \in 1..Len(feeSats) : feeSats'[k] = feeSats[k]
      /\ \A m \in 1..(SumOf(values) - SumOf(outs)) : feeSats'[Len(feeSats) + m] = sats[SumOf(outs) + m]
      /\ SumOf(values) \in Nat /\ SumOf(outs) \in Nat
  BY BeginFees
<1>5. tx' = [id |-> id, inputs |-> inputs, values |-> values, outs |-> outs,
             scripts |-> scripts, sats |-> sats]
  BY DEF Begins
<1>6. /\ tx'.id = id /\ tx'.inputs = inputs /\ tx'.values = values /\ tx'.outs = outs /\ tx'.sats = sats
      /\ UNCHANGED <<inscribed, db_offsets, leaked>>
      /\ offsets' = offsets \cup {l \in db_offsets : l[1] \in R}
      /\ loaded' = loaded \cup R
  BY <1>5 DEF Begins
<1>7. Base' = Len(feeSats)
  BY <1>4, <1>6 DEF Base
<1>8. ASSUME NEW o \in DOMAIN utxo'
      PROVE  /\ o[1] # id => o \in DOMAIN utxo \ R /\ utxo'[o] = utxo[o] /\ o \in DOMAIN utxo
             /\ o[1] = id => \E v \in DOMAIN outs : outs[v] > 0 /\ o = <<id, v>>
  BY <1>3 DEF NewOutputs
<1>9. SatsSpread'
  <2>1. ASSUME NEW v \in DOMAIN outs, outs[v] > 0
        PROVE  /\ <<id, v>> \in DOMAIN utxo' /\ Len(utxo'[<<id, v>>]) = outs[v]
               /\ \A k \in 1..outs[v] : utxo'[<<id, v>>][k] = sats[Before(outs, v) + k]
    BY <1>3, <2>1 DEF NewOutputs, Holds
  <2>2. ASSUME NEW o \in DOMAIN utxo', o[1] = id PROVE o[2] \in DOMAIN outs /\ outs[o[2]] > 0
    BY <1>8, <2>2
  <2>3. /\ Base' >= 0
        /\ \A m \in 1..(SumOf(values) - SumOf(outs)) : feeSats'[Base' + m] = sats[SumOf(outs) + m]
    BY <1>4, <1>7
  <2> HIDE DEF R
  <2>4. /\ tx'.id = id /\ tx'.values = values /\ tx'.outs = outs /\ tx'.sats = sats
    BY <1>6
  <2> PICK b : b = Base'
    OBVIOUS
  <2> QED BY ONLY <2>1, <2>2, <2>3, <2>4, b = Base' DEF SatsSpread
<1>10. DOMAIN feeSats = 1..Len(feeSats)
  BY <1>1 DEF ChainTyped
<1>11. SatsApart'
  <2>1. /\ \A p, q \in DOMAIN sats : sats[p] = sats[q] => p = q
        /\ \A o \in DOMAIN utxo : (\A i \in 1..Len(inputs) : inputs[i] # o) =>
             \A p \in DOMAIN sats, k \in DOMAIN utxo[o] : sats[p] # utxo[o][k]
        /\ \A p \in DOMAIN sats, m \in DOMAIN feeSats : sats[p] # feeSats[m]
    BY <1>2, BeginSats
  <2>2. ASSUME NEW o \in DOMAIN utxo', o[1] # id, NEW p \in DOMAIN sats, NEW k \in DOMAIN utxo'[o]
        PROVE  sats[p] # utxo'[o][k]
    <3>1. o \in DOMAIN utxo /\ utxo'[o] = utxo[o] /\ \A i \in 1..Len(inputs) : inputs[i] # o
      BY <1>3, <1>8, <2>2
    <3> QED BY <2>1, <3>1
  <2>3. \A p \in DOMAIN sats, m \in 1..Len(feeSats) : sats[p] # feeSats'[m]
    BY <1>4, <1>10, <2>1
  <2> QED BY <1>6, <1>7, <2>1, <2>2, <2>3 DEF SatsApart
<1>12. StartApart'
  <2>1. ASSUME NEW o \in DOMAIN utxo', NEW p \in DOMAIN utxo', o[1] # id, p[1] # id,
               NEW k \in DOMAIN utxo'[o], NEW m \in DOMAIN utxo'[p], utxo'[o][k] = utxo'[p][m]
        PROVE  o = p /\ k = m
    <3>1. o \in DOMAIN utxo /\ utxo'[o] = utxo[o] /\ p \in DOMAIN utxo /\ utxo'[p] = utxo[p]
      BY <1>8, <2>1
    <3> QED BY <1>1, <2>1, <3>1 DEF Unique
  <2>2. ASSUME NEW k \in 1..Len(feeSats), NEW m \in 1..Len(feeSats), feeSats'[k] = feeSats'[m]
        PROVE  k = m
    BY <1>1, <1>4, <1>10, <2>2 DEF Unique
  <2>3. ASSUME NEW o \in DOMAIN utxo', o[1] # id, NEW k \in DOMAIN utxo'[o], NEW m \in 1..Len(feeSats)
        PROVE  utxo'[o][k] # feeSats'[m]
    <3>1. o \in DOMAIN utxo /\ utxo'[o] = utxo[o] /\ feeSats'[m] = feeSats[m] /\ m \in DOMAIN feeSats
      BY <1>4, <1>8, <1>10, <2>3
    <3> QED BY <1>1, <3>1 DEF Unique
  <2> QED BY <1>6, <1>7, <2>1, <2>2, <2>3 DEF StartApart
<1>13. ASSUME NEW l, l \in offsets' \/ (l \in db_offsets /\ l[1] \notin loaded')
       PROVE  l \in Rows(offsets)
  <2>1. CASE l \in offsets
    BY <2>1 DEF Rows
  <2>2. CASE l \notin offsets
    <3>1. l \in db_offsets /\ l[1] \notin loaded
      BY <1>1, <1>3, <1>6, <1>13, <2>2 DEF ChainTyped
    <3> QED BY <3>1 DEF Rows
  <2> QED BY <2>1, <2>2
<1>14. ASSUME NEW l \in Rows(offsets)
       PROVE  /\ l = <<l[1], l[2]>> /\ l[1] \in DOMAIN utxo /\ l[1][1] # id
              /\ l[2] \in 0..(Len(utxo[l[1]]) - 1)
  BY <1>1, <1>3 DEF Rested, Inscribed
<1>15. \A i \in 1..Len(inputs) : inputs[i] \in R /\ values[i] = Len(utxo[inputs[i]])
  BY <1>2, <1>3 DEF Spends
<1>16. Len(values) = Len(inputs)
  BY <1>2 DEF Spends
<1>17. StartRows'
  <2>1. ASSUME NEW l \in offsets'
        PROVE  /\ l = <<l[1], l[2]>> /\ l[1][1] # id
               /\ \/ l[1] \in DOMAIN utxo' /\ l[2] \in 0..(Len(utxo'[l[1]]) - 1)
                  \/ \E j \in 1..Len(values) : l[1] = inputs[j] /\ l[2] \in 0..(values[j] - 1)
    <3>1. /\ l = <<l[1], l[2]>> /\ l[1] \in DOMAIN utxo /\ l[1][1] # id
          /\ l[2] \in 0..(Len(utxo[l[1]]) - 1)
      BY <1>13, <1>14
    <3>2. CASE l[1] \in R
      <4> PICK j \in 1..Len(inputs) : l[1] = inputs[j]
        BY <1>3, <3>2
      <4> QED BY <1>15, <1>16, <3>1
    <3>3. CASE l[1] \notin R
      <4>1. l[1] \in DOMAIN utxo' /\ utxo'[l[1]] = utxo[l[1]]
        BY <1>3, <3>1, <3>3
      <4> QED BY <3>1, <4>1
    <3> QED BY <3>2, <3>3
  <2>2. ASSUME NEW o \in DOMAIN utxo', o[1] # id, NEW k \in 0..(Len(utxo'[o]) - 1)
        PROVE  <<o, k>> \in Rows(offsets)' <=> utxo'[o][k + 1] \in inscribed
    <3>1. o \in DOMAIN utxo \ R /\ utxo'[o] = utxo[o] /\ k \in 0..(Len(utxo[o]) - 1)
      BY <1>8, <2>2
    <3>2. <<o, k>> \in Rows(offsets) <=> utxo[o][k + 1] \in inscribed
      BY <1>1, <3>1, RestedIff
    <3>3. <<o, k>> \in Rows(offsets)' <=> <<o, k>> \in Rows(offsets)
      <4> PICK l : l = <<o, k>>
        OBVIOUS
      <4>0. l[1] \notin R
        BY <3>1
      <4>1. l \in Rows(offsets)' <=> l \in Rows(offsets)
        BY <1>6, <4>0 DEF Rows
      <4> QED BY <4>1
    <3> QED BY <3>1, <3>2, <3>3
  <2>3. leaked' = {m \in 0..(Len(feeSats) - 1) : feeSats'[m + 1] \in inscribed}
    <3>1. leaked' = {m \in 0..(Len(feeSats) - 1) : feeSats[m + 1] \in inscribed}
      BY <1>1, <1>6 DEF Rested, Inscribed
    <3>2. \A m \in 0..(Len(feeSats) - 1) : feeSats'[m + 1] = feeSats[m + 1]
      BY <1>4
    <3> QED BY <3>1, <3>2
  <2>4. ASSUME NEW j \in 1..Len(values), NEW k \in 0..(values[j] - 1)
        PROVE  <<inputs[j], k>> \in offsets' <=> sats[(Before(values, j) + k) + 1] \in inscribed
    <3> PICK o, b : o = inputs[j] /\ b = Before(values, j)
      OBVIOUS
    <3>1. o \in R /\ o \in DOMAIN utxo /\ values[j] = Len(utxo[o]) /\ j \in 1..Len(inputs)
      BY <1>3, <1>15, <1>16
    <3>2. <<o, k>> \in Rows(offsets) <=> utxo[o][k + 1] \in inscribed
      BY <1>1, <3>1, RestedIff
    <3>3. <<o, k>> \in offsets' <=> <<o, k>> \in Rows(offsets)
      <4> PICK l : l = <<o, k>>
        OBVIOUS
      <4>0. l[1] \in R
        BY <3>1
      <4>1. l[1] \notin loaded
        BY <1>1, <1>3, <4>0 DEF ChainTyped
      <4>2. l \in offsets' <=> l \in Rows(offsets)
        BY <1>6, <4>0, <4>1 DEF Rows
      <4> QED BY <4>2
    <3>4. sats[(b + k) + 1] = utxo[o][k + 1]
      <4>1. values \in Seq(Nat)
        BY <1>2 DEF Spends
      <4>2. values[j] \in Nat /\ b \in Nat
        BY <4>1, BeforeNext
      <4>3. k + 1 \in 1..values[j] /\ b + (k + 1) = (b + k) + 1
        BY <4>2
      <4>4. sats[b + (k + 1)] = utxo[o][k + 1]
        BY <1>2, <3>1, <4>3 DEF Spends
      <4> QED BY <4>3, <4>4
    <3> QED BY <3>2, <3>3, <3>4
  <2> QED BY <1>6, <1>7, <2>1, <2>2, <2>3, <2>4 DEF StartRows
<1>18. DbRowsIn'
  <2> SUFFICES ASSUME NEW l \in db_offsets, l[1] \notin loaded'
               PROVE  l[2] \in 0..(Len(utxo'[l[1]]) - 1)
    BY <1>6 DEF DbRowsIn
  <2>1. l[1] \in DOMAIN utxo \ R /\ l[2] \in 0..(Len(utxo[l[1]]) - 1)
    BY <1>6, <1>13, <1>14
  <2> QED BY <1>3, <2>1
<1> QED BY <1>9, <1>11, <1>12, <1>17, <1>18

LEMMA BeginTxStep ==
  ASSUME IInv, BeginTx
  PROVE  IInv'
<1>1. ChainTyped
  BY DEF IInv
<1> PICK inputs, outs, scripts, values, sats, id : Begins(inputs, outs, scripts, values, sats, id)
  BY <1>1, BeginTxIs
<1>2. ChainTyped' /\ Dated' /\ TxTyped' /\ RowsTyped'
  BY BeginChain
<1>3. SatsSpread' /\ SatsApart' /\ StartApart' /\ StartRows' /\ DbRowsIn'
  BY BeginStart
<1>4. input_index' = 1
  BY DEF Begins
<1>5. Unique'
  <2>1. (ChainTyped /\ TxTyped /\ SatsSpread /\ SatsApart /\ StartApart => Unique)'
    BY StartUnique, PTL
  <2> QED BY <1>2, <1>3, <2>1
<1>6. Mid(offsets, leaked, inscribed, input_index)'
  <2>1. (ChainTyped /\ TxTyped /\ SatsSpread /\ StartRows /\ input_index = 1
           => Mid(offsets, leaked, inscribed, input_index))'
    BY StartMid, PTL
  <2> QED BY <1>2, <1>3, <1>4, <2>1
<1>7. tx' # Nil
  BY <1>2, InscriptionsAssumption DEF TxTyped
<1> QED BY <1>2, <1>3, <1>5, <1>6, <1>7 DEF IInv, TxOk, AtRest, InTx

----------------------------------------------------------------------------
(* EndBlock keeps the invariant. *)

LEMMA CoinbaseIs ==
  ASSUME NEW r \in Nat, NEW outs \in CoinbaseOutputs(r)
  PROVE  outs \in Seq(Nat) /\ SumOf(outs) = r
<1>1. CASE outs = <<r>>
  <2>1. outs \in Seq(Nat) /\ Len(outs) = 1 /\ outs[1] = r
    BY <1>1
  <2>2. Before(outs, 1 + 1) = Before(outs, 1) + r /\ Before(outs, 1) = 0
    <3>1. 1 \in 1..Len(outs)
      BY <2>1
    <3> QED BY <2>1, <3>1, BeforeNext, BeforeFirst
  <2>3. SumOf(outs) = Before(outs, 1 + 1)
    BY <2>1, BeforeLast
  <2> QED BY <2>1, <2>2, <2>3
<1>2. ASSUME NEW k \in 0..r, outs = <<k, r - k>>
      PROVE  outs \in Seq(Nat) /\ SumOf(outs) = r
  <2> PICK a, b : a = k /\ b = r - k
    OBVIOUS
  <2>1. a \in Nat /\ b \in Nat /\ a + b = r
    OBVIOUS
  <2>2. outs \in Seq(Nat) /\ Len(outs) = 2 /\ outs[1] = a /\ outs[2] = b
    BY <1>2, <2>1
  <2>3. Before(outs, 1 + 1) = Before(outs, 1) + a /\ Before(outs, 1) = 0
    <3>1. 1 \in 1..Len(outs)
      BY <2>2
    <3> QED BY <2>2, <3>1, BeforeNext, BeforeFirst
  <2>4. Before(outs, 2 + 1) = Before(outs, 2) + b
    <3>1. 2 \in 1..Len(outs)
      BY <2>2
    <3> QED BY <2>2, <3>1, BeforeNext
  <2>5. SumOf(outs) = Before(outs, 2 + 1)
    BY <2>2, BeforeLast
  <2>6. 1 + 1 = 2 /\ 0 + a + b = r
    BY <2>1
  <2> QED BY <2>1, <2>2, <2>3, <2>4, <2>5, <2>6
<1> QED BY <1>1, <1>2 DEF CoinbaseOutputs

\* What the coinbase writes.
Ends(outs, sats, id) ==
  /\ outs \in Seq(Nat) /\ SumOf(outs) = Subsidy + total_amount /\ id = 0 - blocks
  /\ Extends(sats, NewSats, feeSats, Satoshis)
  /\ utxo' = Add(utxo, Outputs(id, outs, sats))
  /\ \A l : l \in db_offsets' <=>
       \/ l \in Rows(offsets)
       \/ \E k \in leaked : LET t == find_inscription_vout(k, outs)
                            IN  t # Nil /\ l = <<<<id, t[1]>>, t[2]>>
  /\ db_partials' = Add(Drop(db_partials, loaded), partials)
  /\ inBlock /\ tx = Nil /\ inBlock' = FALSE
  /\ loaded' = {} /\ offsets' = {} /\ partials' = NoRows
  /\ leaked' = {} /\ total_amount' = 0 /\ feeSats' = <<>>
  /\ UNCHANGED <<inscribed, jubilee, tx, txs, blocks>>

LEMMA NewSatsAre ==
  ASSUME ChainTyped
  PROVE  NewSats \in Seq(Satoshis) /\ Len(NewSats) = Subsidy
         /\ \A k \in 1..Subsidy : NewSats[k] = <<blocks, 0, k>>
<1>1. Subsidy \in Nat /\ blocks \in Nat
  BY InscriptionsAssumption DEF ChainTyped
<1>2. \A k \in 1..Subsidy : <<blocks, 0, k>> \in Satoshis
  BY <1>1 DEF Satoshis
<1> QED BY <1>1, <1>2 DEF NewSats

LEMMA EndBlockIs ==
  ASSUME ChainTyped, EndBlock
  PROVE  \E outs, sats, id : Ends(outs, sats, id)
<1> PICK outs \in CoinbaseOutputs(Subsidy + total_amount) :
      LET sats == NewSats \o feeSats
          vouts == {find_inscription_vout(k, outs) : k \in leaked} \ {Nil}
      IN  /\ utxo' = Add(utxo, Outputs(-blocks, outs, sats))
          /\ db_offsets' = {l \in db_offsets : l[1] \notin loaded} \cup offsets
                           \cup {<<<<-blocks, t[1]>>, t[2]>> : t \in vouts}
  BY DEF EndBlock
<1> PICK sats, id : sats = NewSats \o feeSats /\ id = 0 - blocks
  OBVIOUS
<1>1. /\ Subsidy + total_amount \in Nat /\ -blocks = id
      /\ NewSats \in Seq(Satoshis) /\ feeSats \in Seq(Satoshis)
  <2>1. feeSats \in Seq(Satoshis) /\ total_amount = Len(feeSats) /\ blocks \in Nat /\ Subsidy \in Nat
    BY InscriptionsAssumption DEF ChainTyped
  <2> QED BY <2>1, NewSatsAre
<1>2. outs \in Seq(Nat) /\ SumOf(outs) = Subsidy + total_amount
  BY <1>1, CoinbaseIs
<1>3. Extends(sats, NewSats, feeSats, Satoshis)
  BY <1>1, Concatenated
<1>4. utxo' = Add(utxo, Outputs(id, outs, sats))
  BY <1>1
<1>5. ASSUME NEW l
      PROVE  l \in db_offsets' <=>
               \/ l \in Rows(offsets)
               \/ \E k \in leaked : LET t == find_inscription_vout(k, outs)
                                    IN  t # Nil /\ l = <<<<id, t[1]>>, t[2]>>
  <2> PICK V : V = {find_inscription_vout(k, outs) : k \in leaked} \ {Nil}
    OBVIOUS
  <2>1. l \in db_offsets' <=> l \in Rows(offsets) \/ \E t \in V : l = <<<<id, t[1]>>, t[2]>>
    BY <1>1 DEF Rows
  <2>2. \A t : t \in V <=> t # Nil /\ \E k \in leaked : t = find_inscription_vout(k, outs)
    OBVIOUS
  <2> QED BY <2>1, <2>2
<1>6. /\ db_partials' = Add(Drop(db_partials, loaded), partials)
      /\ inBlock /\ tx = Nil /\ inBlock' = FALSE
      /\ loaded' = {} /\ offsets' = {} /\ partials' = NoRows
      /\ leaked' = {} /\ total_amount' = 0 /\ feeSats' = <<>>
      /\ UNCHANGED <<inscribed, jubilee, tx, txs, blocks>>
  BY DEF EndBlock
<1>7. Ends(outs, sats, id)
  BY <1>2, <1>3, <1>4, <1>5, <1>6 DEF Ends
<1> QED BY <1>7

\* The outputs afterwards: those of before, and those of the coinbase.
LEMMA EndUtxo ==
  ASSUME IInv, NEW outs, NEW sats, NEW id, Ends(outs, sats, id)
  PROVE  /\ id \in Int /\ sats \in Seq(Satoshis) /\ Len(sats) = SumOf(outs)
         /\ DOMAIN utxo' = DOMAIN utxo \cup NewOutputs(id, outs)
         /\ \A o \in DOMAIN utxo : o[1] # id /\ utxo'[o] = utxo[o]
         /\ Holds(utxo', id, outs, sats)
         /\ utxo' = [o \in DOMAIN utxo' |-> utxo'[o]]
<1>1. /\ ChainTyped /\ Dated /\ outs \in Seq(Nat) /\ SumOf(outs) = Subsidy + total_amount
      /\ Extends(sats, NewSats, feeSats, Satoshis) /\ id = 0 - blocks /\ inBlock
  BY DEF Ends, IInv
<1>2. sats \in Seq(Satoshis) /\ Len(sats) = SumOf(outs)
  <2>1. Len(NewSats) = Subsidy /\ Len(feeSats) = total_amount
    BY <1>1, NewSatsAre DEF ChainTyped
  <2> QED BY <1>1, <2>1 DEF Extends
<1>3. blocks \in Nat /\ blocks > 0 /\ Done = blocks - 1 /\ id \in Int
  BY <1>1, DoneIs DEF ChainTyped
<1>4. ASSUME NEW o \in DOMAIN utxo PROVE o[1] # id
  <2>1. 0 - Done <= o[1] /\ o[1] \in Int
    BY <1>1 DEF Dated, ChainTyped, Outpoints
  <2> QED BY <1>1, <1>3, <2>1
<1> PICK r : r = Outputs(id, outs, sats)
  OBVIOUS
<1>5. DOMAIN r = NewOutputs(id, outs) /\ Holds(r, id, outs, sats)
  <2>1. SumOf(outs) <= Len(sats)
    <3>1. SumOf(outs) \in Nat
      BY <1>1, BeforeLast
    <3> QED BY <1>2, <3>1
  <2> QED BY <1>1, <1>2, <1>3, <2>1, OutputsAre
<1>6. utxo' = Add(utxo, r)
  BY DEF Ends
<1>7. /\ DOMAIN utxo' = DOMAIN utxo \cup DOMAIN r
      /\ \A o \in DOMAIN r : utxo'[o] = r[o]
      /\ \A o \in DOMAIN utxo \ DOMAIN r : utxo'[o] = utxo[o]
      /\ utxo' = [o \in DOMAIN utxo' |-> utxo'[o]]
  <2>1. Add(utxo, r) = [o \in DOMAIN Add(utxo, r) |-> Add(utxo, r)[o]]
    BY DEF Add
  <2>2. /\ DOMAIN Add(utxo, r) = DOMAIN utxo \cup DOMAIN r
        /\ \A o \in DOMAIN r : Add(utxo, r)[o] = r[o]
        /\ \A o \in DOMAIN utxo \ DOMAIN r : Add(utxo, r)[o] = utxo[o]
    BY DEF Add
  <2> QED BY <1>6, <2>1, <2>2
<1>8. ASSUME NEW o \in DOMAIN utxo PROVE utxo'[o] = utxo[o]
  <2>1. o \notin DOMAIN r
    BY <1>4, <1>5 DEF NewOutputs
  <2> QED BY <1>7, <2>1
<1>9. Holds(utxo', id, outs, sats)
  <2>1. ASSUME NEW v \in DOMAIN outs, outs[v] > 0 PROVE utxo'[<<id, v>>] = r[<<id, v>>]
    BY <1>5, <1>7, <2>1 DEF NewOutputs
  <2> QED BY <1>5, <2>1 DEF Holds
<1> QED BY <1>2, <1>3, <1>4, <1>5, <1>7, <1>8, <1>9

\* Each satoshi of a coinbase is one of the reward, or one of the fees after it.
RewardThenFees(sats) ==
  \A p \in 1..Len(sats) :
    \/ p \in 1..Subsidy /\ sats[p] = <<blocks, 0, p>>
    \/ \E k \in 1..Len(feeSats) : p = Subsidy + k /\ sats[p] = feeSats[k]

\* The satoshis of the coinbase: new ones, and those of the fees.
LEMMA EndSats ==
  ASSUME IInv, NEW outs, NEW sats, NEW id, Ends(outs, sats, id)
  PROVE  /\ RewardThenFees(sats)
         /\ \A k \in 1..Len(feeSats) : Subsidy + k \in 1..Len(sats) /\ sats[Subsidy + k] = feeSats[k]
         /\ \A k \in 1..Len(feeSats) : feeSats[k][1] <= Done
         /\ \A o \in DOMAIN utxo : \A k \in DOMAIN utxo[o] : utxo[o][k][1] <= Done
         /\ \A s \in inscribed : s[1] <= Done
         /\ Done = blocks - 1 /\ blocks \in Nat /\ Subsidy \in Nat /\ Len(feeSats) \in Nat
         /\ total_amount = Len(feeSats) /\ Len(sats) = Subsidy + Len(feeSats)
<1>1. ChainTyped /\ Dated /\ inBlock /\ Extends(sats, NewSats, feeSats, Satoshis)
  BY DEF IInv, Ends
<1>2. Done = blocks - 1 /\ blocks \in Nat /\ Subsidy \in Nat
  BY <1>1, DoneIs, InscriptionsAssumption DEF ChainTyped
<1> PICK n : n = Len(feeSats)
  OBVIOUS
<1>3. n \in Nat /\ total_amount = n /\ DOMAIN feeSats = 1..n
  BY <1>1 DEF ChainTyped
<1>4. Len(NewSats) = Subsidy /\ \A k \in 1..Subsidy : NewSats[k] = <<blocks, 0, k>>
  BY <1>1, NewSatsAre
<1>5. /\ Len(sats) = Subsidy + n
      /\ \A k \in 1..Subsidy : sats[k] = <<blocks, 0, k>>
      /\ \A k \in 1..n : sats[Subsidy + k] = feeSats[k]
  BY <1>1, <1>4 DEF Extends
<1>6. ASSUME NEW p \in 1..(Subsidy + n)
      PROVE  \/ p \in 1..Subsidy /\ sats[p] = <<blocks, 0, p>>
             \/ \E k \in 1..n : p = Subsidy + k /\ sats[p] = feeSats[k]
  <2>1. CASE p \in 1..Subsidy
    BY <1>5, <2>1
  <2>2. CASE p \notin 1..Subsidy
    <3> PICK k : k = p - Subsidy
      OBVIOUS
    <3>1. k \in 1..n /\ p = Subsidy + k
      BY ONLY <1>2, <1>3, <2>2, k = p - Subsidy, p \in 1..(Subsidy + n)
    <3> QED BY <1>5, <3>1
  <2> QED BY <2>1, <2>2
<1>7. ASSUME NEW k \in 1..n PROVE Subsidy + k \in 1..(Subsidy + n)
  BY ONLY <1>2, <1>3, k \in 1..n
<1>8. /\ \A k \in 1..n : feeSats[k][1] <= Done
      /\ \A o \in DOMAIN utxo : \A k \in DOMAIN utxo[o] : utxo[o][k][1] <= Done
      /\ \A s \in inscribed : s[1] <= Done
  BY <1>1, <1>3 DEF Dated
<1>9. RewardThenFees(sats)
  BY <1>3, <1>5, <1>6 DEF RewardThenFees
<1> QED BY <1>2, <1>3, <1>5, <1>7, <1>8, <1>9

\* They are in one place each, too.
LEMMA EndApart ==
  ASSUME IInv, NEW outs, NEW sats, NEW id, Ends(outs, sats, id)
  PROVE  /\ \A p, q \in 1..Len(sats) : sats[p] = sats[q] => p = q
         /\ \A p \in 1..Len(sats), o \in DOMAIN utxo : \A k \in DOMAIN utxo[o] : sats[p] # utxo[o][k]
         /\ \A p \in 1..Len(sats) : sats[p][1] <= blocks
<1>1. /\ \A p \in 1..Len(sats) :
           \/ p \in 1..Subsidy /\ sats[p] = <<blocks, 0, p>>
           \/ \E k \in 1..Len(feeSats) : p = Subsidy + k /\ sats[p] = feeSats[k]
      /\ \A k \in 1..Len(feeSats) : feeSats[k][1] <= Done
      /\ \A o \in DOMAIN utxo : \A k \in DOMAIN utxo[o] : utxo[o][k][1] <= Done
      /\ Done = blocks - 1 /\ blocks \in Nat
  BY EndSats DEF RewardThenFees
<1>2. ~(blocks <= Done)
  BY <1>1
<1>3. Unique /\ DOMAIN feeSats = 1..Len(feeSats)
  BY DEF IInv, ChainTyped
<1>4. ASSUME NEW p \in 1..Len(sats), NEW q \in 1..Len(sats), sats[p] = sats[q] PROVE p = q
  <2>1. CASE p \in 1..Subsidy /\ sats[p] = <<blocks, 0, p>>
    <3>1. sats[p][1] = blocks /\ sats[p][3] = p
      BY <2>1
    <3>2. CASE q \in 1..Subsidy /\ sats[q] = <<blocks, 0, q>>
      <4>1. sats[q][3] = q
        BY <3>2
      <4> QED BY <1>4, <3>1, <4>1
    <3>3. CASE \E k \in 1..Len(feeSats) : q = Subsidy + k /\ sats[q] = feeSats[k]
      BY <1>1, <1>2, <1>4, <3>1, <3>3
    <3> QED BY <1>1, <3>2, <3>3
  <2>2. CASE \E k \in 1..Len(feeSats) : p = Subsidy + k /\ sats[p] = feeSats[k]
    <3> PICK k \in 1..Len(feeSats) : p = Subsidy + k /\ sats[p] = feeSats[k]
      BY <2>2
    <3>1. CASE q \in 1..Subsidy /\ sats[q] = <<blocks, 0, q>>
      <4>1. sats[q][1] = blocks
        BY <3>1
      <4> QED BY <1>1, <1>2, <1>4, <4>1
    <3>2. CASE \E m \in 1..Len(feeSats) : q = Subsidy + m /\ sats[q] = feeSats[m]
      <4> PICK m \in 1..Len(feeSats) : q = Subsidy + m /\ sats[q] = feeSats[m]
        BY <3>2
      <4>1. k = m
        BY <1>3, <1>4 DEF Unique
      <4> QED BY <4>1
    <3> QED BY <1>1, <3>1, <3>2
  <2> QED BY <1>1, <2>1, <2>2
<1>5. ASSUME NEW p \in 1..Len(sats), NEW o \in DOMAIN utxo, NEW k \in DOMAIN utxo[o], sats[p] = utxo[o][k]
      PROVE  FALSE
  <2>1. CASE p \in 1..Subsidy /\ sats[p] = <<blocks, 0, p>>
    <3>1. sats[p][1] = blocks
      BY <2>1
    <3> QED BY <1>1, <1>2, <1>5, <3>1
  <2>2. CASE \E m \in 1..Len(feeSats) : p = Subsidy + m /\ sats[p] = feeSats[m]
    BY <1>3, <1>5, <2>2 DEF Unique
  <2> QED BY <1>1, <2>1, <2>2
<1>6. ASSUME NEW p \in 1..Len(sats) PROVE sats[p][1] <= blocks
  <2>1. CASE p \in 1..Subsidy /\ sats[p] = <<blocks, 0, p>>
    <3>1. sats[p][1] = blocks
      BY <2>1
    <3> QED BY <1>1, <3>1
  <2>2. CASE \E m \in 1..Len(feeSats) : p = Subsidy + m /\ sats[p] = feeSats[m]
    <3> PICK m \in 1..Len(feeSats) : sats[p] = feeSats[m]
      BY <2>2
    <3>1. feeSats[m][1] <= blocks - 1 /\ feeSats[m][1] \in Int
      BY <1>1, <1>3 DEF IInv, ChainTyped, Satoshis
    <3> QED BY <1>1, <3>1
  <2> QED BY <1>1, <2>1, <2>2
<1> QED BY <1>4, <1>5, <1>6

LEMMA EndChain ==
  ASSUME IInv, NEW outs, NEW sats, NEW id, Ends(outs, sats, id)
  PROVE  ChainTyped' /\ Dated' /\ Unique'
<1>1. ChainTyped /\ Dated /\ Unique
  BY DEF IInv
<1>2. /\ id = 0 - blocks /\ inBlock /\ tx = Nil /\ inBlock' = FALSE
      /\ loaded' = {} /\ offsets' = {} /\ partials' = NoRows
      /\ leaked' = {} /\ total_amount' = 0 /\ feeSats' = <<>>
      /\ UNCHANGED <<inscribed, jubilee, tx, txs, blocks>> /\ outs \in Seq(Nat)
  BY DEF Ends
<1>3. /\ id \in Int /\ sats \in Seq(Satoshis) /\ Len(sats) = SumOf(outs)
      /\ DOMAIN utxo' = DOMAIN utxo \cup NewOutputs(id, outs)
      /\ \A o \in DOMAIN utxo : o[1] # id /\ utxo'[o] = utxo[o]
      /\ Holds(utxo', id, outs, sats)
      /\ utxo' = [o \in DOMAIN utxo' |-> utxo'[o]]
  BY EndUtxo
<1>4. ASSUME NEW o \in NewOutputs(id, outs)
      PROVE  \E v \in DOMAIN outs : outs[v] > 0 /\ o = <<id, v>> /\ o \in Outpoints
  BY <1>2, <1>3 DEF NewOutputs, Outpoints
<1>5. ASSUME NEW o \in NewOutputs(id, outs)
      PROVE  /\ utxo'[o] \in Seq(Satoshis) /\ utxo'[o] # <<>> /\ o[1] = id
             /\ \A k \in DOMAIN utxo'[o] : \E p \in 1..Len(sats) :
                  IsAt(outs, p - 1, o[2], k - 1) /\ utxo'[o][k] = sats[p]
  <2> PICK v \in DOMAIN outs : outs[v] > 0 /\ o = <<id, v>>
    BY <1>4
  <2>1. /\ utxo'[o] \in Seq(Satoshis) /\ Len(utxo'[o]) = outs[v]
        /\ \A k \in 1..outs[v] : /\ utxo'[o][k] = sats[Before(outs, v) + k]
                                 /\ Before(outs, v) + k \in 1..SumOf(outs)
    BY <1>3 DEF Holds
  <2>2. ASSUME NEW k \in DOMAIN utxo'[o]
        PROVE  \E p \in 1..Len(sats) : IsAt(outs, p - 1, o[2], k - 1) /\ utxo'[o][k] = sats[p]
    <3>1. k \in 1..outs[v]
      BY <2>1
    <3> PICK p : p = Before(outs, v) + k
      OBVIOUS
    <3>2. p \in 1..Len(sats) /\ utxo'[o][k] = sats[p]
      BY <1>3, <2>1, <3>1
    <3>3. IsAt(outs, p - 1, v, k - 1)
      <4>1. v \in 1..Len(outs) /\ outs[v] \in Nat /\ Before(outs, v) \in Nat
        BY <1>2, BeforeNext
      <4>2. k - 1 \in Nat /\ k - 1 < outs[v] /\ p - 1 = Before(outs, v) + (k - 1)
        BY <3>1, <4>1
      <4> QED BY <4>1, <4>2 DEF IsAt
    <3> QED BY <3>2, <3>3
  <2>3. utxo'[o] # <<>>
    <3>1. Len(utxo'[o]) > 0
      BY ONLY <2>1, outs[v] > 0
    <3> QED BY ONLY <3>1
  <2>4. o[1] = id
    BY ONLY o = <<id, v>>
  <2> QED BY ONLY <2>1, <2>2, <2>3, <2>4
<1>6. /\ \A p, q \in 1..Len(sats) : sats[p] = sats[q] => p = q
      /\ \A p \in 1..Len(sats), o \in DOMAIN utxo : \A k \in DOMAIN utxo[o] : sats[p] # utxo[o][k]
      /\ \A p \in 1..Len(sats) : sats[p][1] <= blocks
  BY EndApart
<1>7. ChainTyped'
  <2>1. ASSUME NEW o \in DOMAIN utxo'
        PROVE  o \in Outpoints /\ utxo'[o] \in Seq(Satoshis) \ {<<>>}
    <3>1. CASE o \in DOMAIN utxo
      BY <1>1, <1>3, <3>1 DEF ChainTyped
    <3>2. CASE o \in NewOutputs(id, outs)
      BY <1>4, <1>5, <3>2
    <3> QED BY <1>3, <3>1, <3>2
  <2>2. utxo' \in [DOMAIN utxo' -> Seq(Satoshis) \ {<<>>}] /\ DOMAIN utxo' \subseteq Outpoints
    BY <1>3, <2>1
  <2>3. feeSats' \in Seq(Satoshis) /\ Len(feeSats') = 0
    BY <1>2
  <2> QED BY <1>1, <1>2, <2>2, <2>3 DEF ChainTyped
<1>8. Dated'
  <2> PICK b \in Nat : b = blocks /\ b > 0 /\ Done = b - 1 /\ id = 0 - b
    BY <1>1, <1>2, DoneIs DEF ChainTyped
  <2>1. Done' = b
    BY <1>2 DEF Done
  <2>2. ASSUME NEW o \in DOMAIN utxo' PROVE o[1] <= txs /\ 0 - b <= o[1]
    <3>1. CASE o \in DOMAIN utxo
      <4>1. o[1] <= txs /\ 0 - (b - 1) <= o[1] /\ o[1] \in Int
        BY <1>1, <3>1 DEF Dated, ChainTyped, Outpoints
      <4> QED BY ONLY <4>1, b \in Nat
    <3>2. CASE o \in NewOutputs(id, outs)
      <4>1. o[1] = 0 - b /\ txs \in Nat
        BY <1>1, <1>5, <3>2 DEF ChainTyped
      <4> QED BY ONLY <4>1, b \in Nat
    <3> QED BY <1>3, <3>1, <3>2
  <2>3. ASSUME NEW s \in inscribed PROVE s[1] <= b
    <3>1. s[1] <= b - 1 /\ s[1] \in Int
      BY <1>1 DEF Dated, ChainTyped, Satoshis
    <3> QED BY ONLY <3>1, b \in Nat
  <2>4. ASSUME NEW o \in DOMAIN utxo', NEW k \in DOMAIN utxo'[o] PROVE utxo'[o][k][1] <= b
    <3>1. CASE o \in DOMAIN utxo
      <4> PICK s : s = utxo[o][k]
        OBVIOUS
      <4>0. k \in DOMAIN utxo[o] /\ utxo'[o][k] = s /\ utxo[o] \in Seq(Satoshis)
        BY <1>1, <1>3, <3>1 DEF ChainTyped
      <4>1. s[1] <= b - 1 /\ s[1] \in Int
        <5>1. s \in Satoshis
          BY <4>0
        <5> QED BY <1>1, <3>1, <4>0, <5>1 DEF Dated, Satoshis
      <4> QED BY <4>0, <4>1
    <3>2. CASE o \in NewOutputs(id, outs)
      BY <1>5, <1>6, <3>2
    <3> QED BY <1>3, <3>1, <3>2
  <2>5. DOMAIN feeSats' = {}
    BY <1>2
  <2> QED BY <1>2, <2>1, <2>2, <2>3, <2>4, <2>5 DEF Dated
<1>9. Unique'
  <2>1. ASSUME NEW o \in DOMAIN utxo', NEW p \in DOMAIN utxo', NEW k \in DOMAIN utxo'[o],
               NEW m \in DOMAIN utxo'[p], utxo'[o][k] = utxo'[p][m]
        PROVE  o = p /\ k = m
    <3>1. CASE o \in DOMAIN utxo /\ p \in DOMAIN utxo
      BY <1>1, <1>3, <2>1, <3>1 DEF Unique
    <3>2. CASE o \in DOMAIN utxo /\ p \in NewOutputs(id, outs)
      <4> PICK a \in 1..Len(sats) : utxo'[p][m] = sats[a]
        BY <1>5, <3>2
      <4> QED BY <1>3, <1>6, <2>1, <3>2
    <3>3. CASE o \in NewOutputs(id, outs) /\ p \in DOMAIN utxo
      <4> PICK a \in 1..Len(sats) : utxo'[o][k] = sats[a]
        BY <1>5, <3>3
      <4>1. utxo'[p] = utxo[p]
        BY <1>3, <3>3
      <4>2. m \in DOMAIN utxo[p] /\ sats[a] = utxo[p][m]
        BY <2>1, <4>1
      <4> QED BY <1>6, <3>3, <4>2
    <3>4. CASE o \in NewOutputs(id, outs) /\ p \in NewOutputs(id, outs)
      <4> PICK a \in 1..Len(sats) : IsAt(outs, a - 1, o[2], k - 1) /\ utxo'[o][k] = sats[a]
        BY <1>5, <3>4
      <4> PICK b \in 1..Len(sats) : IsAt(outs, b - 1, p[2], m - 1) /\ utxo'[p][m] = sats[b]
        BY <1>5, <3>4
      <4>1. a = b
        BY <1>6, <2>1
      <4>2. o[2] = p[2] /\ k - 1 = m - 1
        BY <1>2, <4>1, AtUnique
      <4>3. o = p
        BY <1>4, <3>4, <4>2
      <4>4. k \in Int /\ m \in Int
        <5>1. utxo'[o] \in Seq(Satoshis) /\ utxo'[p] \in Seq(Satoshis)
          BY <1>5, <3>4
        <5> QED BY <5>1
      <4>5. k = m
        BY ONLY <4>2, <4>4
      <4> QED BY <4>3, <4>5
    <3> QED BY <1>3, <3>1, <3>2, <3>3, <3>4
  <2>2. DOMAIN feeSats' = {}
    BY <1>2
  <2> QED BY <2>1, <2>2 DEF Unique
<1> QED BY <1>7, <1>8, <1>9

\* What leaked is in the outputs of the coinbase.
LEMMA VoutIs ==
  ASSUME IInv, NEW outs, NEW sats, NEW id, Ends(outs, sats, id), NEW k \in 1..Len(feeSats)
  PROVE  \E v, m : /\ find_inscription_vout(k - 1, outs) = <<v, m>> /\ <<v, m>> # Nil
                   /\ IsAt(outs, Subsidy + k - 1, v, m)
<1>1. outs \in Seq(Nat) /\ SumOf(outs) = Subsidy + total_amount
  BY DEF Ends
<1> PICK n : n = Len(feeSats)
  OBVIOUS
<1>2. total_amount = n /\ n \in Nat /\ Subsidy \in Nat
  BY EndSats
<1> PICK at : at = Subsidy + k - 1
  OBVIOUS
<1>3. /\ at \in Nat /\ at < Subsidy + n
      /\ (k - 1) + ((Subsidy + n) - n) = at /\ ~(at >= Subsidy + n)
  BY ONLY <1>2, k \in 1..n, at = Subsidy + k - 1
<1>4. find_inscription_vout(k - 1, outs) = OutputAt(at, outs)
  BY <1>1, <1>2, <1>3 DEF find_inscription_vout
<1> PICK v, m : v = OutputAt(at, outs)[1] /\ m = OutputAt(at, outs)[2]
  OBVIOUS
<1>5. OutputAt(at, outs) = <<v, m>> /\ IsAt(outs, at, v, m)
  BY <1>1, <1>2, <1>3, OutputAtIs
<1>6. <<v, m>> # Nil
  <2>1. <<v, m>> \in Nat \X Nat
    BY <1>5 DEF IsAt
  <2> QED BY <2>1, InscriptionsAssumption
<1> QED BY <1>4, <1>5, <1>6

LEMMA EndRest ==
  ASSUME IInv, NEW outs, NEW sats, NEW id, Ends(outs, sats, id)
  PROVE  RowsTyped' /\ Rested(offsets, leaked, inscribed)'
<1>1. ChainTyped /\ RowsTyped /\ Rested(offsets, leaked, inscribed)
  BY DEF IInv, AtRest, Ends
<1>2. /\ outs \in Seq(Nat) /\ tx' = Nil /\ inscribed' = inscribed
      /\ loaded' = {} /\ offsets' = {} /\ partials' = NoRows /\ leaked' = {} /\ feeSats' = <<>>
      /\ db_partials' = Add(Drop(db_partials, loaded), partials)
  BY DEF Ends
<1>3. /\ id \in Int /\ sats \in Seq(Satoshis) /\ Len(sats) = SumOf(outs)
      /\ DOMAIN utxo' = DOMAIN utxo \cup NewOutputs(id, outs)
      /\ \A o \in DOMAIN utxo : o[1] # id /\ utxo'[o] = utxo[o]
      /\ Holds(utxo', id, outs, sats)
  BY EndUtxo
<1>4. /\ \A p \in 1..Len(sats) :
           \/ p \in 1..Subsidy /\ sats[p] = <<blocks, 0, p>>
           \/ \E k \in 1..Len(feeSats) : p = Subsidy + k /\ sats[p] = feeSats[k]
      /\ \A k \in 1..Len(feeSats) : Subsidy + k \in 1..Len(sats) /\ sats[Subsidy + k] = feeSats[k]
      /\ \A s \in inscribed : s[1] <= Done
      /\ Done = blocks - 1 /\ blocks \in Nat /\ Subsidy \in Nat /\ Len(feeSats) \in Nat
  <2>1. \A p \in 1..Len(sats) :
          \/ p \in 1..Subsidy /\ sats[p] = <<blocks, 0, p>>
          \/ \E k \in 1..Len(feeSats) : p = Subsidy + k /\ sats[p] = feeSats[k]
    <3>1. RewardThenFees(sats)
      BY EndSats
    <3> QED BY ONLY <3>1 DEF RewardThenFees
  <2>2. \A k \in 1..Len(feeSats) : Subsidy + k \in 1..Len(sats) /\ sats[Subsidy + k] = feeSats[k]
    BY EndSats
  <2>3. \A s \in inscribed : s[1] <= Done
    BY EndSats
  <2>4. Done = blocks - 1 /\ blocks \in Nat /\ Subsidy \in Nat /\ Len(feeSats) \in Nat
    BY EndSats
  <2> QED BY <2>1, <2>2, <2>3, <2>4
<1>5. ASSUME NEW v \in DOMAIN outs, outs[v] > 0
      PROVE  /\ <<id, v>> \in DOMAIN utxo' /\ Len(utxo'[<<id, v>>]) = outs[v]
             /\ \A k \in 1..outs[v] : /\ utxo'[<<id, v>>][k] = sats[Before(outs, v) + k]
                                      /\ Before(outs, v) + k \in 1..Len(sats)
  BY <1>3, <1>5 DEF Holds, NewOutputs
<1>6. ASSUME NEW x \in leaked PROVE x + 1 \in 1..Len(feeSats) /\ feeSats[x + 1] \in inscribed /\ x \in Nat
  BY <1>1, <1>4 DEF Rested, Inscribed
<1>7. ASSUME NEW k \in 1..Len(feeSats), feeSats[k] \in inscribed PROVE k - 1 \in leaked
  <2>1. k - 1 \in 0..(Len(feeSats) - 1) /\ (k - 1) + 1 = k
    BY <1>4
  <2> QED BY <1>1, <1>7, <2>1 DEF Rested, Inscribed
\* The row of a leaked inscription is that of its satoshi.
<1>8. ASSUME NEW x \in leaked
      PROVE  \E v, m : /\ find_inscription_vout(x, outs) = <<v, m>> /\ <<v, m>> # Nil
                       /\ <<id, v>> \in DOMAIN utxo'
                       /\ m \in Inscribed(utxo'[<<id, v>>], inscribed)
  <2> PICK k : k = x + 1
    OBVIOUS
  <2>1. k \in 1..Len(feeSats) /\ k - 1 = x /\ feeSats[k] \in inscribed
    BY <1>6
  <2> PICK v, m : /\ find_inscription_vout(k - 1, outs) = <<v, m>> /\ <<v, m>> # Nil
                  /\ IsAt(outs, Subsidy + k - 1, v, m)
    BY <2>1, VoutIs
  <2>2. v \in 1..Len(outs) /\ m \in Nat /\ m < outs[v] /\ Subsidy + k - 1 = Before(outs, v) + m
    BY DEF IsAt
  <2>3. v \in DOMAIN outs /\ outs[v] \in Nat /\ outs[v] > 0 /\ Before(outs, v) \in Nat
    <3>1. v \in DOMAIN outs /\ outs[v] \in Nat /\ Before(outs, v) \in Nat
      <4>1. outs \in Seq(Nat) /\ v \in 1..Len(outs)
        BY <1>2, <2>2
      <4>2. v \in DOMAIN outs /\ outs[v] \in Nat
        BY ONLY <4>1
      <4> QED BY ONLY <4>1, <4>2, BeforeNext
    <3> QED BY <2>2, <3>1
  <2>4. m + 1 \in 1..outs[v] /\ Before(outs, v) + (m + 1) = Subsidy + k
    <3>1. k \in Int
      BY <2>1
    <3> PICK b, c : b = Before(outs, v) /\ c = outs[v]
      OBVIOUS
    <3>2. b \in Nat /\ c \in Nat /\ m \in Nat /\ m < c /\ Subsidy + k - 1 = b + m /\ Subsidy \in Nat
      BY <1>4, <2>2, <2>3
    <3>3. m + 1 \in 1..c /\ b + (m + 1) = Subsidy + k
      BY ONLY <3>1, <3>2
    <3> QED BY <3>3
  <2>5. utxo'[<<id, v>>][m + 1] = sats[Subsidy + k]
    BY <1>5, <2>3, <2>4
  <2>6. sats[Subsidy + k] \in inscribed
    BY <1>4, <2>1
  <2>7. m \in 0..(Len(utxo'[<<id, v>>]) - 1)
    BY <1>5, <2>2, <2>3
  <2>8. m \in Inscribed(utxo'[<<id, v>>], inscribed)
    BY <2>5, <2>6, <2>7 DEF Inscribed
  <2> QED BY <1>5, <2>1, <2>3, <2>8
<1>9. ASSUME NEW l
      PROVE  l \in db_offsets' <=>
               \/ l \in Rows(offsets)
               \/ \E x \in leaked : LET t == find_inscription_vout(x, outs)
                                    IN  t # Nil /\ l = <<<<id, t[1]>>, t[2]>>
  BY DEF Ends
<1>10. ASSUME NEW l \in db_offsets'
       PROVE  /\ l = <<l[1], l[2]>> /\ l[1] \in DOMAIN utxo'
              /\ l[2] \in Inscribed(utxo'[l[1]], inscribed)
  <2>1. CASE l \in Rows(offsets)
    <3>1. /\ l = <<l[1], l[2]>> /\ l[1] \in DOMAIN utxo
          /\ l[2] \in Inscribed(utxo[l[1]], inscribed)
      BY <1>1, <2>1 DEF Rested
    <3> QED BY <1>3, <3>1
  <2>2. CASE l \notin Rows(offsets)
    <3> PICK x \in leaked : LET t == find_inscription_vout(x, outs)
                            IN  t # Nil /\ l = <<<<id, t[1]>>, t[2]>>
      BY <1>9, <2>2
    <3> PICK v, m : /\ find_inscription_vout(x, outs) = <<v, m>>
                    /\ <<id, v>> \in DOMAIN utxo' /\ m \in Inscribed(utxo'[<<id, v>>], inscribed)
      BY <1>8
    <3>1. l = <<<<id, v>>, m>>
      OBVIOUS
    <3> QED BY <3>1
  <2> QED BY <2>1, <2>2
<1>11. ASSUME NEW o \in DOMAIN utxo', NEW m \in Inscribed(utxo'[o], inscribed)
       PROVE  <<o, m>> \in db_offsets'
  <2>1. CASE o \in DOMAIN utxo
    <3>1. <<o, m>> \in Rows(offsets)
      BY <1>1, <1>3, <2>1 DEF Rested
    <3> QED BY <1>9, <3>1
  <2>2. CASE o \in NewOutputs(id, outs)
    <3> PICK v \in DOMAIN outs : outs[v] > 0 /\ o = <<id, v>>
      BY <2>2 DEF NewOutputs
    <3>1. v \in 1..Len(outs) /\ outs[v] \in Nat /\ Before(outs, v) \in Nat
      BY <1>2, BeforeNext
    <3> PICK b, p : b = Before(outs, v) /\ p = b + (m + 1)
      OBVIOUS
    <3>2. m \in 0..(outs[v] - 1) /\ m + 1 \in 1..outs[v] /\ utxo'[o][m + 1] \in inscribed
      <4>1. m \in 0..(Len(utxo'[o]) - 1) /\ utxo'[o][m + 1] \in inscribed
        BY DEF Inscribed
      <4>2. m \in 0..(outs[v] - 1)
        BY <1>5, <4>1
      <4> QED BY <3>1, <4>1, <4>2
    <3>3. p \in 1..Len(sats) /\ sats[p] \in inscribed
      BY <1>5, <3>2
    <3>4. ~(p \in 1..Subsidy /\ sats[p] = <<blocks, 0, p>>)
      <4> SUFFICES ASSUME sats[p] = <<blocks, 0, p>> PROVE FALSE
        OBVIOUS
      <4>1. sats[p][1] = blocks
        OBVIOUS
      <4>2. blocks <= blocks - 1
        BY <1>4, <3>3, <4>1
      <4> QED BY <1>4, <4>2
    <3> PICK k \in 1..Len(feeSats) : p = Subsidy + k /\ sats[p] = feeSats[k]
      BY <1>4, <3>3, <3>4
    <3>5. k - 1 \in leaked
      BY <1>7, <3>3
    <3> PICK w, j : /\ find_inscription_vout(k - 1, outs) = <<w, j>> /\ <<w, j>> # Nil
                    /\ IsAt(outs, Subsidy + k - 1, w, j)
      BY VoutIs
    <3>6. IsAt(outs, Subsidy + k - 1, v, m)
      <4>1. m \in Nat /\ m < outs[v]
        BY <3>1, <3>2
      <4>2. Subsidy + k - 1 = b + m
        <5>1. b \in Nat /\ m \in Int /\ k \in Int /\ Subsidy \in Nat /\ b + (m + 1) = Subsidy + k
          BY <1>4, <3>1, <3>2
        <5> QED BY ONLY <5>1
      <4> QED BY <3>1, <4>1, <4>2 DEF IsAt
    <3>7. w = v /\ j = m
      BY <1>2, <3>6, AtUnique
    <3>8. <<o, m>> = <<<<id, w>>, j>>
      BY <3>7
    <3>9. \E x \in leaked : LET t == find_inscription_vout(x, outs)
                            IN  t # Nil /\ <<o, m>> = <<<<id, t[1]>>, t[2]>>
      BY <3>5, <3>8
    <3> QED BY <1>9, <3>9
  <2> QED BY <1>3, <2>1, <2>2
<1>12. Rows(offsets)' = db_offsets'
  BY <1>2 DEF Rows
<1>13. leaked' = Inscribed(feeSats', inscribed)
  <2>1. Len(<<>>) = 0 /\ 0..(0 - 1) = {}
    OBVIOUS
  <2>2. 0..(Len(feeSats') - 1) = {}
    BY <1>2, <2>1
  <2> QED BY <1>2, <2>2 DEF Inscribed
<1>14. Rested(offsets, leaked, inscribed)'
  BY <1>2, <1>10, <1>11, <1>12, <1>13 DEF Rested, Inscribed
<1>15. RowsTyped'
  <2>1. \A l \in db_offsets' : l = <<l[1], l[2]>> /\ l[1] \in DOMAIN utxo'
    BY <1>10
  <2>2. DOMAIN partials' = {}
    BY <1>2 DEF NoRows
  <2>3. \A o \in DOMAIN db_partials' : db_partials'[o] \in Seq(Scripts)
    <3> PICK r : r = Drop(db_partials, loaded)
      OBVIOUS
    <3>1. \A o \in DOMAIN r : r[o] \in Seq(Scripts)
      BY <1>1 DEF Drop, RowsTyped
    <3>2. db_partials' = Add(r, partials) /\ \A o \in DOMAIN partials : partials[o] \in Seq(Scripts)
      BY <1>1, <1>2 DEF RowsTyped
    <3> QED BY <3>1, <3>2 DEF Add
  <2> QED BY <1>2, <2>1, <2>2, <2>3 DEF RowsTyped
<1> QED BY <1>14, <1>15

LEMMA EndBlockStep ==
  ASSUME IInv, EndBlock
  PROVE  IInv'
<1>1. ChainTyped
  BY DEF IInv
<1> PICK outs, sats, id : Ends(outs, sats, id)
  BY <1>1, EndBlockIs
<1>2. ChainTyped' /\ Dated' /\ Unique' /\ RowsTyped' /\ Rested(offsets, leaked, inscribed)'
  BY EndChain, EndRest
<1>3. tx' = Nil
  BY DEF Ends
<1> QED BY <1>2, <1>3 DEF IInv, TxOk, AtRest, InTx

----------------------------------------------------------------------------
(* The other steps, and the initial states. *)

LEMMA IInvInit ==
  ASSUME Init
  PROVE  IInv
<1> PICK U : U = {<<0, v>> : v \in DOMAIN FirstOuts}
  OBVIOUS
<1>1. /\ utxo = [o \in U |-> [k \in 1..FirstOuts[o[2]] |-> <<0, o[2], k>>]]
      /\ inscribed = {} /\ db_offsets = {} /\ db_partials = NoRows /\ jubilee \in BOOLEAN
      /\ inBlock = FALSE /\ loaded = {} /\ offsets = {} /\ partials = NoRows
      /\ leaked = {} /\ total_amount = 0 /\ feeSats = <<>> /\ tx = Nil /\ txs = 0 /\ blocks = 0
  BY DEF Init
<1>2. FirstOuts \in Seq(Nat \ {0})
  BY InscriptionsAssumption
<1>3. ASSUME NEW o \in U
      PROVE  /\ o \in Outpoints /\ o = <<0, o[2]>> /\ utxo[o] \in Seq(Satoshis) /\ utxo[o] # <<>>
             /\ \A k \in DOMAIN utxo[o] : utxo[o][k] = <<0, o[2], k>> /\ k \in Nat /\ o[2] \in Nat
  <2> PICK v \in DOMAIN FirstOuts : o = <<0, v>>
    OBVIOUS
  <2> PICK n \in Nat \ {0} : n = FirstOuts[v]
    BY <1>2
  <2>1. v \in Nat
    BY <1>2
  <2>2. utxo[o] = [k \in 1..n |-> <<0, v, k>>]
    BY <1>1
  <2>3. \A k \in 1..n : <<0, v, k>> \in Satoshis
    BY <2>1 DEF Satoshis
  <2>4. utxo[o] \in Seq(Satoshis) /\ Len(utxo[o]) = n
    BY <2>2, <2>3
  <2>5. \A k \in DOMAIN utxo[o] : utxo[o][k] = <<0, v, k>> /\ k \in Nat
    BY <2>2
  <2>6. o[2] = v /\ o = <<0, o[2]>>
    OBVIOUS
  <2>7. o \in Outpoints
    <3>1. 0 \in {0}
      OBVIOUS
    <3> QED BY <2>1, <2>6 DEF Outpoints
  <2>8. utxo[o] # <<>>
    <3>1. n # 0 /\ Len(<<>>) = 0
      OBVIOUS
    <3> QED BY <2>4, <3>1
  <2>9. \A k \in DOMAIN utxo[o] : utxo[o][k] = <<0, o[2], k>> /\ k \in Nat /\ o[2] \in Nat
    BY <2>1, <2>5, <2>6
  <2> QED BY <2>4, <2>6, <2>7, <2>8, <2>9
<1>4. DOMAIN utxo = U
  BY <1>1
<1>5. ChainTyped
  <2>1. utxo \in [DOMAIN utxo -> Seq(Satoshis) \ {<<>>}] /\ DOMAIN utxo \subseteq Outpoints
    <3>1. utxo = [o \in U |-> utxo[o]]
      BY <1>1
    <3> QED BY <1>3, <1>4, <3>1
  <2>2. <<>> \in Seq(Satoshis) /\ Len(<<>>) = 0
    OBVIOUS
  <2> QED BY <1>1, <2>1, <2>2 DEF ChainTyped
<1>6. Done = 0
  BY <1>1 DEF Done
<1>7. Dated
  <2>1. ASSUME NEW o \in DOMAIN utxo
        PROVE  o[1] <= 0 /\ 0 - 0 <= o[1] /\ \A k \in DOMAIN utxo[o] : utxo[o][k][1] <= 0
    <3>1. o[1] = 0
      BY <1>3, <1>4
    <3>2. \A k \in DOMAIN utxo[o] : utxo[o][k][1] = 0
      BY <1>3, <1>4
    <3> QED BY <3>1, <3>2
  <2>2. DOMAIN feeSats = {}
    BY <1>1
  <2> QED BY <1>1, <1>6, <2>1, <2>2 DEF Dated
<1>8. Unique
  <2>1. ASSUME NEW o \in DOMAIN utxo, NEW p \in DOMAIN utxo, NEW k \in DOMAIN utxo[o],
               NEW m \in DOMAIN utxo[p], utxo[o][k] = utxo[p][m]
        PROVE  o = p /\ k = m
    <3>1. <<0, o[2], k>> = <<0, p[2], m>> /\ o = <<0, o[2]>> /\ p = <<0, p[2]>>
      BY <1>3, <1>4, <2>1
    <3>2. o[2] = p[2] /\ k = m
      BY <3>1
    <3> QED BY <3>1, <3>2
  <2>2. DOMAIN feeSats = {}
    BY <1>1
  <2> QED BY <2>1, <2>2 DEF Unique
<1>9. RowsTyped
  BY <1>1 DEF RowsTyped, NoRows
<1>10. Rested(offsets, leaked, inscribed)
  <2>1. Rows(offsets) = {}
    BY <1>1 DEF Rows
  <2>2. \A s : Inscribed(s, {}) = {}
    BY DEF Inscribed
  <2> QED BY <1>1, <2>1, <2>2 DEF Rested
<1> QED BY <1>1, <1>5, <1>7, <1>8, <1>9, <1>10 DEF IInv, TxOk, AtRest, InTx

LEMMA BeginBlockStep ==
  ASSUME IInv, BeginBlock
  PROVE  IInv'
<1>1. /\ ~inBlock /\ inBlock' = TRUE /\ jubilee' \in BOOLEAN
      /\ loaded' = {} /\ offsets' = {} /\ partials' = NoRows
      /\ leaked' = {} /\ total_amount' = 0 /\ feeSats' = <<>> /\ blocks' = blocks + 1
      /\ UNCHANGED <<utxo, inscribed, db_offsets, db_partials, tx, input_index, created, txs>>
  BY DEF BeginBlock
<1>2. ChainTyped /\ Dated /\ Unique /\ RowsTyped
  BY DEF IInv
<1>3. /\ tx = Nil /\ loaded = {} /\ offsets = {} /\ partials = NoRows /\ leaked = {} /\ feeSats = <<>>
      /\ blocks \in Nat
  BY <1>1, <1>2 DEF ChainTyped
<1>4. Rested(offsets, leaked, inscribed)
  BY <1>3 DEF IInv, AtRest
<1>5. UNCHANGED <<loaded, offsets, partials, leaked, feeSats>>
  BY <1>1, <1>3
<1>6. blocks' \in Nat /\ blocks' > 0 /\ blocks' - 1 = blocks
  BY <1>1, <1>3
<1>7. Done' = Done
  BY <1>1, <1>6 DEF Done
<1>8. ChainTyped'
  <2>1. Len(<<>>) = 0
    OBVIOUS
  <2> QED BY <1>1, <1>2, <1>3, <1>5, <1>6, <2>1 DEF ChainTyped
<1>9. Dated' /\ Unique' /\ RowsTyped'
  BY <1>1, <1>2, <1>5, <1>7 DEF Dated, Unique, RowsTyped
<1>10. Rested(offsets, leaked, inscribed)'
  <2>1. Rested(offsets', leaked', inscribed')
    BY <1>1, <1>4, <1>5
  <2> QED BY <1>1, <1>5, <2>1, RestNext
<1> QED BY <1>1, <1>3, <1>8, <1>9, <1>10 DEF IInv, TxOk, AtRest, InTx

LEMMA Stutter ==
  ASSUME IInv, UNCHANGED vars
  PROVE  IInv'
<1>1. UNCHANGED <<utxo, inscribed, feeSats, db_offsets, db_partials, jubilee, inBlock, loaded, offsets,
                  partials, leaked, total_amount, tx, input_index, created, txs, blocks>>
  BY DEF vars, chainVars
<1>2. Done' = Done /\ Base' = Base
  BY <1>1 DEF Done, Base
<1>3. ChainTyped' /\ Dated' /\ Unique' /\ RowsTyped'
  BY <1>1, <1>2 DEF IInv, ChainTyped, Dated, Unique, RowsTyped
<1>4. CASE tx = Nil
  <2>1. Rested(offsets', leaked', inscribed')
    BY <1>1, <1>4 DEF IInv, AtRest
  <2>2. Rested(offsets, leaked, inscribed)'
    BY <1>1, <2>1, RestNext
  <2> QED BY <1>1, <1>3, <1>4, <2>2 DEF IInv, TxOk, AtRest, InTx
<1>5. CASE tx # Nil
  <2>1. TxTyped /\ SatsSpread /\ SatsApart /\ DbRowsIn /\ Mid(offsets, leaked, inscribed, input_index)
    BY <1>5 DEF IInv, TxOk, InTx
  <2>2. TxTyped' /\ SatsSpread' /\ SatsApart' /\ DbRowsIn'
    <3>1. TxTyped'
      BY <1>1, <1>2, <2>1 DEF TxTyped
    <3>2. SatsSpread'
      BY <1>1, <1>2, <2>1 DEF SatsSpread
    <3>3. SatsApart'
      BY <1>1, <1>2, <2>1 DEF SatsApart
    <3>4. DbRowsIn'
      BY <1>1, <1>2, <2>1 DEF DbRowsIn
    <3> QED BY <3>1, <3>2, <3>3, <3>4
  <2>3. Mid(offsets, leaked, inscribed, input_index)'
    BY <1>1, <2>1, MidNext
  <2> QED BY <1>1, <1>3, <1>5, <2>2, <2>3 DEF IInv, TxOk, AtRest, InTx
<1> QED BY <1>4, <1>5

LEMMA IInvAlways == Spec => []IInv
<1>1. Init => IInv
  BY IInvInit
<1>2. IInv /\ [Next]_vars => IInv'
  BY BeginBlockStep, BeginTxStep, InputStep, EndBlockStep, Stutter DEF Next, Terminated
<1> QED BY <1>1, <1>2, PTL DEF Spec

----------------------------------------------------------------------------
(* An inscription stays on its satoshi: through any number of transactions and
   blocks, through outputs, fees and coinbases, the rows that parse_block keeps
   (offsets computed from values by calc_offsets, get_output_index_by_input,
   find_fee and find_inscription_vout) are those of exactly the satoshis that
   inscriptions were created on. *)
THEOREM InscriptionsStay == Spec => []OnItsSatoshi
<1>1. IInv => OnItsSatoshi
  <2> SUFFICES ASSUME IInv, tx = Nil
               PROVE  Tracked = UNION {{<<o, k>> : k \in Places(utxo[o])} : o \in DOMAIN utxo}
    BY DEF OnItsSatoshi, AtTx
  <2>1. Rested(offsets, leaked, inscribed)
    BY DEF IInv, AtRest
  <2>2. \A s : Places(s) = Inscribed(s, inscribed)
    BY DEF Places, Inscribed
  <2>3. \A l : l \in Tracked <=> l \in Rows(offsets) /\ l[1] \in DOMAIN utxo
    BY DEF Tracked, Rows
  <2> DEFINE W == UNION {{<<o, k>> : k \in Places(utxo[o])} : o \in DOMAIN utxo}
  <2>4. ASSUME NEW l PROVE l \in W <=> \E o \in DOMAIN utxo : \E k \in Places(utxo[o]) : l = <<o, k>>
    OBVIOUS
  <2> HIDE DEF W
  <2>5. ASSUME NEW l \in Tracked PROVE l \in W
    <3>1. l = <<l[1], l[2]>> /\ l[1] \in DOMAIN utxo /\ l[2] \in Places(utxo[l[1]])
      BY <2>1, <2>2, <2>3 DEF Rested
    <3> QED BY <2>4, <3>1
  <2>6. ASSUME NEW l \in W PROVE l \in Tracked
    <3> PICK o \in DOMAIN utxo : \E k \in Places(utxo[o]) : l = <<o, k>>
      BY <2>4
    <3> PICK k \in Places(utxo[o]) : l = <<o, k>>
      OBVIOUS
    <3>1. <<o, k>> \in Rows(offsets)
      BY <2>1, <2>2 DEF Rested
    <3> QED BY <2>3, <3>1
  <2>7. Tracked = W
    BY <2>5, <2>6
  <2> QED BY <2>7 DEF W
<1> QED BY <1>1, IInvAlways, PTL

(* What leaked is filed at its place among the fees of the block, whatever other
   transactions leaked before (LeakedInscriptions::add and find_fee). *)
THEOREM LeaksKeepTheirPlace == Spec => []LeakedInFees
<1>1. IInv => LeakedInFees
  <2>1. ASSUME NEW s PROVE Places(s) = Inscribed(s, inscribed)
    BY DEF Places, Inscribed
  <2> QED BY <2>1 DEF IInv, AtRest, Rested, LeakedInFees, AtTx
<1> QED BY <1>1, IInvAlways, PTL

(* Before the jubilee no token action is made of an inscription on a satoshi that
   carries one ("skip inscription which was created into occupied offset"): the code
   sees the offset among the rows it has just moved. *)
THEOREM OccupiedOffsetsSkipped == Spec => OccupiedSkipped
<1>1. IInv /\ [Next]_vars => [Input /\ ~jubilee /\ ~Bells => created' \cap inscribed = {}]_vars
  <2> SUFFICES ASSUME IInv, Input, ~jubilee, ~Bells, NEW s \in created', s \in inscribed
               PROVE  FALSE
    OBVIOUS
  <2> PICK i : i = input_index
    OBVIOUS
  <2>1. /\ TxTyped /\ i \in 1..Len(tx.values) /\ Mid(offsets, leaked, inscribed, i)
        /\ ChainTyped /\ RowsTyped
    BY InputMidNext DEF IInv
  <2> PICK f : f = FoundAt(i)
    OBVIOUS
  <2>2. /\ ~Lost(i)
        /\ \E n \in DOMAIN f : s = BornOn(i, f[n]) /\ ~Skipped(Placed(i, f[n]), MovedRows(i))
    BY InputIs
  <2> PICK n \in DOMAIN f : s = BornOn(i, f[n]) /\ ~Skipped(Placed(i, f[n]), MovedRows(i))
    BY <2>2
  <2>3. f[n] = Nil /\ f # <<>>
    BY <2>1, FoundTyped
  <2>4. Target(i, 0) # Nil
    BY <2>2, <2>3 DEF Lost
  <2> PICK p : p = First(i)
    OBVIOUS
  <2>5. /\ BornAt(i, Nil) = p /\ s = tx.sats[p + 1] /\ Placed(i, Nil) = Loc(p)
        /\ p < SumOf(tx.outs) /\ p \in 0..(Len(tx.sats) - 1) /\ InputAt(i, 0, p)
    <3>1. BornAt(i, Nil) = p
      BY DEF BornAt
    <3>2. Nil \in Nat \cup {Nil}
      OBVIOUS
    <3> QED BY <2>1, <2>3, <2>4, <3>1, <3>2, BornIs, FirstIs
  <2>6. Loc(p) \notin MovedRows(i)
    BY <2>3, <2>5 DEF Skipped
  <2>7. Moved(offsets, leaked, p) \/ Waiting(offsets, i, p)
    BY <2>1, <2>5 DEF Mid
  <2>8. ASSUME Moved(offsets, leaked, p) PROVE FALSE
    <3>1. Loc(p) \in offsets
      BY <2>5, <2>8 DEF Moved
    <3>2. Loc(p)[1][1] = tx.id /\ tx.inputs[i][1] # tx.id
      BY <2>1, <2>5, LocFirst, InputFields
    <3> QED BY <2>6, <3>1, <3>2 DEF MovedRows
  <2>9. ASSUME Waiting(offsets, i, p) PROVE FALSE
    <3> PICK j \in i..Len(tx.values) : \E k \in 0..(tx.values[j] - 1) :
               p = Before(tx.values, j) + k /\ <<tx.inputs[j], k>> \in offsets
      BY <2>9 DEF Waiting
    <3> PICK k \in 0..(tx.values[j] - 1) :
               p = Before(tx.values, j) + k /\ <<tx.inputs[j], k>> \in offsets
      OBVIOUS
    <3>1. j \in 1..Len(tx.values)
      BY <2>1
    <3>2. InputAt(j, k, p)
      BY <3>1 DEF InputAt
    <3>3. IsAt(tx.values, p, j, k) /\ IsAt(tx.values, p, i, 0)
      BY <2>1, <2>5, <3>2, InputAtIs
    <3>4. j = i /\ k = 0
      BY <2>1, <3>3, TxFields, AtUnique
    <3>5. 0 \in Here(i) /\ LocationOf(Target(i, 0)) = Loc(p)
      BY <2>1, <2>5, <3>4, HereIs, TargetIs DEF Loc
    <3> QED BY <2>4, <2>6, <3>5 DEF MovedRows, Gone
  <2> QED BY <2>7, <2>8, <2>9
<1> QED BY <1>1, IInvAlways, PTL DEF Spec, OccupiedSkipped
============================================================================
