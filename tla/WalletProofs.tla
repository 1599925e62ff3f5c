---------------------------- MODULE WalletProofs ----------------------------
(***************************************************************************)
(* Proofs about Wallet, for any keys, any money to start with, and any     *)
(* number of payments, each ended at any of its writes.                    *)
(***************************************************************************)
EXTENDS Wallet, SequenceTheorems, FiniteSetTheorems, WellFoundedInduction, TLAPS

-----------------------------------------------------------------------------
(* Loops                                                                   *)

(* What holds before a loop and is kept by each turn holds after any turn. *)
LEMMA Induct ==
  ASSUME NEW len \in Nat, NEW G \in SUBSET (0..len), 0 \in G,
         \A n \in 1..len : n - 1 \in G => n \in G
  PROVE  G = 0..len
<1> DEFINE Bad == (0..len) \ G
<1>1. ASSUME Bad # {} PROVE FALSE
  <2>1. PICK k \in Bad : \A m \in Bad : ~(<<m, k>> \in OpToRel(<, Nat))
    <3>1. Bad \in SUBSET Nat
      OBVIOUS
    <3> HIDE DEF Bad
    <3> QED  BY <1>1, <3>1, NatLessThanWellFounded, WFMin, Zenon
  <2>2. \A m \in Bad : ~(m < k)
    <3>1. Bad \in SUBSET Nat
      OBVIOUS
    <3> HIDE DEF Bad
    <3> QED  BY <2>1, <3>1 DEF OpToRel
  <2>3. k \in 1..len /\ k - 1 \in 0..len /\ k - 1 < k
    OBVIOUS
  <2>4. k - 1 \in G
    BY <2>2, <2>3
  <2> QED  BY <2>3, <2>4
<1> QED  BY <1>1

(* The states f of a loop of len turns, one of which changes x to step[n][x]. *)
Loop(f, len, X, base, step) ==
  f \in [0..len -> X] /\ f[0] = base /\ \A n \in 1..len : f[n] = step[n][f[n - 1]]

(* A loop with a state from X computes something.                          *)
LEMMA LoopExists ==
  ASSUME NEW len \in Nat, NEW X, NEW base \in X, NEW step \in [1..len -> [X -> X]]
  PROVE  \E f : Loop(f, len, X, base, step)
<1> DEFINE Does(f, k) == f[0] = base /\ \A n \in 1..k : f[n] = step[n][f[n - 1]]
           G == {k \in 0..len : \E f \in [0..k -> X] : Does(f, k)}
<1>1. 0 \in G
  <2> DEFINE f == [n \in 0..0 |-> base]
  <2>1. f \in [0..0 -> X] /\ f[0] = base /\ \A n \in 1..0 : f[n] = step[n][f[n - 1]]
    OBVIOUS
  <2> HIDE DEF f
  <2> QED  BY <2>1
<1>2. ASSUME NEW k \in 1..len, k - 1 \in G
      PROVE  k \in G
  <2>1. PICK f \in [0..(k - 1) -> X] : Does(f, k - 1)
    BY <1>2
  <2> DEFINE g == [n \in 0..k |-> IF n = k THEN step[k][f[k - 1]] ELSE f[n]]
  <2>2. f[k - 1] \in X /\ step[k][f[k - 1]] \in X
    OBVIOUS
  <2>3. g \in [0..k -> X]
    BY <2>2
  <2>4. g[0] = base
    BY <2>1
  <2>5. ASSUME NEW n \in 1..k PROVE g[n] = step[n][g[n - 1]]
    <3>1. n - 1 \in 0..(k - 1) /\ g[n - 1] = f[n - 1]
      OBVIOUS
    <3>2. CASE n = k
      BY <3>1, <3>2
    <3>3. CASE n # k
      <4>1. n \in 1..(k - 1) /\ g[n] = f[n]
        BY <3>3
      <4> QED  BY <2>1, <3>1, <4>1
    <3> QED  BY <3>2, <3>3
  <2> HIDE DEF g
  <2>6. Does(g, k) /\ k \in 0..len
    BY <2>4, <2>5
  <2> HIDE DEF Does
  <2> QED  BY <2>3, <2>6
<1>3. G = 0..len
  <2>1. G \in SUBSET (0..len) /\ \A k \in 1..len : k - 1 \in G => k \in G
    BY <1>2
  <2> HIDE DEF G
  <2> QED  BY <1>1, <2>1, Induct
<1>4. len \in G
  <2> HIDE DEF G
  <2> QED  BY <1>3
<1> QED  BY <1>4 DEF Loop
-----------------------------------------------------------------------------
(* Sums                                                                    *)

(* The loop of Sum. *)
LEMMA SumLoop ==
  ASSUME NEW v \in Seq(Nat)
  PROVE  \E f \in [0..Len(v) -> Nat] :
           /\ f[0] = 0 /\ \A n \in 1..Len(v) : f[n] = f[n - 1] + v[n]
           /\ Sum(v) = f[Len(v)]
<1> DEFINE len == Len(v)
           Solves(f) == f = [n \in 0..len |-> IF n = 0 THEN 0 ELSE f[n - 1] + v[n]]
           step == [n \in 1..len |-> [x \in Nat |-> x + v[n]]]
<1>1. len \in Nat /\ \A n \in 1..len : v[n] \in Nat
  OBVIOUS
<1>2. step \in [1..len -> [Nat -> Nat]]
  BY <1>1
<1>3. PICK f : f \in [0..len -> Nat] /\ f[0] = 0 /\ \A n \in 1..len : f[n] = step[n][f[n - 1]]
  <2>1. 0 \in Nat
    OBVIOUS
  <2> HIDE DEF step, len
  <2>2. PICK f : Loop(f, len, Nat, 0, step)
    BY <1>1, <1>2, <2>1, LoopExists, Zenon
  <2> QED  BY <2>2, Zenon DEF Loop
<1>4. \A n \in 1..len : f[n - 1] \in Nat /\ f[n] = f[n - 1] + v[n]
  <2> TAKE n \in 1..len
  <2>1. n - 1 \in 0..len
    BY <1>1
  <2>2. f[n - 1] \in Nat
    BY <1>3, <2>1
  <2>3. step[n][f[n - 1]] = f[n - 1] + v[n]
    BY <2>2
  <2> HIDE DEF step, len
  <2> QED  BY <1>3, <2>2, <2>3
<1>5. Solves(f)
  <2>1. \A n \in 0..len : f[n] = IF n = 0 THEN 0 ELSE f[n - 1] + v[n]
    BY <1>1, <1>3, <1>4
  <2> QED  BY <1>3, <2>1
<1>6. PICK g : Solves(g) /\ Sum(v) = g[len]
  <2>1. Sum(v) = (CHOOSE h : Solves(h))[len]
    BY DEF Sum
  <2> HIDE DEF Solves
  <2> QED  BY <1>5, <2>1
<1>7. \A n \in 0..len : g[n] = f[n]
  <2> DEFINE G == {n \in 0..len : g[n] = f[n]}
  <2>1. 0 \in G
    BY <1>1, <1>3, <1>6
  <2>2. ASSUME NEW n \in 1..len, n - 1 \in G PROVE n \in G
    <3>1. n \in 0..len /\ n # 0
      BY <1>1
    <3>2. g[n] = g[n - 1] + v[n]
      BY <1>6, <3>1
    <3> QED  BY <1>4, <2>2, <3>1, <3>2
  <2>3. G = 0..len
    <3>1. G \in SUBSET (0..len)
      OBVIOUS
    <3> HIDE DEF G
    <3> QED  BY <1>1, <2>1, <2>2, <3>1, Induct
  <2> QED  BY <2>3
<1>8. f[0] = 0 /\ Sum(v) = f[len]
  BY <1>1, <1>3, <1>6, <1>7
<1> QED  BY <1>3, <1>4, <1>8

(* An amount more adds to the sum. *)
LEMMA SumAppend ==
  ASSUME NEW v \in Seq(Nat), NEW x \in Nat
  PROVE  Sum(Append(v, x)) = Sum(v) + x
<1> DEFINE len == Len(v)  w == Append(v, x)
<1>1. len \in Nat /\ w \in Seq(Nat) /\ Len(w) = len + 1 /\ w[len + 1] = x
      /\ \A n \in 1..len : w[n] = v[n]
  OBVIOUS
<1>2. PICK f \in [0..len -> Nat] :
        f[0] = 0 /\ (\A n \in 1..len : f[n] = f[n - 1] + v[n]) /\ Sum(v) = f[len]
  BY SumLoop
<1>3. PICK g \in [0..(len + 1) -> Nat] :
        /\ g[0] = 0 /\ \A n \in 1..(len + 1) : g[n] = g[n - 1] + w[n]
        /\ Sum(w) = g[len + 1]
  <2> HIDE DEF w
  <2> QED  BY <1>1, SumLoop
<1>4. len \in 0..len /\ f[len] = g[len]
  <2> DEFINE G == {n \in 0..len : f[n] = g[n]}
  <2>1. 0 \in G
    BY <1>1, <1>2, <1>3
  <2>2. ASSUME NEW n \in 1..len, n - 1 \in G PROVE n \in G
    <3>1. n \in 0..len /\ n \in 1..(len + 1) /\ w[n] = v[n]
      BY <1>1
    <3>2. f[n] = f[n - 1] + v[n] /\ g[n] = g[n - 1] + v[n]
      BY <1>2, <1>3, <3>1
    <3> QED  BY <2>2, <3>1, <3>2
  <2>3. G = 0..len
    <3>1. G \in SUBSET (0..len)
      OBVIOUS
    <3> HIDE DEF G
    <3> QED  BY <1>1, <2>1, <2>2, <3>1, Induct
  <2>4. len \in 0..len
    BY <1>1
  <2> QED  BY <2>3, <2>4
<1>5. g[len + 1] = g[len] + x
  <2>1. len + 1 \in 1..(len + 1) /\ (len + 1) - 1 = len
    BY <1>1
  <2> QED  BY <1>1, <1>3, <2>1
<1> QED  BY <1>2, <1>3, <1>4, <1>5

(* The sum is a number, and nothing sums up to 0. *)
LEMMA SumType ==
  ASSUME NEW v \in Seq(Nat)
  PROVE  Sum(v) \in Nat /\ (Len(v) = 0 => Sum(v) = 0)
<1>1. PICK f \in [0..Len(v) -> Nat] : f[0] = 0 /\ Sum(v) = f[Len(v)]
  BY SumLoop
<1>2. Len(v) \in Nat /\ Len(v) \in 0..Len(v)
  OBVIOUS
<1> QED  BY <1>1, <1>2

(* One more after another sequence. *)
LEMMA AppendAfter ==
  ASSUME NEW O, NEW v \in Seq(O), NEW t \in Seq(O), NEW x \in O
  PROVE  v \o Append(t, x) = Append(v \o t, x)
<1>1. PICK r : r = v \o t
  OBVIOUS
<1>2. <<x>> \in Seq(O) /\ r \in Seq(O)
  BY <1>1
<1>3. Append(t, x) = t \o <<x>>
  OBVIOUS
<1>4. Append(r, x) = r \o <<x>>
  BY <1>2
<1>5. (v \o t) \o <<x>> = v \o (t \o <<x>>)
  BY <1>2, ConcatAssociative
<1> QED  BY <1>1, <1>3, <1>4, <1>5

(* The sum of two sequences in one. *)
LEMMA SumConcat ==
  ASSUME NEW v \in Seq(Nat), NEW w \in Seq(Nat)
  PROVE  Sum(v \o w) = Sum(v) + Sum(w)
<1> DEFINE len == Len(w)  front(n) == SubSeq(w, 1, n)
           G == {n \in 0..len : Sum(v \o front(n)) = Sum(v) + Sum(front(n))}
<1>1. len \in Nat
  OBVIOUS
<1>2. 0 \in G
  <2>1. front(0) = <<>> /\ v \o <<>> = v /\ <<>> \in Seq(Nat) /\ Len(<<>>) = 0
    OBVIOUS
  <2>2. Sum(v) \in Nat /\ Sum(<<>>) = 0
    BY <2>1, SumType
  <2> HIDE DEF front
  <2>3. Sum(v \o front(0)) = Sum(v) /\ Sum(front(0)) = 0
    BY <2>1, <2>2, Zenon
  <2>4. Sum(v \o front(0)) = Sum(v) + Sum(front(0))
    BY <2>2, <2>3
  <2> QED  BY <1>1, <2>4
<1>3. ASSUME NEW n \in 1..len, n - 1 \in G PROVE n \in G
  <2>1. front(n - 1) \in Seq(Nat) /\ w[n] \in Nat /\ v \o front(n - 1) \in Seq(Nat)
    BY <1>1
  <2>2. front(n) = Append(front(n - 1), w[n])
    BY <1>1
  <2>3. v \o front(n) = Append(v \o front(n - 1), w[n])
    <3>1. PICK t, x : t = front(n - 1) /\ x = w[n]
      OBVIOUS
    <3>2. v \in Seq(Nat) /\ t \in Seq(Nat) /\ x \in Nat /\ front(n) = Append(t, x)
      BY <2>1, <2>2, <3>1
    <3>3. v \o Append(t, x) = Append(v \o t, x)
      <4>1. PICK N : N = Nat
        OBVIOUS
      <4>2. v \in Seq(N) /\ t \in Seq(N) /\ x \in N
        BY <3>2, <4>1
      <4> QED  BY <4>2, AppendAfter
    <3> QED  BY <3>1, <3>2, <3>3
  <2>4. Sum(v \o front(n)) = Sum(v \o front(n - 1)) + w[n]
    BY <2>1, <2>3, SumAppend
  <2>5. Sum(front(n)) = Sum(front(n - 1)) + w[n]
    BY <2>1, <2>2, SumAppend
  <2>6. Sum(v) \in Nat /\ Sum(front(n - 1)) \in Nat
    BY <2>1, SumType
  <2> HIDE DEF front
  <2> QED  BY <1>1, <1>3, <2>1, <2>4, <2>5, <2>6
<1>4. G = 0..len
  <2>1. G \in SUBSET (0..len)
    OBVIOUS
  <2> HIDE DEF G
  <2> QED  BY <1>1, <1>2, <1>3, <2>1, Induct
<1>5. len \in G /\ front(len) = w
  BY <1>1, <1>4
<1> QED  BY <1>5
-----------------------------------------------------------------------------
(* Lines                                                                   *)

Payment == [addr : Addr, value : Nat]
Point   == [tx : Nat, vout : Nat]
Tx      == [ins : Seq(Point), outs : Seq(Payment), fee : Nat, asked : Nat]

(* The outputs of the transactions made so far. *)
Outs == UNION {{Outpoint(t, n) : n \in DOMAIN txs[t].outs} : t \in 1..Len(txs)}

Distinct(s) == \A i, j \in DOMAIN s : s[i] = s[j] => i = j

(* An element more at the end. *)
LEMMA OneMore ==
  ASSUME NEW O, NEW s \in Seq(O), NEW x \in O
  PROVE  /\ Append(s, x) \in Seq(O) /\ Len(Append(s, x)) = Len(s) + 1
         /\ ToSet(Append(s, x)) = ToSet(s) \cup {x}
         /\ Distinct(s) /\ x \notin ToSet(s) => Distinct(Append(s, x))
<1> DEFINE u == Append(s, x)  len == Len(s)
<1>1. len \in Nat /\ DOMAIN s = 1..len /\ u \in Seq(O) /\ Len(u) = len + 1
      /\ DOMAIN u = 1..(len + 1) /\ u[len + 1] = x /\ \A i \in 1..len : u[i] = s[i]
  OBVIOUS
<1> HIDE DEF u, len
<1>2. ToSet(u) = ToSet(s) \cup {x}
  <2>1. 1..(len + 1) = (1..len) \cup {len + 1}
    BY <1>1
  <2> QED  BY <1>1, <2>1 DEF ToSet
<1>3. ASSUME Distinct(s), x \notin ToSet(s) PROVE Distinct(u)
  <2> SUFFICES ASSUME NEW i \in 1..(len + 1), NEW j \in 1..(len + 1), u[i] = u[j], i < j
               PROVE  FALSE
    BY <1>1 DEF Distinct
  <2>1. i \in 1..len
    BY <1>1
  <2>2. j \in 1..len => FALSE
    BY <1>1, <1>3, <2>1 DEF Distinct
  <2>3. j = len + 1
    BY <1>1, <2>2
  <2> QED  BY <1>1, <1>3, <2>1, <2>3 DEF ToSet
<1> QED  BY <1>1, <1>2, <1>3 DEF u, len

(* One sequence after another. *)
LEMMA TwoInOne ==
  ASSUME NEW O, NEW s \in Seq(O), NEW t \in Seq(O)
  PROVE  /\ s \o t \in Seq(O) /\ ToSet(s \o t) = ToSet(s) \cup ToSet(t)
         /\ Distinct(s) /\ Distinct(t) /\ ToSet(s) \cap ToSet(t) = {} => Distinct(s \o t)
<1> DEFINE u == s \o t  k == Len(s)  m == Len(t)
<1>1. k \in Nat /\ m \in Nat /\ DOMAIN s = 1..k /\ DOMAIN t = 1..m /\ u \in Seq(O)
      /\ DOMAIN u = 1..(k + m) /\ (\A i \in 1..k : u[i] = s[i])
      /\ \A i \in (k + 1)..(k + m) : u[i] = t[i - k]
  OBVIOUS
<1> HIDE DEF u, k, m
<1>2. \A i \in 1..(k + m) : i \in 1..k \/ (i \in (k + 1)..(k + m) /\ i - k \in 1..m)
  BY <1>1
<1>3. \A i \in 1..m : i + k \in (k + 1)..(k + m) /\ i + k \in 1..(k + m) /\ (i + k) - k = i
  BY <1>1
<1>4. \A i \in 1..k : i \in 1..(k + m)
  BY <1>1
<1>5. ToSet(u) = ToSet(s) \cup ToSet(t)
  <2>1. \A i \in 1..(k + m) : u[i] \in ToSet(s) \cup ToSet(t)
    BY <1>1, <1>2 DEF ToSet
  <2>2. \A i \in 1..k : s[i] \in ToSet(u)
    BY <1>1, <1>4 DEF ToSet
  <2>3. \A i \in 1..m : t[i] \in ToSet(u)
    BY <1>1, <1>3 DEF ToSet
  <2> QED  BY <1>1, <2>1, <2>2, <2>3, ZenonT(60) DEF ToSet
<1>6. ASSUME Distinct(s), Distinct(t), ToSet(s) \cap ToSet(t) = {} PROVE Distinct(u)
  <2> SUFFICES ASSUME NEW i \in 1..(k + m), NEW j \in 1..(k + m), u[i] = u[j], i < j
               PROVE  FALSE
    BY <1>1 DEF Distinct
  <2>1. CASE j \in 1..k
    <3>1. i \in 1..k /\ s[i] = s[j]
      BY <1>1, <2>1
    <3>2. i = j
      BY <1>1, <1>6, <2>1, <3>1, Zenon DEF Distinct
    <3> QED  BY <3>1, <3>2
  <2>2. CASE i \notin 1..k
    <3>1. i - k \in 1..m /\ j - k \in 1..m /\ t[i - k] = t[j - k] /\ i - k # j - k
      BY <1>1, <1>2, <2>2
    <3> QED  BY <1>1, <1>6, <3>1 DEF Distinct
  <2>3. CASE i \in 1..k /\ j \notin 1..k
    <3>1. s[i] = t[j - k] /\ j - k \in 1..m
      BY <1>1, <1>2, <2>3
    <3> QED  BY <1>1, <1>6, <2>3, <3>1 DEF ToSet
  <2> QED  BY <2>1, <2>2, <2>3
<1> QED  BY <1>1, <1>5, <1>6 DEF u

(* The loop of load_balance. *)
LEMMA ReadLoop ==
  ASSUME NEW O, unspentTxt \in Seq(O)
  PROVE  \E f \in [0..Len(unspentTxt) -> Seq(O)] :
           /\ f[0] = <<>>
           /\ \A n \in 1..Len(unspentTxt) :
                f[n] = IF Mine(unspentTxt[n]) THEN Append(f[n - 1], unspentTxt[n]) ELSE f[n - 1]
           /\ unspentOuts = f[Len(unspentTxt)]
<1> DEFINE len == Len(unspentTxt)
           Turn(n, x) == IF Mine(unspentTxt[n]) THEN Append(x, unspentTxt[n]) ELSE x
           Solves(f) == f = [n \in 0..len |-> IF n = 0 THEN <<>> ELSE Turn(n, f[n - 1])]
           step == [n \in 1..len |-> [x \in Seq(O) |-> Turn(n, x)]]
<1>1. len \in Nat /\ \A n \in 1..len : unspentTxt[n] \in O
  OBVIOUS
<1>2. step \in [1..len -> [Seq(O) -> Seq(O)]]
  <2>1. \A n \in 1..len, x \in Seq(O) : Turn(n, x) \in Seq(O)
    BY <1>1
  <2> HIDE DEF Turn
  <2> QED  BY <2>1
<1>3. PICK f : f \in [0..len -> Seq(O)] /\ f[0] = <<>> /\ \A n \in 1..len : f[n] = step[n][f[n - 1]]
  <2>1. <<>> \in Seq(O)
    OBVIOUS
  <2> HIDE DEF step, len
  <2>2. PICK f : Loop(f, len, Seq(O), <<>>, step)
    BY <1>1, <1>2, <2>1, LoopExists, Zenon
  <2> QED  BY <2>2, Zenon DEF Loop
<1>4. \A n \in 1..len : f[n - 1] \in Seq(O) /\ f[n] = Turn(n, f[n - 1])
  <2> TAKE n \in 1..len
  <2>1. n - 1 \in 0..len
    BY <1>1
  <2>2. f[n - 1] \in Seq(O)
    BY <1>3, <2>1
  <2>3. step[n][f[n - 1]] = Turn(n, f[n - 1])
    BY <2>2
  <2> HIDE DEF step, len
  <2> QED  BY <1>3, <2>2, <2>3
<1>5. Solves(f)
  <2> HIDE DEF Turn
  <2>1. \A n \in 0..len : f[n] = IF n = 0 THEN <<>> ELSE Turn(n, f[n - 1])
    BY <1>1, <1>3, <1>4
  <2> QED  BY <1>3, <2>1
<1>6. PICK g : Solves(g) /\ unspentOuts = g[len]
  <2>1. unspentOuts = (CHOOSE h : Solves(h))[len]
    BY DEF unspentOuts
  <2> HIDE DEF Solves
  <2> QED  BY <1>5, <2>1
<1>7. \A n \in 0..len : g[n] = f[n]
  <2> DEFINE G == {n \in 0..len : g[n] = f[n]}
  <2>1. 0 \in G
    BY <1>1, <1>3, <1>6
  <2>2. ASSUME NEW n \in 1..len, n - 1 \in G PROVE n \in G
    <3>1. n \in 0..len /\ n # 0
      BY <1>1
    <3> HIDE DEF Turn
    <3>2. g[n] = Turn(n, g[n - 1])
      BY <1>6, <3>1
    <3> QED  BY <1>4, <2>2, <3>1, <3>2
  <2>3. G = 0..len
    <3>1. G \in SUBSET (0..len)
      OBVIOUS
    <3> HIDE DEF G
    <3> QED  BY <1>1, <2>1, <2>2, <3>1, Induct
  <2> QED  BY <2>3
<1>8. f[0] = <<>> /\ unspentOuts = f[len]
  BY <1>1, <1>3, <1>6, <1>7
<1> QED  BY <1>3, <1>4, <1>8

(* What is read of the file: the lines that are the wallet's, each as      *)
(* often as it is listed.                                                  *)
LEMMA ReadFacts ==
  ASSUME NEW O, unspentTxt \in Seq(O)
  PROVE  /\ unspentOuts \in Seq(O)
         /\ ToSet(unspentOuts) = {o \in ToSet(unspentTxt) : Mine(o)}
         /\ Distinct(unspentTxt) => Distinct(unspentOuts)
<1> DEFINE len == Len(unspentTxt)
           Seen(n) == {unspentTxt[i] : i \in 1..n}
<1>1. len \in Nat /\ DOMAIN unspentTxt = 1..len
  OBVIOUS
<1>2. PICK f \in [0..len -> Seq(O)] :
           /\ f[0] = <<>>
           /\ \A n \in 1..len :
                f[n] = IF Mine(unspentTxt[n]) THEN Append(f[n - 1], unspentTxt[n]) ELSE f[n - 1]
           /\ unspentOuts = f[len]
  BY ReadLoop
<1> DEFINE Right(n) == /\ ToSet(f[n]) = {o \in Seen(n) : Mine(o)}
                       /\ Distinct(unspentTxt) => Distinct(f[n])
           G == {n \in 0..len : Right(n)}
<1>3. Right(0)
  BY <1>1, <1>2 DEF ToSet, Distinct
<1>4. ASSUME NEW n \in 1..len, Right(n - 1) PROVE Right(n)
  <2>1. n - 1 \in 0..len /\ n - 1 \in Nat
    BY <1>1
  <2>9. f[n - 1] \in Seq(O)
    BY <1>2, <2>1
  <2>2. Seen(n) = Seen(n - 1) \cup {unspentTxt[n]}
    <3>1. 1..n = (1..(n - 1)) \cup {n}
      BY <1>1
    <3> QED  BY <3>1
  <2>3. CASE ~Mine(unspentTxt[n])
    <3>1. f[n] = f[n - 1]
      BY <1>2, <2>3
    <3> HIDE DEF Seen
    <3> QED  BY <1>4, <2>2, <2>3, <3>1
  <2>4. CASE Mine(unspentTxt[n])
    <3>1. f[n] = Append(f[n - 1], unspentTxt[n])
      BY <1>2, <2>4
    <3>2. PICK s, x : s = f[n - 1] /\ x = unspentTxt[n]
      OBVIOUS
    <3>3. s \in Seq(O) /\ x \in O
      BY <1>1, <2>9, <3>2
    <3>4. Distinct(unspentTxt) => x \notin Seen(n - 1)
      BY <1>1, <2>1, <3>2 DEF Distinct
    <3>5. Distinct(unspentTxt) => Distinct(s) /\ x \notin ToSet(s)
      BY <1>4, <3>2, <3>4
    <3>6. /\ ToSet(Append(s, x)) = ToSet(s) \cup {x}
          /\ Distinct(unspentTxt) => Distinct(Append(s, x))
      BY <3>3, <3>5, OneMore
    <3> HIDE DEF Seen
    <3> QED  BY <1>4, <2>2, <2>4, <3>1, <3>2, <3>6
  <2> QED  BY <2>3, <2>4
<1>5. Right(len)
  <2>1. \A n \in 1..len : n - 1 \in 0..len /\ n \in 0..len
    BY <1>1
  <2> HIDE DEF Right
  <2>2. 0 \in G /\ G \in SUBSET (0..len) /\ \A n \in 1..len : n - 1 \in G => n \in G
    BY <1>1, <1>3, <1>4, <2>1
  <2>3. len \in 0..len
    BY <1>1
  <2>4. G = 0..len
    <3> HIDE DEF G
    <3> QED  BY <1>1, <2>2, Induct
  <2> QED  BY <2>3, <2>4
<1>6. Seen(len) = ToSet(unspentTxt)
  BY <1>1 DEF ToSet
<1>7. unspentOuts = f[len] /\ len \in 0..len
  BY <1>1, <1>2
<1> HIDE DEF Seen
<1> QED  BY <1>2, <1>5, <1>6, <1>7

(* The fields of a transaction. *)
LEMMA TxFields ==
  ASSUME txs \in Seq(Tx), NEW t \in 1..Len(txs)
  PROVE  /\ txs[t].outs \in Seq(Payment) /\ Len(txs[t].outs) \in Nat
         /\ DOMAIN txs[t].outs = 1..Len(txs[t].outs)
         /\ txs[t].ins \in Seq(Point) /\ txs[t].fee \in Nat /\ txs[t].asked \in Nat
<1>1. txs[t] \in Tx
  OBVIOUS
<1>2. txs[t].outs \in Seq(Payment) /\ txs[t].ins \in Seq(Point)
      /\ txs[t].fee \in Nat /\ txs[t].asked \in Nat
  BY <1>1 DEF Tx
<1> QED  BY <1>2

(* The lines that one output gains: one for each of its keys. *)
LEMMA LinesOfFacts ==
  ASSUME publ_addrs \in Seq(Addr), txs \in Seq(Tx), NEW t \in 1..Len(txs),
         NEW n \in 1..Len(txs[t].outs)
  PROVE  /\ LinesOf(t, n) \in Seq(Outs)
         /\ ToSet(LinesOf(t, n)) = IF Owns(txs[t].outs[n].addr) THEN {Outpoint(t, n)} ELSE {}
         /\ DistinctKeys => Len(LinesOf(t, n)) <= 1 /\ Distinct(LinesOf(t, n))
<1> DEFINE a == txs[t].outs[n].addr
           keys == {k \in DOMAIN publ_addrs : publ_addrs[k] = a}
           s == LinesOf(t, n)
<1>1. PICK count : count = Cardinality(keys)
  OBVIOUS
<1>2. s = [k \in 1..count |-> Outpoint(t, n)]
  BY <1>1 DEF LinesOf
<1>3. Len(publ_addrs) \in Nat /\ DOMAIN publ_addrs = 1..Len(publ_addrs)
  OBVIOUS
<1>4. IsFiniteSet(keys) /\ count \in Nat
  <2>1. IsFiniteSet(1..Len(publ_addrs)) /\ keys \subseteq 1..Len(publ_addrs)
    BY <1>3, FS_Interval
  <2> HIDE DEF keys
  <2> QED  BY <1>1, <2>1, FS_Subset, FS_CardinalityType
<1>5. Outpoint(t, n) \in Outs
  BY TxFields DEF Outs
<1>6. s \in Seq(Outs) /\ Len(s) = count /\ DOMAIN s = 1..count
      /\ \A k \in 1..count : s[k] = Outpoint(t, n)
  <2> HIDE DEF s
  <2> QED  BY <1>2, <1>4, <1>5
<1>7. Owns(a) <=> keys # {}
  BY <1>3 DEF Owns, ToSet
<1>8. keys = {} <=> count = 0
  <2> HIDE DEF keys
  <2> QED  BY <1>1, <1>4, FS_EmptySet
<1>9. ToSet(s) = IF Owns(a) THEN {Outpoint(t, n)} ELSE {}
  <2> HIDE DEF s, a, keys
  <2>1. CASE count = 0
    BY <1>6, <1>7, <1>8, <2>1 DEF ToSet
  <2>2. CASE count # 0
    <3>1. 1 \in 1..count
      BY <1>4, <2>2
    <3> QED  BY <1>6, <1>7, <1>8, <2>2, <3>1 DEF ToSet
  <2> QED  BY <2>1, <2>2
<1>10. DistinctKeys => count <= 1
  <2> SUFFICES ASSUME DistinctKeys, keys # {} PROVE count <= 1
    BY <1>8
  <2>1. PICK k : k \in keys
    OBVIOUS
  <2>2. keys = {k}
    BY <2>1 DEF DistinctKeys, IsInjective
  <2> HIDE DEF keys
  <2>3. count = 1
    BY <1>1, <2>2, FS_Singleton
  <2> QED  BY <2>3
<1>11. count <= 1 => Distinct(s)
  <2> HIDE DEF s
  <2> QED  BY <1>4, <1>6 DEF Distinct
<1> QED  BY <1>6, <1>9, <1>10, <1>11

(* The loop of make_signed_tx over the outputs. *)
LEMMA OwnLoop ==
  ASSUME publ_addrs \in Seq(Addr), txs \in Seq(Tx), NEW t \in 1..Len(txs)
  PROVE  \E f \in [0..Len(txs[t].outs) -> Seq(Outs)] :
           /\ f[0] = <<>>
           /\ \A n \in 1..Len(txs[t].outs) : f[n] = f[n - 1] \o LinesOf(t, n)
           /\ OwnLines(t) = f[Len(txs[t].outs)]
<1>0. PICK len : len = Len(txs[t].outs)
  OBVIOUS
<1> DEFINE Solves(f) == f = [n \in 0..len |-> IF n = 0 THEN <<>> ELSE f[n - 1] \o LinesOf(t, n)]
           step == [n \in 1..len |-> [x \in Seq(Outs) |-> x \o LinesOf(t, n)]]
<1>1. len \in Nat /\ \A n \in 1..len : LinesOf(t, n) \in Seq(Outs)
  BY <1>0, TxFields, LinesOfFacts
<1>2. step \in [1..len -> [Seq(Outs) -> Seq(Outs)]]
  <2>1. \A n \in 1..len, x \in Seq(Outs) : x \o LinesOf(t, n) \in Seq(Outs)
    BY <1>1
  <2> QED  BY <2>1
<1>3. PICK f : f \in [0..len -> Seq(Outs)] /\ f[0] = <<>> /\ \A n \in 1..len : f[n] = step[n][f[n - 1]]
  <2>1. <<>> \in Seq(Outs)
    OBVIOUS
  <2> HIDE DEF step
  <2>2. PICK f : Loop(f, len, Seq(Outs), <<>>, step)
    BY <1>1, <1>2, <2>1, LoopExists, Zenon
  <2> QED  BY <2>2, Zenon DEF Loop
<1>4. \A n \in 1..len : f[n - 1] \in Seq(Outs) /\ f[n] = f[n - 1] \o LinesOf(t, n)
  <2> TAKE n \in 1..len
  <2>1. n - 1 \in 0..len
    BY <1>1
  <2>2. f[n - 1] \in Seq(Outs)
    BY <1>3, <2>1
  <2>3. step[n][f[n - 1]] = f[n - 1] \o LinesOf(t, n)
    BY <2>2
  <2> HIDE DEF step
  <2> QED  BY <1>3, <2>2, <2>3
<1>5. Solves(f)
  <2>1. ASSUME NEW n \in 0..len
        PROVE  f[n] = IF n = 0 THEN <<>> ELSE f[n - 1] \o LinesOf(t, n)
    <3>1. CASE n = 0
      BY <1>3, <3>1
    <3>2. CASE n # 0
      <4>1. n \in 1..len
        BY <1>1, <3>2
      <4> QED  BY <1>4, <3>2, <4>1
    <3> QED  BY <3>1, <3>2
  <2> QED  BY <1>3, <2>1
<1>6. PICK g : Solves(g) /\ OwnLines(t) = g[len]
  <2>1. OwnLines(t) = (CHOOSE h : Solves(h))[len]
    BY <1>0 DEF OwnLines
  <2> HIDE DEF Solves
  <2> QED  BY <1>5, <2>1
<1>7. \A n \in 0..len : g[n] = f[n]
  <2> DEFINE G == {n \in 0..len : g[n] = f[n]}
  <2>1. 0 \in G
    BY <1>1, <1>3, <1>6
  <2>2. ASSUME NEW n \in 1..len, n - 1 \in G PROVE n \in G
    <3>1. n \in 0..len /\ n # 0
      BY <1>1
    <3>2. g[n] = g[n - 1] \o LinesOf(t, n)
      BY <1>6, <3>1
    <3> QED  BY <1>4, <2>2, <3>1, <3>2
  <2>3. G = 0..len
    <3>1. G \in SUBSET (0..len)
      OBVIOUS
    <3> HIDE DEF G
    <3> QED  BY <1>1, <2>1, <2>2, <3>1, Induct
  <2> QED  BY <2>3
<1>8. f[0] = <<>> /\ OwnLines(t) = f[len]
  <2>1. len \in 0..len
    BY <1>1
  <2> QED  BY <1>3, <1>6, <1>7, <2>1, Zenon
<1> QED  BY <1>0, <1>3, <1>4, <1>8

(* The lines that a transaction gains: its outputs to the wallet, each     *)
(* once if no key is listed twice.                                         *)
LEMMA OwnFacts ==
  ASSUME publ_addrs \in Seq(Addr), txs \in Seq(Tx), NEW t \in 1..Len(txs)
  PROVE  /\ OwnLines(t) \in Seq(Outs)
         /\ ToSet(OwnLines(t)) = {Outpoint(t, n) : n \in {m \in 1..Len(txs[t].outs) :
                                                            Owns(txs[t].outs[m].addr)}}
         /\ DistinctKeys => Distinct(OwnLines(t))
<1>0. PICK len, P : len = Len(txs[t].outs) /\ P = {m \in 1..len : Owns(txs[t].outs[m].addr)}
  OBVIOUS
<1>1. len \in Nat
  BY <1>0, TxFields
<1>2. PICK f \in [0..len -> Seq(Outs)] :
           /\ f[0] = <<>>
           /\ \A n \in 1..len : f[n] = f[n - 1] \o LinesOf(t, n)
           /\ OwnLines(t) = f[len]
  BY <1>0, OwnLoop
<1> DEFINE Gained(n) == {Outpoint(t, m) : m \in P \cap (1..n)}
           Right(n) == ToSet(f[n]) = Gained(n) /\ (DistinctKeys => Distinct(f[n]))
           G == {n \in 0..len : Right(n)}
<1>3. Right(0)
  BY <1>0, <1>1, <1>2 DEF ToSet, Distinct
<1>4. ASSUME NEW n \in 1..len, Right(n - 1) PROVE Right(n)
  <2>1. n - 1 \in 0..len /\ n - 1 \in Nat
    BY <1>1
  <2>2. PICK s, x : s = f[n - 1] /\ x = LinesOf(t, n)
    OBVIOUS
  <2>3. s \in Seq(Outs) /\ x \in Seq(Outs) /\ f[n] = s \o x
        /\ ToSet(x) = (IF n \in P THEN {Outpoint(t, n)} ELSE {})
        /\ (DistinctKeys => Distinct(x))
    BY <1>0, <1>2, <2>1, <2>2, LinesOfFacts
  <2>4. ToSet(s \o x) = ToSet(s) \cup ToSet(x)
        /\ (Distinct(s) /\ Distinct(x) /\ ToSet(s) \cap ToSet(x) = {} => Distinct(s \o x))
    BY <2>3, TwoInOne
  <2>5. Gained(n) = Gained(n - 1) \cup ToSet(x)
    <3>1. 1..n = (1..(n - 1)) \cup {n}
      BY <1>1
    <3> QED  BY <2>3, <3>1
  <2>6. Gained(n - 1) \cap ToSet(x) = {}
    <3>1. \A m \in 1..(n - 1) : m # n
      BY <1>1
    <3>2. \A m \in 1..(n - 1) : Outpoint(t, m) # Outpoint(t, n)
      BY <3>1 DEF Outpoint
    <3> QED  BY <2>3, <3>2
  <2> HIDE DEF Gained
  <2> QED  BY <1>4, <2>2, <2>3, <2>4, <2>5, <2>6
<1>5. Right(len)
  <2>1. \A n \in 1..len : n - 1 \in 0..len /\ n \in 0..len
    BY <1>1
  <2> HIDE DEF Right
  <2>2. 0 \in G /\ G \in SUBSET (0..len) /\ \A n \in 1..len : n - 1 \in G => n \in G
    BY <1>1, <1>3, <1>4, <2>1
  <2>3. len \in 0..len
    BY <1>1
  <2>4. G = 0..len
    <3> HIDE DEF G
    <3> QED  BY <1>1, <2>2, Induct
  <2> QED  BY <2>3, <2>4
<1>6. P \cap (1..len) = P /\ f[len] \in Seq(Outs)
  BY <1>0, <1>1, <1>2
<1> QED  BY <1>0, <1>2, <1>5, <1>6

(* No lines, no amount. *)
LEMMA NoLines ==
  InValues(<<>>) = <<>> /\ Sum(<<>>) = 0
<1>1. <<>> \in Seq(Nat) /\ Len(<<>>) = 0
  OBVIOUS
<1>2. InValues(<<>>) = <<>>
  BY DEF InValues
<1> QED  BY <1>1, <1>2, SumType

(* Amounts of lines. *)
LEMMA ValuesOf ==
  ASSUME txs \in Seq(Tx)
  PROVE  /\ \A o \in Outs : UO(o).value \in Nat
         /\ \A s \in Seq(Outs) : InValues(s) \in Seq(Nat) /\ Len(InValues(s)) = Len(s)
         /\ \A s, u \in Seq(Outs) : InValues(s \o u) = InValues(s) \o InValues(u)
         /\ \A s \in Seq(Outs), o \in Outs :
              InValues(Append(s, o)) = Append(InValues(s), UO(o).value)
<1>1. ASSUME NEW o \in Outs PROVE UO(o).value \in Nat
  <2>0. PICK t \in 1..Len(txs) : \E n \in DOMAIN txs[t].outs : o = Outpoint(t, n)
    BY Zenon DEF Outs
  <2>1. PICK n \in DOMAIN txs[t].outs : o = Outpoint(t, n)
    BY <2>0
  <2>2. txs[t].outs[n] \in Payment
    BY TxFields
  <2>3. UO(o) = txs[t].outs[n]
    BY <2>1 DEF UO, Outpoint
  <2> QED  BY <2>2, <2>3 DEF Payment
<1>2. ASSUME NEW s \in Seq(Outs) PROVE InValues(s) \in Seq(Nat) /\ Len(InValues(s)) = Len(s)
  <2>1. \A n \in 1..Len(s) : UO(s[n]).value \in Nat
    BY <1>1
  <2> QED  BY <2>1 DEF InValues
<1>3. ASSUME NEW s \in Seq(Outs), NEW u \in Seq(Outs)
      PROVE  InValues(s \o u) = InValues(s) \o InValues(u)
  <2>1. \A n \in 1..(Len(s) + Len(u)) :
          (s \o u)[n] = IF n <= Len(s) THEN s[n] ELSE u[n - Len(s)]
    OBVIOUS
  <2>2. InValues(s) \in Seq(Nat) /\ InValues(u) \in Seq(Nat)
        /\ Len(InValues(s)) = Len(s) /\ Len(InValues(u)) = Len(u)
    BY <1>2
  <2>3. Len(s) \in Nat /\ Len(u) \in Nat /\ DOMAIN s = 1..Len(s) /\ DOMAIN u = 1..Len(u)
        /\ Len(s \o u) = Len(s) + Len(u) /\ s \o u \in Seq(Outs)
    OBVIOUS
  <2>4. PICK a, b, c : a = InValues(s) /\ b = InValues(u) /\ c = InValues(s \o u)
    OBVIOUS
  <2>5. /\ \A n \in 1..Len(s) : a[n] = UO(s[n]).value
        /\ \A n \in 1..Len(u) : b[n] = UO(u[n]).value
        /\ \A n \in 1..(Len(s) + Len(u)) : c[n] = UO((s \o u)[n]).value
    BY <2>3, <2>4 DEF InValues
  <2>6. a \in Seq(Nat) /\ b \in Seq(Nat) /\ c \in Seq(Nat)
        /\ Len(a) = Len(s) /\ Len(b) = Len(u) /\ Len(c) = Len(s) + Len(u)
    BY <1>2, <2>2, <2>3, <2>4
  <2>7. \A n \in 1..(Len(s) + Len(u)) : c[n] = (a \o b)[n]
    <3> TAKE n \in 1..(Len(s) + Len(u))
    <3>1. (a \o b)[n] = IF n <= Len(s) THEN a[n] ELSE b[n - Len(s)]
      BY <2>3, <2>6
    <3>2. CASE n <= Len(s)
      <4>1. n \in 1..Len(s)
        BY <2>3, <3>2
      <4> QED  BY <2>1, <2>5, <3>1, <3>2, <4>1
    <3>3. CASE ~(n <= Len(s))
      <4>1. n - Len(s) \in 1..Len(u)
        BY <2>3, <3>3
      <4> QED  BY <2>1, <2>5, <3>1, <3>3, <4>1
    <3> QED  BY <3>2, <3>3
  <2>8. c = a \o b
    <3>1. a \o b \in Seq(Nat) /\ Len(a \o b) = Len(c)
      BY <2>3, <2>6
    <3>2. \A n \in 1..Len(c) : c[n] = (a \o b)[n]
      BY <2>6, <2>7
    <3> QED  BY <2>6, <3>1, <3>2, SeqEqual
  <2> QED  BY <2>4, <2>8
<1>4. ASSUME NEW s \in Seq(Outs), NEW o \in Outs
      PROVE  InValues(Append(s, o)) = Append(InValues(s), UO(o).value)
  <2>1. InValues(s) \in Seq(Nat) /\ Len(InValues(s)) = Len(s)
    BY <1>2
  <2> QED  BY <2>1 DEF InValues
<1> QED  BY <1>1, <1>2, <1>3, <1>4

(* The lines that are the wallet's hold no more than all lines. *)
LEMMA ReadWeight ==
  ASSUME txs \in Seq(Tx), unspentTxt \in Seq(Outs)
  PROVE  Sum(InValues(unspentOuts)) <= Sum(InValues(unspentTxt))
<1> DEFINE len == Len(unspentTxt)  front(n) == SubSeq(unspentTxt, 1, n)
           Weight(s) == Sum(InValues(s))
<1>1. len \in Nat /\ DOMAIN unspentTxt = 1..len
  OBVIOUS
<1>2. PICK f \in [0..len -> Seq(Outs)] :
           /\ f[0] = <<>>
           /\ \A n \in 1..len :
                f[n] = IF Mine(unspentTxt[n]) THEN Append(f[n - 1], unspentTxt[n]) ELSE f[n - 1]
           /\ unspentOuts = f[len]
  BY ReadLoop
<1>3. \A s \in Seq(Outs) : Weight(s) \in Nat
  BY ValuesOf, SumType
<1>4. \A s \in Seq(Outs), o \in Outs :
        UO(o).value \in Nat /\ Weight(Append(s, o)) = Weight(s) + UO(o).value
  BY ValuesOf, SumAppend
<1>5. \A n \in 0..len : front(n) \in Seq(Outs)
  BY <1>1
<1>6. \A n \in 1..len : front(n) = Append(front(n - 1), unspentTxt[n]) /\ unspentTxt[n] \in Outs
  BY <1>1
<1>7. \A n \in 1..len : n - 1 \in 0..len /\ n \in 0..len
  BY <1>1
<1>8. front(0) = f[0] /\ front(len) = unspentTxt
  BY <1>1, <1>2
<1> DEFINE G == {n \in 0..len : Weight(f[n]) <= Weight(front(n))}
<1> HIDE DEF Weight, front, len
<1>9. 0 \in G
  <2>1. 0 \in 0..len /\ f[0] \in Seq(Outs)
    BY <1>1, <1>2
  <2> QED  BY <1>3, <1>8, <2>1
<1>10. ASSUME NEW n \in 1..len, n - 1 \in G PROVE n \in G
  <2>1. PICK s, u, o : s = f[n - 1] /\ u = front(n - 1) /\ o = unspentTxt[n]
    OBVIOUS
  <2>2. s \in Seq(Outs) /\ u \in Seq(Outs) /\ o \in Outs /\ front(n) = Append(u, o)
    BY <1>2, <1>5, <1>6, <1>7, <2>1
  <2>3. Weight(s) <= Weight(u)
    BY <1>10, <2>1
  <2>4. Weight(s) \in Nat /\ Weight(u) \in Nat /\ UO(o).value \in Nat
        /\ Weight(Append(s, o)) = Weight(s) + UO(o).value
        /\ Weight(Append(u, o)) = Weight(u) + UO(o).value
    BY <1>3, <1>4, <2>2
  <2>5. f[n] = Append(s, o) \/ f[n] = s
    BY <1>2, <2>1
  <2>6. Weight(f[n]) <= Weight(front(n))
    <3>1. PICK a, b, x : a = Weight(s) /\ b = Weight(u) /\ x = UO(o).value
      OBVIOUS
    <3>2. a \in Nat /\ b \in Nat /\ x \in Nat /\ a <= b /\ Weight(front(n)) = b + x
          /\ (Weight(f[n]) = a + x \/ Weight(f[n]) = a)
      BY <2>2, <2>3, <2>4, <2>5, <3>1
    <3> QED  BY <3>2
  <2> QED  BY <1>7, <2>6
<1>11. G = 0..len
  <2>1. G \in SUBSET (0..len)
    OBVIOUS
  <2> HIDE DEF G
  <2> QED  BY <1>1, <1>9, <1>10, <2>1, Induct
<1>12. len \in G
  <2>1. len \in 0..len
    BY <1>1
  <2> QED  BY <1>11, <2>1
<1> QED  BY <1>2, <1>8, <1>12 DEF Weight

(* The lines a transaction gains hold no more than it pays out. *)
LEMMA OwnWeight ==
  ASSUME publ_addrs \in Seq(Addr), txs \in Seq(Tx), NEW t \in 1..Len(txs), DistinctKeys
  PROVE  Sum(InValues(OwnLines(t))) <= Sum(Values(txs[t].outs))
<1>0. PICK outs, len : outs = txs[t].outs /\ len = Len(outs)
  OBVIOUS
<1> DEFINE front(n) == SubSeq(Values(outs), 1, n)
           Weight(s) == Sum(InValues(s))
<1>1. len \in Nat /\ outs \in Seq(Payment)
  BY <1>0, TxFields
<1>2. PICK f \in [0..len -> Seq(Outs)] :
           /\ f[0] = <<>>
           /\ \A n \in 1..len : f[n] = f[n - 1] \o LinesOf(t, n)
           /\ OwnLines(t) = f[len]
  BY <1>0, OwnLoop
<1>3. \A s \in Seq(Outs) : Weight(s) \in Nat
  BY ValuesOf, SumType
<1>4. Values(outs) \in Seq(Nat) /\ Len(Values(outs)) = len
      /\ \A n \in 1..len : outs[n].value \in Nat /\ Values(outs)[n] = outs[n].value
  <2>1. \A n \in 1..len : outs[n] \in Payment
    BY <1>0, <1>1
  <2>2. \A n \in 1..len : outs[n].value \in Nat
    <3> TAKE n \in 1..len
    <3>1. outs[n] \in Payment
      BY <2>1
    <3> QED  BY <3>1 DEF Payment
  <2>3. Values(outs) = [n \in 1..len |-> outs[n].value]
    BY <1>0, <1>1 DEF Values
  <2> QED  BY <1>1, <2>2, <2>3
<1>5. \A n \in 0..len : front(n) \in Seq(Nat) /\ Sum(front(n)) \in Nat
  <2> TAKE n \in 0..len
  <2>1. front(n) \in Seq(Nat)
    BY <1>1, <1>4
  <2> QED  BY <2>1, SumType
<1>6. \A n \in 1..len : front(n) = Append(front(n - 1), outs[n].value)
  <2> TAKE n \in 1..len
  <2>1. PICK v : v = Values(outs)
    OBVIOUS
  <2>2. v \in Seq(Nat) /\ Len(v) = len /\ v[n] = outs[n].value
    BY <1>4, <2>1
  <2>3. SubSeq(v, 1, n) = Append(SubSeq(v, 1, n - 1), v[n])
    <3>1. n \in 1..Len(v)
      BY <2>2
    <3>2. v \in Seq(Nat)
      BY <2>2
    <3> QED  BY <3>1, <3>2
  <2> QED  BY <2>1, <2>2, <2>3
<1>7. \A n \in 1..len : n - 1 \in 0..len /\ n \in 0..len
  BY <1>1
<1>8. front(0) = <<>> /\ front(len) = Values(outs)
  BY <1>1, <1>4
<1>9. \A n \in 1..len : LinesOf(t, n) \in Seq(Outs) /\ Weight(LinesOf(t, n)) <= outs[n].value
  <2> TAKE n \in 1..len
  <2>1. PICK s, o : s = LinesOf(t, n) /\ o = Outpoint(t, n)
    OBVIOUS
  <2>2. s \in Seq(Outs) /\ Len(s) <= 1 /\ ToSet(s) \subseteq {o}
    BY <1>0, <2>1, LinesOfFacts
  <2>3. s = <<>> \/ s = <<o>>
    <3>1. CASE Len(s) = 0
      BY <2>2, <3>1
    <3>2. CASE Len(s) # 0
      <4>1. Len(s) = 1 /\ DOMAIN s = 1..1
        <5>1. Len(s) \in Nat /\ DOMAIN s = 1..Len(s)
          BY <2>2
        <5>2. Len(s) = 1
          BY <2>2, <3>2, <5>1
        <5> QED  BY <5>1, <5>2
      <4>2. s[1] = o
        BY <2>2, <4>1 DEF ToSet
      <4> QED  BY <2>2, <4>1, <4>2
    <3> QED  BY <3>1, <3>2
  <2>4. Sum(InValues(<<>>)) = 0
    BY NoLines
  <2>5. CASE s = <<>>
    BY <1>4, <2>1, <2>2, <2>4, <2>5
  <2>6. CASE s = <<o>>
    <3>1. o \in Outs /\ s = Append(<<>>, o) /\ <<>> \in Seq(Outs)
      BY <2>2, <2>6
    <3>2. UO(o).value = outs[n].value
      BY <1>0, <2>1 DEF UO, Outpoint
    <3>3. InValues(s) = Append(InValues(<<>>), outs[n].value) /\ InValues(<<>>) \in Seq(Nat)
      BY <3>1, <3>2, ValuesOf
    <3>4. Sum(InValues(s)) = outs[n].value
      BY <1>4, <2>4, <3>3, SumAppend
    <3> QED  BY <1>4, <2>1, <2>2, <3>4
  <2> QED  BY <2>3, <2>5, <2>6
<1>10. \A s, u \in Seq(Outs) : Weight(s \o u) = Weight(s) + Weight(u)
  BY ValuesOf, SumConcat
<1> DEFINE G == {n \in 0..len : Weight(f[n]) <= Sum(front(n))}
<1>11. 0 \in G
  <2> HIDE DEF front
  <2>1. 0 \in 0..len
    BY <1>1
  <2>2. Weight(f[0]) = 0 /\ Sum(front(0)) = 0
    BY <1>2, <1>8, NoLines
  <2> HIDE DEF Weight
  <2> QED  BY <2>1, <2>2
<1> HIDE DEF Weight, front
<1>12. ASSUME NEW n \in 1..len, n - 1 \in G PROVE n \in G
  <2>1. PICK s, u, x : s = f[n - 1] /\ u = front(n - 1) /\ x = LinesOf(t, n)
    OBVIOUS
  <2>2. s \in Seq(Outs) /\ x \in Seq(Outs) /\ u \in Seq(Nat) /\ outs[n].value \in Nat
        /\ f[n] = s \o x /\ front(n) = Append(u, outs[n].value)
    BY <1>2, <1>4, <1>5, <1>6, <1>7, <1>9, <2>1
  <2>3. Weight(s) <= Sum(u) /\ Sum(u) \in Nat /\ Weight(x) <= outs[n].value
    BY <1>5, <1>7, <1>9, <1>12, <2>1
  <2>4. Weight(f[n]) = Weight(s) + Weight(x) /\ Sum(front(n)) = Sum(u) + outs[n].value
    BY <1>10, <2>2, SumAppend
  <2>5. Weight(s) \in Nat /\ Weight(x) \in Nat
    BY <1>3, <2>2
  <2>6. Weight(f[n]) <= Sum(front(n))
    BY <2>2, <2>3, <2>4, <2>5, SMTT(40)
  <2> QED  BY <1>7, <2>6
<1>13. G = 0..len
  <2>1. G \in SUBSET (0..len)
    OBVIOUS
  <2> HIDE DEF G
  <2> QED  BY <1>1, <1>11, <1>12, <2>1, Induct
<1>14. len \in G
  <2>1. len \in 0..len
    BY <1>1
  <2> QED  BY <1>13, <2>1
<1> QED  BY <1>0, <1>2, <1>8, <1>14 DEF Weight
-----------------------------------------------------------------------------
(* The transaction that is made                                            *)

(* Of some numbers there is a smallest one, which Min chooses. *)
LEMMA MinOf ==
  ASSUME NEW S \in SUBSET Nat, S # {}
  PROVE  Min(S) \in S /\ \A n \in S : Min(S) <= n
<1>1. PICK m \in S : \A n \in S : ~(<<n, m>> \in OpToRel(<, Nat))
  BY NatLessThanWellFounded, WFMin, Zenon
<1>2. \A n \in S : ~(n < m)
  BY <1>1 DEF OpToRel
<1>3. \E x \in S : \A y \in S : x =< y
  BY <1>2
<1> QED  BY <1>3 DEF Min

(* A sequence cut in two.                                                  *)
LEMMA CutInTwo ==
  ASSUME NEW O, NEW s \in Seq(O), NEW k \in 0..Len(s)
  PROVE  LET a == SubSeq(s, 1, k)  b == SubSeq(s, k + 1, Len(s))
         IN  /\ a \in Seq(O) /\ b \in Seq(O) /\ Len(a) = k /\ s = a \o b
             /\ ToSet(s) = ToSet(a) \cup ToSet(b)
             /\ Distinct(s) => Distinct(a) /\ Distinct(b) /\ ToSet(a) \cap ToSet(b) = {}
<1>1. PICK a, b, len : a = SubSeq(s, 1, k) /\ b = SubSeq(s, k + 1, Len(s)) /\ len = Len(s)
  OBVIOUS
<1>2. len \in Nat /\ k \in 0..len /\ DOMAIN s = 1..len
  BY <1>1
<1>3. a \in Seq(O) /\ b \in Seq(O) /\ Len(a) = k /\ Len(b) = len - k
      /\ (\A i \in 1..k : a[i] = s[i]) /\ (\A i \in 1..(len - k) : b[i] = s[i + k])
  <2>1. a \in Seq(O) /\ Len(a) = k /\ \A i \in 1..k : a[i] = s[i]
    BY <1>1, <1>2
  <2>2. \A i \in (k + 1)..len : s[i] \in O
    BY <1>1, <1>2
  <2>3. b \in Seq(O) /\ Len(b) = len - k
    BY <1>1, <1>2, <2>2
  <2>4. ASSUME NEW i \in 1..(len - k) PROVE b[i] = s[i + k]
    <3>1. i \in 1..(len - (k + 1) + 1) /\ k + 1 + i - 1 = i + k
      BY <1>2
    <3> QED  BY <1>1, <1>2, <3>1
  <2> QED  BY <2>1, <2>3, <2>4
<1>4. DOMAIN a = 1..k /\ DOMAIN b = 1..(len - k)
  BY <1>3
<1>5. s = a \o b
  <2>1. a \o b \in Seq(O) /\ Len(a \o b) = len
    <3>1. a \in Seq(O) /\ b \in Seq(O)
      BY <1>3
    <3>2. a \o b \in Seq(O) /\ Len(a \o b) = Len(a) + Len(b)
      BY <3>1
    <3> QED  BY <1>2, <1>3, <3>2
  <2>2. \A i \in 1..len : s[i] = (a \o b)[i]
    <3> TAKE i \in 1..len
    <3>1. (a \o b)[i] = IF i <= k THEN a[i] ELSE b[i - k]
      BY <1>2, <1>3
    <3>2. CASE i <= k
      BY <1>2, <1>3, <3>1, <3>2
    <3>3. CASE ~(i <= k)
      <4>1. i - k \in 1..(len - k) /\ (i - k) + k = i
        BY <1>2, <3>3
      <4> QED  BY <1>3, <3>1, <3>3, <4>1
    <3> QED  BY <3>2, <3>3
  <2> QED  BY <1>1, <2>1, <2>2, SeqEqual
<1>6. ToSet(s) = ToSet(a) \cup ToSet(b)
  BY <1>3, <1>5, TwoInOne
<1>7. ASSUME Distinct(s) PROVE Distinct(a) /\ Distinct(b) /\ ToSet(a) \cap ToSet(b) = {}
  <2>1. \A i \in 1..(len - k) : i + k \in 1..len
    BY <1>2
  <2>2. \A i \in 1..k : i \in 1..len
    BY <1>2
  <2>3. Distinct(a)
    BY <1>2, <1>3, <1>4, <1>7, <2>2 DEF Distinct
  <2>4. Distinct(b)
    <3> SUFFICES ASSUME NEW i \in 1..(len - k), NEW j \in 1..(len - k), b[i] = b[j] PROVE i = j
      BY <1>4 DEF Distinct
    <3>1. s[i + k] = s[j + k]
      BY <1>3
    <3>2. i + k = j + k
      BY <1>2, <1>7, <2>1, <3>1 DEF Distinct
    <3> QED  BY <1>2, <3>2
  <2>5. ASSUME NEW i \in 1..k, NEW j \in 1..(len - k), a[i] = b[j] PROVE FALSE
    <3>1. s[i] = s[j + k] /\ i # j + k
      BY <1>2, <1>3, <2>5
    <3> QED  BY <1>2, <1>7, <2>1, <2>2, <3>1 DEF Distinct
  <2> QED  BY <1>4, <2>3, <2>4, <2>5 DEF ToSet
<1> QED  BY <1>1, <1>3, <1>5, <1>6, <1>7

(* The inputs are the first so many of the outputs that were read; what is *)
(* not spent are the others.                                               *)
LEMMA InputsFacts ==
  ASSUME txs \in Seq(Tx), unspentTxt \in Seq(Outs), NEW need \in Nat
  PROVE  /\ Inputs(need) = SubSeq(unspentOuts, 1, Len(Inputs(need)))
         /\ Len(Inputs(need)) \in 0..Len(unspentOuts)
         /\ Len(Inputs(need)) = 0 => Len(unspentOuts) = 0
         /\ need <= totBtc /\ Len(unspentOuts) # 0 =>
               need <= Uint64(Sum(InValues(Inputs(need))))
<1>1. PICK u, len : u = unspentOuts /\ len = Len(unspentOuts)
  OBVIOUS
<1> DEFINE enough == {n \in DOMAIN u : Uint64(Sum(InValues(SubSeq(u, 1, n)))) >= need}
           k == IF enough = {} THEN len ELSE Min(enough)
<1>2. u \in Seq(Outs) /\ len \in Nat /\ DOMAIN u = 1..len /\ Len(u) = len
  BY <1>1, ReadFacts
<1>3. Inputs(need) = SubSeq(u, 1, k)
  BY <1>1 DEF Inputs
<1>4. enough # {} => k \in enough /\ k \in 1..len
  <2>1. enough \in SUBSET Nat /\ enough \subseteq 1..len
    BY <1>2
  <2> HIDE DEF enough
  <2> QED  BY <2>1, MinOf
<1>5. k \in 0..len /\ (k = 0 => len = 0)
  <2> HIDE DEF enough
  <2> QED  BY <1>2, <1>4
<1>6. Len(Inputs(need)) = k
  <2> HIDE DEF k
  <2> QED  BY <1>2, <1>3, <1>5
<1>7. ASSUME need <= totBtc, len # 0 PROVE need <= Uint64(Sum(InValues(Inputs(need))))
  <2>1. SubSeq(u, 1, len) = u /\ len \in DOMAIN u
    BY <1>2, <1>7
  <2>2. totBtc = Uint64(Sum(InValues(u)))
    BY <1>1 DEF totBtc
  <2>3. totBtc \in Int
    <3>1. Sum(InValues(u)) \in Nat
      BY <1>2, ValuesOf, SumType
    <3> QED  BY <2>2, <3>1, WalletAssumption DEF Uint64
  <2>4. len \in enough
    BY <1>7, <2>1, <2>2, <2>3
  <2>5. k \in enough
    BY <1>4, <2>4
  <2>6. Uint64(Sum(InValues(SubSeq(u, 1, k)))) >= need
    BY <2>5
  <2> HIDE DEF k
  <2>7. Uint64(Sum(InValues(SubSeq(u, 1, k)))) \in Int
    <3>1. SubSeq(u, 1, k) \in Seq(Outs)
      BY <1>2, <1>5
    <3>2. Sum(InValues(SubSeq(u, 1, k))) \in Nat
      BY <3>1, ValuesOf, SumType
    <3> QED  BY <3>2, WalletAssumption DEF Uint64
  <2> QED  BY <1>3, <2>6, <2>7
<1> QED  BY <1>1, <1>3, <1>5, <1>6, <1>7

(* Amounts modulo W. *)
LEMMA Modulo ==
  ASSUME NEW W \in Nat, W > 0, NEW x \in Int
  PROVE  /\ x % W \in Nat /\ x % W < W
         /\ x \in 0..(W - 1) => x % W = x
         /\ x \in Nat /\ x % W = 0 => (0 - x) % W = 0
<1>1. x % W \in Nat /\ x % W < W
  OBVIOUS
<1>2. x \in 0..(W - 1) => x % W = x
  OBVIOUS
<1>3. ASSUME x \in Nat, x % W = 0 PROVE (0 - x) % W = 0
  <2>1. x \div W \in Nat
    BY <1>3
  <2>2. PICK q \in Nat : x = W * q
    <3>1. x = W * (x \div W) + (x % W)
      OBVIOUS
    <3> QED  BY <1>3, <2>1, <3>1
  <2>3. 0 - x = W * (0 - q)
    BY <2>2
  <2>4. (W * (0 - q)) % W = 0
    OBVIOUS
  <2> QED  BY <2>3, <2>4
<1> QED  BY <1>1, <1>2, <1>3

LEMMA WordFacts ==
  ASSUME NEW x \in Int
  PROVE  /\ Uint64(x) \in Nat /\ Uint64(x) < Word
         /\ x \in Nat /\ x < Word => Uint64(x) = x
         /\ x \in Nat /\ Uint64(x) = 0 => Uint64(0 - x) = 0
<1>1. PICK W : W = Word
  OBVIOUS
<1>2. W \in Nat /\ W > 0
  BY <1>1, WalletAssumption
<1>3. /\ x % W \in Nat /\ x % W < W
      /\ x \in 0..(W - 1) => x % W = x
      /\ x \in Nat /\ x % W = 0 => (0 - x) % W = 0
  BY <1>2, Modulo
<1>4. x \in Nat /\ x < W => x \in 0..(W - 1)
  BY <1>2
<1> QED  BY <1>1, <1>3, <1>4 DEF Uint64

(* Payments and their amounts. *)
LEMMA Amounts ==
  ASSUME NEW outs \in Seq(Payment)
  PROVE  /\ Values(outs) \in Seq(Nat) /\ Len(Values(outs)) = Len(outs) /\ Sum(Values(outs)) \in Nat
         /\ \A p \in Payment : Sum(Values(Append(outs, p))) = Sum(Values(outs)) + p.value
<1>1. \A p \in Payment : p.value \in Nat
  BY DEF Payment
<1>2. \A n \in 1..Len(outs) : outs[n] \in Payment
  OBVIOUS
<1>3. Values(outs) \in Seq(Nat) /\ Len(Values(outs)) = Len(outs)
  BY <1>1, <1>2 DEF Values
<1>4. Sum(Values(outs)) \in Nat
  BY <1>3, SumType
<1>5. ASSUME NEW p \in Payment PROVE Sum(Values(Append(outs, p))) = Sum(Values(outs)) + p.value
  <2>1. p.value \in Nat
    BY <1>1
  <2>2. Values(Append(outs, p)) = Append(Values(outs), p.value)
    BY <1>3, <2>1 DEF Values
  <2> QED  BY <1>3, <2>1, <2>2, SumAppend
<1> QED  BY <1>3, <1>4, <1>5

(* The transaction that is made spends the first lines, keeps the others,  *)
(* and pays what it takes if no amount wrapped.                            *)
LEMMA Paid ==
  ASSUME txs \in Seq(Tx), unspentTxt \in Seq(Outs), NEW to \in SendTo, NEW fee \in Fees,
         Uint64(Uint64(Sum(Values(to))) + fee) <= totBtc
  PROVE  LET tx == SignedTx(to, fee) IN
         /\ tx \in Tx /\ tx.ins \in Seq(Outs) /\ NotSpent(tx) \in Seq(Outs)
         /\ unspentOuts = tx.ins \o NotSpent(tx)
         /\ ToSet(unspentOuts) = ToSet(tx.ins) \cup ToSet(NotSpent(tx))
         /\ Distinct(unspentOuts) => /\ Distinct(tx.ins) /\ Distinct(NotSpent(tx))
                                     /\ ToSet(tx.ins) \cap ToSet(NotSpent(tx)) = {}
         /\ Sum(InValues(unspentOuts)) < Word /\ tx.asked < Word =>
               Sum(InValues(tx.ins)) = Sum(Values(tx.outs)) + tx.fee
<1> DEFINE tx == SignedTx(to, fee)
<1>1. PICK spend, need, ins, w :
        /\ spend = Uint64(Sum(Values(to))) /\ need = Uint64(spend + fee) /\ ins = Inputs(need)
        /\ w = Sum(InValues(ins))
  OBVIOUS
<1>2. PICK change, rest : change = changeBtc(ins, spend, fee) /\ rest = ChangeTo(ins, change)
  OBVIOUS
<1>3. tx = [ins |-> ins, outs |-> to \o rest, fee |-> fee, asked |-> Sum(Values(to)) + fee]
  BY <1>1, <1>2 DEF SignedTx
<1>4. to \in Seq(Payment) /\ fee \in Nat
  BY WalletAssumption DEF Payment
<1>5. Sum(Values(to)) \in Nat
  BY <1>4, Amounts
<1>6. spend \in Nat /\ spend < Word /\ need \in Nat /\ need < Word
      /\ (Sum(Values(to)) < Word => spend = Sum(Values(to)))
      /\ (spend + fee < Word => need = spend + fee)
      /\ (need = 0 => Uint64(0 - (spend + fee)) = 0)
  <2>1. spend \in Nat /\ spend < Word /\ (Sum(Values(to)) < Word => spend = Sum(Values(to)))
    BY <1>1, <1>5, WordFacts
  <2>2. spend + fee \in Int /\ spend + fee \in Nat
    BY <1>4, <2>1
  <2> QED  BY <1>1, <2>1, <2>2, WordFacts
<1>7. unspentOuts \in Seq(Outs)
  BY ReadFacts
<1>8. /\ ins = SubSeq(unspentOuts, 1, Len(ins)) /\ Len(ins) \in 0..Len(unspentOuts)
      /\ (Len(ins) = 0 => Len(unspentOuts) = 0)
      /\ (Len(unspentOuts) # 0 => need <= Uint64(w))
  <2>1. need <= totBtc
    BY <1>1
  <2> QED  BY <1>1, <1>6, <2>1, InputsFacts
<1>9. PICK u, k, cut : u = unspentOuts /\ k = Len(ins) /\ cut = SubSeq(unspentOuts, k + 1, Len(unspentOuts))
  OBVIOUS
<1>10. /\ ins \in Seq(Outs) /\ cut \in Seq(Outs) /\ u = ins \o cut
       /\ ToSet(u) = ToSet(ins) \cup ToSet(cut)
       /\ Distinct(u) => Distinct(ins) /\ Distinct(cut) /\ ToSet(ins) \cap ToSet(cut) = {}
  <2>1. u \in Seq(Outs) /\ k \in 0..Len(u) /\ ins = SubSeq(u, 1, k) /\ cut = SubSeq(u, k + 1, Len(u))
    BY <1>7, <1>8, <1>9
  <2> QED  BY <2>1, CutInTwo
<1>11. NotSpent(tx) = cut /\ tx.ins = ins /\ tx.outs = to \o rest /\ tx.fee = fee
       /\ tx.asked = Sum(Values(to)) + fee
  BY <1>3, <1>9 DEF NotSpent
<1>12. w \in Nat
  BY <1>1, <1>10, ValuesOf, SumType
<1>13. ASSUME Len(ins) = 0 PROVE w = 0 /\ need = 0 /\ change = 0
  <2>1. ins = <<>> /\ u = <<>>
    BY <1>7, <1>8, <1>9, <1>10, <1>13
  <2>2. w = 0 /\ totBtc = Uint64(0)
    BY <1>1, <1>9, <2>1, NoLines DEF totBtc
  <2>3. Uint64(0) = 0
    <3>1. 0 < Word
      BY WalletAssumption
    <3> QED  BY <3>1, WordFacts
  <2>4. need = 0
    BY <1>1, <1>6, <2>2, <2>3
  <2>5. change = Uint64(0 - (spend + fee))
    BY <1>1, <1>2, <2>2 DEF changeBtc
  <2> QED  BY <1>6, <2>2, <2>4, <2>5
<1>14. change \in Nat /\ (w - (spend + fee) \in Nat /\ w - (spend + fee) < Word =>
                            change = w - (spend + fee))
  <2>1. w - (spend + fee) \in Int
    BY <1>4, <1>6, <1>12
  <2>2. change = Uint64(w - (spend + fee))
    BY <1>1, <1>2 DEF changeBtc
  <2> QED  BY <2>1, <2>2, WordFacts
<1>15. (change = 0 /\ rest = <<>>)
       \/ \E p \in Payment : p.value = change /\ rest = <<p>>
  <2>1. CASE change = 0
    BY <1>2, <2>1 DEF ChangeTo
  <2>2. CASE change # 0
    <3> DEFINE p == [addr |-> UO(Head(ins)).addr, value |-> change]
    <3>1. rest = <<p>>
      BY <1>2, <1>14, <2>2 DEF ChangeTo
    <3>2. Head(ins) \in Outs
      BY <1>10, <1>13, <2>2
    <3>3. PICK t \in 1..Len(txs) : \E n \in DOMAIN txs[t].outs : Head(ins) = Outpoint(t, n)
      BY <3>2, Zenon DEF Outs
    <3>4. PICK n \in DOMAIN txs[t].outs : Head(ins) = Outpoint(t, n)
      BY <3>3
    <3>5. UO(Head(ins)) \in Payment
      <4>1. txs[t].outs[n] \in Payment
        BY TxFields
      <4> QED  BY <3>4, <4>1 DEF UO, Outpoint
    <3>6. p \in Payment
      BY <1>14, <3>5 DEF Payment
    <3> QED  BY <3>1, <3>6
  <2> QED  BY <2>1, <2>2
<1>16. to \o rest \in Seq(Payment) /\ Sum(Values(to \o rest)) = Sum(Values(to)) + change
  <2>1. CASE change = 0 /\ rest = <<>>
    <3>1. to \o rest = to
      BY <1>4, <2>1
    <3> QED  BY <1>4, <1>5, <2>1, <3>1
  <2>2. CASE \E p \in Payment : p.value = change /\ rest = <<p>>
    <3>1. PICK p \in Payment : p.value = change /\ rest = <<p>>
      BY <2>2
    <3>2. to \o rest = Append(to, p) /\ to \o rest \in Seq(Payment)
      BY <1>4, <3>1
    <3> QED  BY <1>4, <3>1, <3>2, Amounts
  <2> QED  BY <1>15, <2>1, <2>2
<1>17. tx \in Tx
  <2>1. Outs \subseteq Point
    <3> SUFFICES ASSUME NEW o \in Outs PROVE o \in Point
      OBVIOUS
    <3>1. PICK t \in 1..Len(txs) : \E n \in DOMAIN txs[t].outs : o = Outpoint(t, n)
      BY Zenon DEF Outs
    <3>2. PICK n \in DOMAIN txs[t].outs : o = Outpoint(t, n)
      BY <3>1
    <3>3. t \in Nat /\ n \in Nat
      BY TxFields
    <3> QED  BY <3>2, <3>3 DEF Outpoint, Point
  <2>2. ins \in Seq(Point)
    BY <1>10, <2>1
  <2>3. Sum(Values(to)) + fee \in Nat
    BY <1>4, <1>5
  <2> QED  BY <1>3, <1>4, <1>16, <2>2, <2>3 DEF Tx
<1>18. ASSUME Sum(InValues(unspentOuts)) < Word, tx.asked < Word
       PROVE  Sum(InValues(tx.ins)) = Sum(Values(tx.outs)) + tx.fee
  <2>1. Sum(Values(to)) + fee < Word
    BY <1>11, <1>18
  <2>2. Word \in Nat
    BY WalletAssumption
  <2>3. spend = Sum(Values(to)) /\ need = spend + fee
    BY <1>4, <1>5, <1>6, <2>1, <2>2
  <2>4. w < Word
    <3>1. PICK v : v = Sum(InValues(cut))
      OBVIOUS
    <3>2. v \in Nat
      BY <1>10, <3>1, ValuesOf, SumType
    <3>3. InValues(ins) \in Seq(Nat) /\ InValues(cut) \in Seq(Nat)
          /\ InValues(u) = InValues(ins) \o InValues(cut)
      BY <1>10, ValuesOf
    <3>4. Sum(InValues(u)) = w + v
      BY <1>1, <3>1, <3>3, SumConcat
    <3> QED  BY <1>9, <1>12, <1>18, <2>2, <3>2, <3>4
  <2>5. need <= w
    <3>1. CASE Len(ins) = 0
      BY <1>13, <3>1
    <3>2. CASE Len(ins) # 0
      <4>1. Len(unspentOuts) # 0
        BY <1>7, <1>8, <3>2
      <4>2. w \in Int
        BY <1>12
      <4>3. Uint64(w) = w
        BY <1>12, <2>4, <4>2, WordFacts
      <4> QED  BY <1>8, <4>1, <4>3
    <3> QED  BY <3>1, <3>2
  <2>6. change = w - (spend + fee)
    BY <1>4, <1>6, <1>12, <1>14, <2>2, <2>3, <2>4, <2>5, SMTT(40)
  <2>7. w = Sum(Values(to)) + change + fee
    BY <1>4, <1>5, <1>12, <2>3, <2>6
  <2> QED  BY <1>1, <1>4, <1>5, <1>11, <1>14, <1>16, <2>7
<1> QED  BY <1>9, <1>10, <1>11, <1>17, <1>18
-----------------------------------------------------------------------------
(* What every run leaves and finds                                         *)

Whole(o)   == txFile[o.tx] = "whole"
InMemory   == pc \in {"sign", "list"}
StepsToEnd == Steps \ {"off"}

(* The lines the file will have at the end of the run, or has if there is none. *)
Kept == IF InMemory THEN addLines ELSE unspentTxt \o addLines

TypeOK ==
  /\ publ_addrs \in Seq(Addr)
  /\ txs \in Seq(Tx) /\ Len(txs) \in 1..MaxTxs
  /\ pc \in Steps /\ (pc # "off" => cur \in Made /\ fate[cur] = "done")
  /\ addLines \in Seq(Outs) /\ (pc \in {"off", "file", "store"} => addLines = <<>>)
  /\ unspentTxt \in Seq(Outs)
  /\ txFile \in [1..MaxTxs -> {"none", "empty", "whole"}]
  /\ signed \subseteq 1..cur
  /\ fate \in [1..MaxTxs -> StepsToEnd \cup {"done"}]
  /\ \A t \in 1..MaxTxs : t > cur \/ t = Funding => fate[t] = "done"

(* A transaction spends outputs of those before it; what a run has read,   *)
(* and keeps in memory, are lines of these too.                            *)
Ordered ==
  /\ Spends(Funding) = {}
  /\ \A t \in Made : txs[t].ins \in Seq(Outs) /\ \A o \in Spends(t) : o.tx < t
  /\ InMemory => \A o \in ToSet(unspentTxt) : o.tx < cur
  /\ InMemory => ToSet(addLines) \subseteq ToSet(unspentTxt)

(* Only the lines of the last transaction may be without its file. *)
Loadable ==
  /\ pc = "off" =>
       \A o \in ToSet(unspentTxt) :
         Whole(o) \/ (o.tx = cur /\ fate[cur] \in {"lines", "file", "store"})
  /\ InMemory => \A o \in ToSet(unspentTxt) : Whole(o)
  /\ pc \in {"lines", "file", "store"} =>
       \A o \in ToSet(Kept) : Whole(o) \/ (o.tx = cur /\ AnyAdded)
  /\ pc \in {"file", "store"} => AnyAdded

(* Every line once, and none that a transaction takes whose run came as    *)
(* far as emptying the file.                                               *)
Emptied(t) == fate[t] \notin {"sign", "list"} /\ ~(t = cur /\ InMemory)

SpentOnce ==
  /\ Distinct(Kept) /\ Distinct(unspentTxt)
  /\ \A t \in Made : Distinct(txs[t].ins) /\ \A o \in Spends(t) : Mine(o)
  /\ \A t \in Made : Emptied(t) => Spends(t) \cap (ToSet(Kept) \cup ToSet(unspentTxt)) = {}
  /\ InMemory => Spends(cur) \cap ToSet(Kept) = {}
  /\ \A t, u \in Made : t < u /\ Spends(t) \cap Spends(u) # {} => fate[t] \in {"sign", "list"}

NotYetSigned ==
  /\ \A t \in Made : fate[t] = "sign" => t \notin signed
  /\ pc = "sign" => cur \notin signed

(* The outputs of the wallet that the first n transactions leave. *)
Own(t)   == {o \in {Outpoint(t, n) : n \in DOMAIN txs[t].outs} : Mine(o)}
Avail(n) == (UNION {Own(t) : t \in 1..n}) \ (UNION {Spends(t) : t \in 2..n})
OwnOf(S) == {o \in S : Mine(o)}

Complete ==
  (\A t \in Made : fate[t] = "done") =>
    /\ InMemory => /\ OwnOf(ToSet(unspentTxt)) = Avail(cur - 1)
                   /\ ToSet(addLines) = Avail(cur - 1) \ Spends(cur)
    /\ ~InMemory => OwnOf(ToSet(Kept)) = Avail(cur)

(* No more money than there was. *)
Weight(s) == Sum(InValues(s))
Total     == Sum(Values(FundingOuts))
NoWrap(t) == \A u \in 2..t : txs[u].asked < Word

Balanced(t) == Weight(txs[t].ins) = Sum(Values(txs[t].outs)) + txs[t].fee

Conserved ==
  /\ \A t \in Made : NoWrap(t) => Balanced(t)
  /\ NoWrap(cur) =>
       /\ Weight(unspentTxt) <= Total
       /\ InMemory => Weight(Kept) + Sum(Values(txs[cur].outs)) <= Total
       /\ ~InMemory => Weight(Kept) <= Total

WalletInv ==
  /\ TypeOK /\ Ordered /\ Loadable /\ NotYetSigned
  /\ DistinctKeys => SpentOnce /\ Complete /\ Conserved
-----------------------------------------------------------------------------
(* Steps                                                                   *)

(* Outputs, their owners and amounts while no transaction is made, ...     *)
LEMMA SameTxs ==
  ASSUME UNCHANGED <<publ_addrs, txs>>
  PROVE  /\ Outs' = Outs /\ cur' = cur /\ Made' = Made
         /\ \A o : Mine(o)' = Mine(o)
         /\ \A s : OwnOf(s)' = OwnOf(s) /\ Weight(s)' = Weight(s)
         /\ \A t : /\ OwnLines(t)' = OwnLines(t) /\ Own(t)' = Own(t) /\ Spends(t)' = Spends(t)
                   /\ NoWrap(t)' = NoWrap(t) /\ Balanced(t)' = Balanced(t)
         /\ \A n : Avail(n)' = Avail(n)
         /\ DistinctKeys' = DistinctKeys /\ AnyAdded' = AnyAdded
<1>1. Outs' = Outs /\ cur' = cur /\ Made' = Made
  BY DEF Outs, cur, Made
<1>2. \A o : Mine(o)' = Mine(o)
  BY DEF Mine, Owns, UO
<1>3. \A s : OwnOf(s)' = OwnOf(s) /\ Weight(s)' = Weight(s)
  BY <1>2 DEF OwnOf, Weight, InValues, UO
<1>4. \A t : LinesOf(t, 1)' = LinesOf(t, 1) /\ OwnLines(t)' = OwnLines(t)
  BY DEF OwnLines, LinesOf
<1>5. \A t : Own(t)' = Own(t) /\ Spends(t)' = Spends(t)
  BY <1>2 DEF Own, Spends
<1>6. \A t : NoWrap(t)' = NoWrap(t) /\ Balanced(t)' = Balanced(t)
  BY <1>3 DEF NoWrap, Balanced, Weight, InValues, UO
<1>7. \A n : Avail(n)' = Avail(n)
  BY <1>5 DEF Avail, Own, Mine, Owns, UO, Spends
<1>8. DistinctKeys' = DistinctKeys /\ AnyAdded' = AnyAdded
  BY <1>4 DEF DistinctKeys, AnyAdded, OwnLines, LinesOf, cur
<1> QED  BY <1>1, <1>2, <1>3, <1>4, <1>5, <1>6, <1>7, <1>8

(* ... and when one more is made. *)
LEMMA OneMoreTx ==
  ASSUME txs \in Seq(Tx), NEW x \in Tx, txs' = Append(txs, x), publ_addrs' = publ_addrs
  PROVE  /\ txs' \in Seq(Tx) /\ cur \in Nat /\ cur' = cur + 1
         /\ \A t \in 1..cur : txs'[t] = txs[t]
         /\ txs'[cur + 1] = x
         /\ \A o \in Outs : /\ o \in Outs' /\ o.tx \in 1..cur
                            /\ UO(o)' = UO(o) /\ Mine(o)' = Mine(o)
         /\ \A s \in Seq(Outs) : s \in Seq(Outs') /\ Weight(s)' = Weight(s)
         /\ \A t \in 1..cur : Own(t)' = Own(t) /\ Spends(t)' = Spends(t)
<1>1. /\ txs' \in Seq(Tx) /\ cur \in Nat /\ cur' = cur + 1
      /\ (\A t \in 1..cur : txs'[t] = txs[t])
      /\ txs'[cur + 1] = x
  BY DEF cur
<1>2. ASSUME NEW o \in Outs PROVE o \in Outs' /\ o.tx \in 1..cur /\ UO(o)' = UO(o) /\ Mine(o)' = Mine(o)
  <2>1. PICK t \in 1..cur : \E n \in DOMAIN txs[t].outs : o = Outpoint(t, n)
    BY Zenon DEF Outs, cur
  <2>2. PICK n \in DOMAIN txs[t].outs : o = Outpoint(t, n)
    BY <2>1
  <2>3. o.tx = t
    BY <2>2 DEF Outpoint
  <2>4. t \in 1..cur' /\ n \in DOMAIN txs'[t].outs
    <3>1. t \in 1..(cur + 1)
      BY <1>1
    <3>2. txs'[t] = txs[t]
      BY <1>1
    <3> QED  BY <1>1, <2>2, <3>1, <3>2
  <2>5. o \in Outs'
    BY <2>2, <2>4 DEF Outs, cur
  <2>6. UO(o)' = UO(o)
    BY <1>1, <2>3 DEF UO
  <2> QED  BY <2>3, <2>5, <2>6 DEF Mine, Owns
<1>3. ASSUME NEW s \in Seq(Outs) PROVE s \in Seq(Outs') /\ Weight(s)' = Weight(s)
  <2>1. Outs \subseteq Outs'
    BY <1>2
  <2>2. \A n \in DOMAIN s : s[n] \in Outs
    OBVIOUS
  <2>3. \A n \in DOMAIN s : UO(s[n])' = UO(s[n])
    BY <1>2, <2>2
  <2>4. InValues(s)' = InValues(s)
    BY <2>3 DEF InValues
  <2> QED  BY <2>1, <2>4 DEF Weight
<1>4. ASSUME NEW t \in 1..cur PROVE Own(t)' = Own(t) /\ Spends(t)' = Spends(t)
  <2>1. \A n \in DOMAIN txs[t].outs : Outpoint(t, n) \in Outs
    BY DEF Outs, cur
  <2>2. \A n \in DOMAIN txs[t].outs : Mine(Outpoint(t, n))' = Mine(Outpoint(t, n))
    BY <1>2, <2>1
  <2> QED  BY <1>1, <2>2 DEF Own, Spends
<1> QED  BY <1>1, <1>2, <1>3, <1>4

(* What loads has all its transactions. *)
LEMMA AllWhole ==
  LoadError = "" <=> \A o \in ToSet(unspentTxt) : Whole(o)
<1> DEFINE bad == {n \in DOMAIN unspentTxt : txFile[unspentTxt[n].tx] # "whole"}
<1>1. LoadError = "" <=> bad = {}
  BY Zenon DEF LoadError
<1>2. bad = {} <=> \A o \in ToSet(unspentTxt) : Whole(o)
  BY DEF ToSet, Whole
<1> QED  BY <1>1, <1>2, Zenon

(* Sequences and their elements. *)
LEMMA Elements ==
  ASSUME NEW O, NEW s \in Seq(O)
  PROVE  /\ ToSet(s) \subseteq O
         /\ s # <<>> => /\ Head(s) \in O /\ Tail(s) \in Seq(O)
                        /\ ToSet(s) = {Head(s)} \cup ToSet(Tail(s))
         /\ \A r \in Seq(O) : s # <<>> => Append(r, Head(s)) \o Tail(s) = r \o s
         /\ s \o <<>> = s /\ <<>> \o s = s /\ ToSet(<<>>) = {}
<1>1. ToSet(s) \subseteq O /\ ToSet(<<>>) = {}
  BY DEF ToSet
<1>2. ASSUME s # <<>>
      PROVE  /\ Head(s) \in O /\ Tail(s) \in Seq(O)
             /\ ToSet(s) = {Head(s)} \cup ToSet(Tail(s))
             /\ \A r \in Seq(O) : Append(r, Head(s)) \o Tail(s) = r \o s
  <2>1. PICK h, t : h = Head(s) /\ t = Tail(s)
    OBVIOUS
  <2>2. h \in O /\ t \in Seq(O) /\ <<h>> \in Seq(O)
    BY <1>2, <2>1
  <2>3. s = <<h>> \o t
    BY <1>2, <2>1
  <2>4. ToSet(<<h>>) = {h}
    BY DEF ToSet
  <2>5. ToSet(<<h>> \o t) = ToSet(<<h>>) \cup ToSet(t)
    BY <2>2, TwoInOne, ZenonT(60)
  <2>6. ASSUME NEW r \in Seq(O) PROVE Append(r, h) \o t = r \o s
    <3>1. Append(r, h) = r \o <<h>>
      BY <2>2
    <3>2. (r \o <<h>>) \o t = r \o (<<h>> \o t)
      BY <2>2, ConcatAssociative
    <3> QED  BY <2>3, <3>1, <3>2
  <2> QED  BY <2>1, <2>2, <2>3, <2>4, <2>5, <2>6
<1>3. s \o <<>> = s /\ <<>> \o s = s
  OBVIOUS
<1> QED  BY <1>1, <1>2, <1>3, Zenon

(* A run that ends before it has written anything. *)
Quiet == UNCHANGED <<publ_addrs, txs, pc, addLines, files, fate>>

(* What a step may be. *)
LEMMA StepKinds ==
  ASSUME [Next]_vars
  PROVE  \/ Quiet
         \/ \E to \in SendTo, fee \in Fees : Make(to, fee)
         \/ WriteSigned \/ CreateUnspent \/ CannotCreateUnspent \/ WriteLine \/ EndOfLines
         \/ CreateTxFile \/ CannotCreateTxFile \/ StoreTx \/ Killed
<1>1. \A to \in SendTo, fee \in Fees : TooMuch(to, fee) => Quiet
  BY Zenon DEF TooMuch, Refuse, Quiet
<1>2. CannotLoad => Quiet
  BY Zenon DEF CannotLoad, Refuse, Quiet
<1>3. UNCHANGED vars => Quiet
  BY DEF vars, files, Quiet
<1> QED  BY <1>1, <1>2, <1>3, Zenon DEF Next

(* What a run that makes a transaction does with the lines it has read. *)
LEMMA MakeFacts ==
  ASSUME TypeOK, NEW to \in SendTo, NEW fee \in Fees, Make(to, fee)
  PROVE  \E tx \in Tx :
           /\ txs' = Append(txs, tx) /\ cur < MaxTxs
           /\ tx.ins \in Seq(Outs) /\ addLines' \in Seq(Outs)
           /\ unspentOuts = tx.ins \o addLines'
           /\ ToSet(tx.ins) \cup ToSet(addLines') = OwnOf(ToSet(unspentTxt))
           /\ Distinct(unspentTxt) => /\ Distinct(tx.ins) /\ Distinct(addLines')
                                      /\ ToSet(tx.ins) \cap ToSet(addLines') = {}
           /\ Weight(unspentOuts) < Word /\ tx.asked < Word =>
                 Weight(tx.ins) = Sum(Values(tx.outs)) + tx.fee
           /\ \A o \in ToSet(unspentTxt) : Whole(o)
           /\ pc = "off" /\ pc' = "sign"
           /\ UNCHANGED <<publ_addrs, unspentTxt, txFile, signed, fate>>
<1>1. /\ Uint64(Uint64(Sum(Values(to))) + fee) <= totBtc
      /\ Len(txs) < MaxTxs
      /\ txs' = Append(txs, SignedTx(to, fee))
      /\ addLines' = NotSpent(SignedTx(to, fee))
      /\ pc = "off" /\ pc' = "sign"
      /\ UNCHANGED <<publ_addrs, unspentTxt, txFile, signed, fate>>
  BY Zenon DEF Make, files
<1>2. LoadError = ""
  BY Zenon DEF Make
<1>3. \A o \in ToSet(unspentTxt) : Whole(o)
  BY <1>2, AllWhole, Zenon
<1> HIDE <1>2
<1>4. txs \in Seq(Tx) /\ unspentTxt \in Seq(Outs)
  BY DEF TypeOK
<1>5. PICK tx : tx = SignedTx(to, fee)
  OBVIOUS
<1>6. /\ tx \in Tx /\ tx.ins \in Seq(Outs) /\ NotSpent(tx) \in Seq(Outs)
      /\ unspentOuts = tx.ins \o NotSpent(tx)
      /\ ToSet(unspentOuts) = ToSet(tx.ins) \cup ToSet(NotSpent(tx))
      /\ Distinct(unspentOuts) => /\ Distinct(tx.ins) /\ Distinct(NotSpent(tx))
                                  /\ ToSet(tx.ins) \cap ToSet(NotSpent(tx)) = {}
      /\ Sum(InValues(unspentOuts)) < Word /\ tx.asked < Word =>
            Sum(InValues(tx.ins)) = Sum(Values(tx.outs)) + tx.fee
  BY <1>1, <1>4, <1>5, Paid
<1>7. /\ ToSet(unspentOuts) = OwnOf(ToSet(unspentTxt))
      /\ Distinct(unspentTxt) => Distinct(unspentOuts)
  BY <1>4, ReadFacts DEF OwnOf
<1>8. addLines' = NotSpent(tx) /\ txs' = Append(txs, tx) /\ cur < MaxTxs
  BY <1>1, <1>5 DEF cur
<1> QED  BY <1>1, <1>3, <1>6, <1>7, <1>8 DEF Weight

LEMMA TypeInit ==
  ASSUME Init
  PROVE  TypeOK /\ Ordered
<1>1. /\ publ_addrs \in KeyLists
      /\ txs = <<[ins |-> <<>>, outs |-> FundingOuts, fee |-> 0, asked |-> 0]>>
      /\ pc = "off" /\ addLines = <<>>
      /\ unspentTxt = [n \in DOMAIN FundingOuts |-> Outpoint(Funding, n)]
      /\ txFile = [t \in 1..MaxTxs |-> IF t = Funding THEN "whole" ELSE "none"]
      /\ signed = {Funding}
      /\ fate = [t \in 1..MaxTxs |-> "done"]
  BY Zenon DEF Init
<1>2. FundingOuts \in Seq(Payment) /\ MaxTxs \in Nat \ {0} /\ publ_addrs \in Seq(Addr)
  BY <1>1, WalletAssumption DEF Payment
<1>3. txs \in Seq(Tx) /\ Len(txs) = 1 /\ txs[1].outs = FundingOuts
  <2>1. [ins |-> <<>>, outs |-> FundingOuts, fee |-> 0, asked |-> 0] \in Tx
    BY <1>2 DEF Tx
  <2> QED  BY <1>1, <2>1
<1>4. unspentTxt \in Seq(Outs) /\ addLines \in Seq(Outs)
  <2>1. \A n \in 1..Len(FundingOuts) : Outpoint(Funding, n) \in Outs
    BY <1>2, <1>3 DEF Outs, Funding
  <2>2. unspentTxt = [n \in 1..Len(FundingOuts) |-> Outpoint(Funding, n)]
    BY <1>1, <1>2
  <2> QED  BY <1>1, <1>2, <2>1, <2>2
<1>5. cur = 1 /\ Made = {} /\ signed \subseteq 1..cur
  BY <1>1, <1>3 DEF cur, Made, Funding
<1>6. TypeOK
  BY <1>1, <1>2, <1>3, <1>4, <1>5 DEF TypeOK, StepsToEnd, Steps
<1>7. Ordered
  <2>1. Spends(Funding) = {}
    BY <1>1 DEF Spends, Funding, ToSet
  <2> QED  BY <1>1, <1>5, <2>1 DEF Ordered, InMemory
<1> QED  BY <1>6, <1>7

LEMMA TypeStep ==
  ASSUME TypeOK, [Next]_vars
  PROVE  TypeOK'
<1>1. CASE Quiet
  <2>1. Outs' = Outs
    BY <1>1, SameTxs DEF Quiet
  <2> QED  BY <1>1, <2>1 DEF Quiet, files, TypeOK, cur, Made
<1>2. ASSUME NEW to \in SendTo, NEW fee \in Fees, Make(to, fee) PROVE TypeOK'
  <2>1. PICK tx \in Tx :
           /\ txs' = Append(txs, tx) /\ cur < MaxTxs /\ addLines' \in Seq(Outs)
           /\ pc = "off" /\ pc' = "sign"
           /\ UNCHANGED <<publ_addrs, unspentTxt, txFile, signed, fate>>
    BY <1>2, MakeFacts
  <2>2. txs \in Seq(Tx)
    BY DEF TypeOK
  <2>3. txs' \in Seq(Tx) /\ cur \in Nat /\ cur' = cur + 1 /\ \A s \in Seq(Outs) : s \in Seq(Outs')
    BY <2>1, <2>2, OneMoreTx
  <2>4. unspentTxt' \in Seq(Outs') /\ addLines' \in Seq(Outs')
    BY <2>1, <2>3 DEF TypeOK
  <2>5. cur \in 1..MaxTxs /\ MaxTxs \in Nat
    BY WalletAssumption DEF TypeOK, cur
  <2>6. cur' \in 1..MaxTxs /\ cur' \in Made' /\ cur' > cur
    BY <2>1, <2>3, <2>5 DEF Made, cur
  <2>7. fate'[cur'] = "done"
    BY <2>1, <2>6 DEF TypeOK
  <2>8. signed' \subseteq 1..cur'
        /\ \A t \in 1..MaxTxs : t > cur' \/ t = Funding => fate'[t] = "done"
    BY <2>1, <2>3, <2>5 DEF TypeOK
  <2> QED  BY <2>1, <2>3, <2>4, <2>6, <2>7, <2>8 DEF TypeOK, Steps, cur
<1>3. ASSUME UNCHANGED <<publ_addrs, txs>>,
             pc # "off", pc' \in Steps, addLines' \in Seq(Outs), unspentTxt' \in Seq(Outs),
             pc' \in {"off", "file", "store"} => addLines' = <<>>,
             txFile' \in [1..MaxTxs -> {"none", "empty", "whole"}], signed' \subseteq 1..cur,
             \/ fate' = fate
             \/ pc' = "off" /\ \E step \in StepsToEnd \cup {"done"} : fate' = [fate EXCEPT ![cur] = step]
      PROVE  TypeOK'
  <2>1. Outs' = Outs /\ cur' = cur /\ Made' = Made
    BY <1>3, SameTxs
  <2>2. cur \in 1..MaxTxs
    BY DEF TypeOK, cur
  <2>3. fate' \in [1..MaxTxs -> StepsToEnd \cup {"done"}]
        /\ \A t \in 1..MaxTxs : t > cur \/ t = Funding => fate'[t] = "done"
    <3>1. CASE fate' = fate
      BY <3>1 DEF TypeOK
    <3>2. ASSUME NEW step \in StepsToEnd \cup {"done"}, fate' = [fate EXCEPT ![cur] = step]
          PROVE  <2>3
      <4>1. fate \in [1..MaxTxs -> StepsToEnd \cup {"done"}]
            /\ \A t \in 1..MaxTxs : t > cur \/ t = Funding => fate[t] = "done"
        BY DEF TypeOK
      <4>2. \A t \in 1..MaxTxs : t > cur \/ t = Funding => t # cur
        BY <1>3, <2>2 DEF TypeOK, Made, Funding
      <4> QED  BY <2>2, <3>2, <4>1, <4>2
    <3> QED  BY <1>3, <3>1, <3>2
  <2>4. pc' # "off" => cur \in Made /\ fate'[cur] = "done"
    BY <1>3 DEF TypeOK
  <2> QED  BY <1>3, <2>1, <2>3, <2>4 DEF TypeOK, cur
<1>4. ASSUME UNCHANGED <<publ_addrs, txs, unspentTxt, txFile, signed>>,
             \E step \in StepsToEnd \cup {"done"} : End(step), pc # "off"
      PROVE  TypeOK'
  <2>1. pc' = "off" /\ addLines' = <<>>
        /\ \E step \in StepsToEnd \cup {"done"} : fate' = [fate EXCEPT ![cur] = step]
    BY <1>4 DEF End
  <2>2. addLines' \in Seq(Outs) /\ pc' \in Steps /\ unspentTxt' \in Seq(Outs)
        /\ txFile' \in [1..MaxTxs -> {"none", "empty", "whole"}] /\ signed' \subseteq 1..cur
    BY <1>4, <2>1 DEF TypeOK, Steps
  <2> QED  BY <1>3, <1>4, <2>1, <2>2
<1>5. CASE WriteSigned
  <2>1. cur \in 1..cur
    BY DEF TypeOK, cur
  <2> QED  BY <1>3, <1>5, <2>1 DEF WriteSigned, GoOn, TypeOK, Steps
<1>6. CASE CreateUnspent
  <2>1. OwnLines(cur) \in Seq(Outs)
    <3>1. cur \in 1..Len(txs) /\ publ_addrs \in Seq(Addr) /\ txs \in Seq(Tx)
      BY DEF TypeOK, cur
    <3> QED  BY <3>1, OwnFacts
  <2>2. addLines' \in Seq(Outs) /\ unspentTxt' \in Seq(Outs)
    BY <1>6, <2>1 DEF CreateUnspent, TypeOK
  <2> QED  BY <1>3, <1>6, <2>2 DEF CreateUnspent, TypeOK, Steps
<1>7. CASE WriteLine
  <2>1. addLines' \in Seq(Outs) /\ unspentTxt' \in Seq(Outs)
    <3>1. Head(addLines) \in Outs /\ Tail(addLines) \in Seq(Outs)
      BY <1>7, Elements DEF WriteLine, TypeOK
    <3> QED  BY <1>7, <3>1 DEF WriteLine, TypeOK
  <2> QED  BY <1>3, <1>7, <2>1 DEF WriteLine, TypeOK, Steps
<1>8. CASE EndOfLines
  <2>1. CASE AnyAdded
    BY <1>3, <1>8, <2>1 DEF EndOfLines, files, GoOn, TypeOK, Steps
  <2>2. CASE ~AnyAdded
    BY <1>4, <1>8, <2>2 DEF EndOfLines, files
  <2> QED  BY <2>1, <2>2
<1>9. CASE CreateTxFile
  BY <1>3, <1>9 DEF CreateTxFile, GoOn, TypeOK, Steps
<1>10. CASE CannotCreateUnspent \/ CannotCreateTxFile \/ Killed
  BY <1>4, <1>10 DEF CannotCreateUnspent, CannotCreateTxFile, Killed, files, TypeOK, StepsToEnd, Steps
<1>11. CASE StoreTx
  <2>1. pc' = "off" /\ addLines' = <<>> /\ \E step \in StepsToEnd \cup {"done"} : fate' = [fate EXCEPT ![cur] = step]
    BY <1>11 DEF StoreTx, End
  <2>2. addLines' \in Seq(Outs) /\ txFile' \in [1..MaxTxs -> {"none", "empty", "whole"}]
    BY <1>11, <2>1 DEF StoreTx, TypeOK
  <2> QED  BY <1>3, <1>11, <2>1, <2>2 DEF StoreTx, TypeOK, Steps
<1> QED  BY <1>1, <1>2, <1>5, <1>6, <1>7, <1>8, <1>9, <1>10, <1>11, StepKinds, Zenon

LEMMA OrderedStep ==
  ASSUME TypeOK, Ordered, [Next]_vars
  PROVE  Ordered'
<1>0. txs \in Seq(Tx) /\ cur \in 1..Len(txs) /\ cur \in Nat /\ unspentTxt \in Seq(Outs) /\ Made = 2..cur
  BY DEF TypeOK, cur, Made
<1>1. ASSUME UNCHANGED <<publ_addrs, txs>>,
             InMemory' => InMemory /\ UNCHANGED <<unspentTxt, addLines>>
      PROVE  Ordered'
  <2>1. Outs' = Outs /\ cur' = cur /\ Made' = Made /\ \A t : Spends(t)' = Spends(t)
    BY <1>1, SameTxs
  <2>2. Spends(Funding)' = {}
    BY <1>1 DEF Ordered, Spends
  <2> QED  BY <1>1, <2>1, <2>2 DEF Ordered
<1>2. ASSUME NEW to \in SendTo, NEW fee \in Fees, Make(to, fee) PROVE Ordered'
  <2>1. PICK tx \in Tx :
           /\ txs' = Append(txs, tx)
           /\ tx.ins \in Seq(Outs) /\ addLines' \in Seq(Outs)
           /\ ToSet(tx.ins) \cup ToSet(addLines') = OwnOf(ToSet(unspentTxt))
           /\ UNCHANGED <<publ_addrs, unspentTxt>>
    BY <1>2, MakeFacts
  <2>2. /\ cur' = cur + 1 /\ Made' = Made \cup {cur'}
        /\ \A t \in 1..cur : txs'[t] = txs[t] /\ Spends(t)' = Spends(t)
        /\ txs'[cur + 1] = tx
        /\ \A o \in Outs : o.tx \in 1..cur
        /\ \A s \in Seq(Outs) : s \in Seq(Outs')
    <3>1. /\ cur' = cur + 1
          /\ \A t \in 1..cur : txs'[t] = txs[t] /\ Spends(t)' = Spends(t)
          /\ txs'[cur + 1] = tx
          /\ \A o \in Outs : o.tx \in 1..cur
          /\ \A s \in Seq(Outs) : s \in Seq(Outs')
      BY <1>0, <2>1, OneMoreTx
    <3>2. Made' = 2..cur'
      BY DEF Made, cur
    <3> QED  BY <1>0, <3>1, <3>2
  <2>3. \A o \in Outs : o.tx < cur'
    BY <1>0, <2>2
  <2>4. ASSUME NEW t \in Made'
        PROVE  txs'[t].ins \in Seq(Outs') /\ \A o \in Spends(t)' : o.tx < t
    <3>1. CASE t \in Made
      <4>1. t \in 1..cur
        BY <1>0, <3>1
      <4> QED  BY <2>2, <3>1, <4>1 DEF Ordered
    <3>2. CASE t = cur'
      <4>1. txs'[t] = tx /\ Spends(t)' = ToSet(tx.ins)
        BY <2>2, <3>2 DEF Spends
      <4>2. ToSet(tx.ins) \subseteq Outs
        BY <2>1, Elements
      <4> QED  BY <2>1, <2>2, <2>3, <3>2, <4>1, <4>2
    <3> QED  BY <2>2, <3>1, <3>2
  <2>5. \A o \in ToSet(unspentTxt') : o.tx < cur'
    <3>1. ToSet(unspentTxt) \subseteq Outs
      BY <1>0, Elements
    <3> QED  BY <2>1, <2>3, <3>1
  <2>6. ToSet(addLines') \subseteq ToSet(unspentTxt')
    BY <2>1 DEF OwnOf
  <2>7. Spends(Funding)' = {}
    <3>1. Funding \in 1..cur
      BY <1>0 DEF Funding
    <3>2. txs'[Funding] = txs[Funding]
      BY <2>2, <3>1
    <3> QED  BY <3>2 DEF Ordered, Spends
  <2> QED  BY <2>4, <2>5, <2>6, <2>7 DEF Ordered
<1>3. CASE Quiet
  BY <1>1, <1>3 DEF Quiet, files, InMemory
<1>4. CASE WriteSigned
  BY <1>1, <1>4 DEF WriteSigned, GoOn, InMemory
<1>5. CASE CreateUnspent \/ WriteLine \/ CreateTxFile \/ StoreTx
  BY <1>1, <1>5 DEF CreateUnspent, WriteLine, CreateTxFile, GoOn, End, StoreTx, InMemory
<1>6. CASE CannotCreateUnspent \/ CannotCreateTxFile \/ EndOfLines \/ Killed
  BY <1>1, <1>6 DEF CannotCreateUnspent, CannotCreateTxFile, EndOfLines, Killed, GoOn, End, InMemory
<1> QED  BY <1>2, <1>3, <1>4, <1>5, <1>6, StepKinds, Zenon

(* The lines a file has are among those it will have, ...                  *)
LEMMA KeptFacts ==
  ASSUME TypeOK
  PROVE  /\ Kept \in Seq(Outs)
         /\ pc \in {"off", "file", "store"} => Kept = unspentTxt
         /\ ~InMemory => /\ ToSet(unspentTxt) \subseteq ToSet(Kept)
                         /\ Distinct(Kept) => Distinct(unspentTxt)
                         /\ Weight(unspentTxt) <= Weight(Kept)
<1>1. unspentTxt \in Seq(Outs) /\ addLines \in Seq(Outs) /\ txs \in Seq(Tx)
  BY DEF TypeOK
<1>2. pc \in {"off", "file", "store"} => Kept = unspentTxt
  <2>1. unspentTxt \o <<>> = unspentTxt
    BY <1>1, Elements
  <2> QED  BY <2>1 DEF Kept, InMemory, TypeOK
<1>3. ASSUME ~InMemory
      PROVE  /\ ToSet(unspentTxt) \subseteq ToSet(Kept)
             /\ Distinct(Kept) => Distinct(unspentTxt)
             /\ Weight(unspentTxt) <= Weight(Kept)
  <2>1. PICK s, r, k, len : s = unspentTxt /\ r = addLines /\ k = s \o r /\ len = Len(s)
    OBVIOUS
  <2>2. Kept = k
    BY <1>3, <2>1 DEF Kept
  <2>3. ToSet(k) = ToSet(s) \cup ToSet(r)
    BY <1>1, <2>1, TwoInOne
  <2>4. ASSUME Distinct(k) PROVE Distinct(s)
    <3>1. len \in Nat /\ DOMAIN s = 1..len /\ \A i \in 1..len : i \in DOMAIN k /\ k[i] = s[i]
      BY <1>1, <2>1
    <3> QED  BY <2>4, <3>1 DEF Distinct
  <2>5. Weight(s) <= Weight(k)
    <3>1. InValues(s) \in Seq(Nat) /\ InValues(r) \in Seq(Nat) /\ InValues(k) = InValues(s) \o InValues(r)
      BY <1>1, <2>1, ValuesOf
    <3>2. Sum(InValues(s)) \in Nat /\ Sum(InValues(r)) \in Nat
          /\ Sum(InValues(k)) = Sum(InValues(s)) + Sum(InValues(r))
      BY <3>1, SumType, SumConcat
    <3> QED  BY <3>2 DEF Weight
  <2> QED  BY <2>1, <2>2, <2>3, <2>4, <2>5
<1>4. Kept \in Seq(Outs)
  BY <1>1 DEF Kept
<1> QED  BY <1>2, <1>3, <1>4

(* ... which are fixed when the file is emptied. *)
LEMMA KeptSteps ==
  ASSUME TypeOK
  PROVE  /\ WriteLine => Kept' = Kept /\ ~InMemory /\ ~InMemory'
         /\ CreateUnspent => /\ InMemory /\ ~InMemory' /\ Kept = addLines
                             /\ Kept' = addLines \o OwnLines(cur)
         /\ EndOfLines => ~InMemory /\ ~InMemory' /\ Kept = unspentTxt /\ Kept' = unspentTxt
<1>1. unspentTxt \in Seq(Outs) /\ addLines \in Seq(Outs) /\ txs \in Seq(Tx)
      /\ publ_addrs \in Seq(Addr) /\ cur \in 1..Len(txs)
  BY DEF TypeOK, cur
<1>2. unspentTxt \o <<>> = unspentTxt
  BY <1>1, Elements
<1>3. ASSUME WriteLine PROVE Kept' = Kept /\ ~InMemory /\ ~InMemory'
  <2>1. Append(unspentTxt, Head(addLines)) \o Tail(addLines) = unspentTxt \o addLines
    BY <1>1, <1>3, Elements, SMTT(40) DEF WriteLine
  <2> QED  BY <1>3, <2>1 DEF WriteLine, Kept, InMemory
<1>4. ASSUME CreateUnspent
      PROVE  /\ InMemory /\ ~InMemory' /\ Kept = addLines
             /\ Kept' = addLines \o OwnLines(cur)
  <2>1. OwnLines(cur) \in Seq(Outs)
    BY <1>1, OwnFacts
  <2>2. addLines \o OwnLines(cur) \in Seq(Outs)
    BY <1>1, <2>1
  <2>3. <<>> \o (addLines \o OwnLines(cur)) = addLines \o OwnLines(cur)
    BY <2>2, Elements
  <2> QED  BY <1>4, <2>3 DEF CreateUnspent, Kept, InMemory
<1>5. ASSUME EndOfLines PROVE ~InMemory /\ ~InMemory' /\ Kept = unspentTxt /\ Kept' = unspentTxt
  <2>1. addLines = <<>> /\ addLines' = <<>> /\ pc = "lines" /\ pc' \in {"file", "off"}
        /\ unspentTxt' = unspentTxt
    BY <1>5 DEF EndOfLines, GoOn, End, files
  <2> QED  BY <1>2, <2>1 DEF Kept, InMemory
<1> QED  BY <1>3, <1>4, <1>5

LEMMA LoadableStep ==
  ASSUME TypeOK, Ordered, Loadable, [Next]_vars
  PROVE  Loadable'
<1>0. /\ txs \in Seq(Tx) /\ publ_addrs \in Seq(Addr) /\ cur \in 1..Len(txs) /\ cur \in 1..MaxTxs
      /\ txFile \in [1..MaxTxs -> {"none", "empty", "whole"}]
      /\ fate \in [1..MaxTxs -> StepsToEnd \cup {"done"}]
  BY DEF TypeOK, cur
<1>1. CASE Quiet
  <2>1. cur' = cur /\ AnyAdded' = AnyAdded
    BY <1>1, SameTxs DEF Quiet
  <2> QED  BY <1>1, <2>1 DEF Quiet, files, Loadable, InMemory, Kept, Whole
<1>2. ASSUME NEW to \in SendTo, NEW fee \in Fees, Make(to, fee) PROVE Loadable'
  <2>1. /\ \A o \in ToSet(unspentTxt) : Whole(o)
        /\ pc' = "sign"
        /\ UNCHANGED <<unspentTxt, txFile>>
    BY <1>2, MakeFacts
  <2> QED  BY <2>1 DEF Loadable, InMemory, Whole
<1>3. CASE WriteSigned
  BY <1>3 DEF WriteSigned, GoOn, Loadable, InMemory, Whole
<1>4. CASE CreateUnspent
  <2>1. OwnLines(cur) \in Seq(Outs) /\ \A o \in ToSet(OwnLines(cur)) : o.tx = cur
    BY <1>0, OwnFacts DEF Outpoint
  <2>2. ToSet(OwnLines(cur)) # {} => AnyAdded
    <3>1. PICK s : s = OwnLines(cur)
      OBVIOUS
    <3>2. s \in Seq(Outs) /\ (Len(s) > 0 => AnyAdded)
      BY <2>1, <3>1 DEF AnyAdded
    <3>3. ToSet(s) # {} => Len(s) > 0
      BY <3>2 DEF ToSet
    <3> QED  BY <3>1, <3>2, <3>3
  <2>3. cur' = cur /\ AnyAdded' = AnyAdded
    BY <1>4, SameTxs DEF CreateUnspent
  <2>4. ToSet(Kept') = ToSet(addLines) \cup ToSet(OwnLines(cur)) /\ InMemory
    <3>1. addLines \in Seq(Outs)
      BY DEF TypeOK
    <3>2. ToSet(addLines \o OwnLines(cur)) = ToSet(addLines) \cup ToSet(OwnLines(cur))
      BY <2>1, <3>1, TwoInOne
    <3>3. Kept' = addLines \o OwnLines(cur) /\ InMemory
      BY <1>4, KeptSteps
    <3> QED  BY <3>2, <3>3
  <2>5. \A o \in ToSet(addLines) : Whole(o)
    BY <2>4 DEF Loadable, Ordered
  <2>6. txFile' = txFile /\ pc' = "lines"
    BY <1>4 DEF CreateUnspent
  <2>7. \A o \in ToSet(Kept)' : Whole(o)' \/ (o.tx = cur' /\ AnyAdded')
    BY <2>1, <2>2, <2>3, <2>4, <2>5, <2>6 DEF Whole
  <2> QED  BY <2>6, <2>7 DEF Loadable, InMemory
<1>5. CASE WriteLine
  <2>1. cur' = cur /\ AnyAdded' = AnyAdded
    BY <1>5, SameTxs DEF WriteLine
  <2>2. Kept' = Kept
    BY <1>5, KeptSteps
  <2> QED  BY <1>5, <2>1, <2>2 DEF WriteLine, Loadable, InMemory, Whole
<1>6. CASE EndOfLines
  <2>1. cur' = cur /\ AnyAdded' = AnyAdded
    BY <1>6, SameTxs DEF EndOfLines
  <2>2. Kept = unspentTxt /\ Kept' = unspentTxt /\ ~InMemory'
    BY <1>6, KeptSteps
  <2>3. \A o \in ToSet(unspentTxt) : Whole(o) \/ (o.tx = cur /\ AnyAdded)
    BY <1>6, <2>2 DEF Loadable, EndOfLines
  <2>4. unspentTxt' = unspentTxt /\ txFile' = txFile
    BY <1>6 DEF EndOfLines, files
  <2>5. pc' = IF AnyAdded THEN "file" ELSE "off"
    BY <1>6 DEF EndOfLines, GoOn, End
  <2> QED  BY <2>1, <2>2, <2>3, <2>4, <2>5 DEF Loadable, Whole
<1>7. CASE CreateTxFile
  <2>1. cur' = cur /\ AnyAdded' = AnyAdded
    BY <1>7, SameTxs DEF CreateTxFile
  <2>2. pc = "file" /\ pc' = "store" /\ txFile' = [txFile EXCEPT ![cur] = "empty"] /\ Kept' = Kept
    BY <1>7 DEF CreateTxFile, GoOn, Kept, InMemory
  <2>3. \A o \in ToSet(Kept) : Whole(o) /\ o.tx # cur => Whole(o)'
    BY <1>0, <2>2 DEF Whole
  <2>4. AnyAdded /\ \A o \in ToSet(Kept) : Whole(o) \/ o.tx = cur
    BY <2>2 DEF Loadable
  <2> QED  BY <2>1, <2>2, <2>3, <2>4 DEF Loadable, InMemory
<1>8. CASE StoreTx
  <2>1. cur' = cur
    BY <1>8, SameTxs DEF StoreTx
  <2>2. /\ pc = "store" /\ pc' = "off" /\ txFile' = [txFile EXCEPT ![cur] = "whole"]
        /\ unspentTxt' = unspentTxt /\ Kept = unspentTxt
    BY <1>8, KeptFacts DEF StoreTx, End
  <2>3. \A o \in ToSet(unspentTxt) : Whole(o)'
    BY <1>0, <2>2 DEF Whole, Loadable
  <2> QED  BY <2>2, <2>3 DEF Loadable, InMemory
<1>9. CASE CannotCreateUnspent \/ CannotCreateTxFile \/ Killed
  <2>1. cur' = cur /\ UNCHANGED <<unspentTxt, txFile>>
    BY <1>9 DEF CannotCreateUnspent, CannotCreateTxFile, Killed, files, cur
  <2>2. pc # "off" /\ pc' = "off" /\ fate' = [fate EXCEPT ![cur] = pc]
    BY <1>9 DEF CannotCreateUnspent, CannotCreateTxFile, Killed, End
  <2>3. fate'[cur] = pc
    BY <1>0, <2>2
  <2>4. CASE InMemory
    BY <2>1, <2>2, <2>4 DEF Loadable, InMemory, Whole
  <2>5. CASE ~InMemory
    <3>1. pc \in {"lines", "file", "store"}
      BY <2>2, <2>5 DEF TypeOK, Steps, InMemory
    <3>2. \A o \in ToSet(unspentTxt) : Whole(o) \/ o.tx = cur
      BY <2>5, <3>1, KeptFacts DEF Loadable
    <3> QED  BY <2>1, <2>2, <2>3, <3>1, <3>2 DEF Loadable, InMemory, Whole
  <2> QED  BY <2>4, <2>5
<1> QED  BY <1>1, <1>2, <1>3, <1>4, <1>5, <1>6, <1>7, <1>8, <1>9, StepKinds, Zenon

LEMMA NotYetSignedStep ==
  ASSUME TypeOK, NotYetSigned, [Next]_vars
  PROVE  NotYetSigned'
<1>0. /\ cur \in 1..MaxTxs /\ cur \in Nat /\ signed \subseteq 1..cur
      /\ fate \in [1..MaxTxs -> StepsToEnd \cup {"done"}] /\ Made = 2..cur
  BY DEF TypeOK, cur, Made
<1>1. ASSUME UNCHANGED <<txs, signed>>, pc' # "sign" \/ pc = "sign",
             fate' = fate \/ fate' = [fate EXCEPT ![cur] = "done"]
                          \/ (pc # "off" /\ fate' = [fate EXCEPT ![cur] = pc])
      PROVE  NotYetSigned'
  <2>1. cur' = cur /\ Made' = Made
    BY <1>1 DEF cur, Made
  <2>2. ASSUME NEW t \in Made, fate'[t] = "sign" PROVE t \notin signed
    <3>1. CASE fate[t] = "sign"
      BY <3>1 DEF NotYetSigned
    <3>2. CASE fate[t] # "sign"
      <4>1. t \in 1..MaxTxs
        BY <1>0, WalletAssumption
      <4>2. t # cur => fate'[t] = fate[t]
        BY <1>0, <1>1, <4>1
      <4>3. t = cur => fate'[t] \in {fate[t], "done", pc}
        BY <1>0, <1>1
      <4>4. t = cur /\ pc = "sign"
        BY <2>2, <3>2, <4>2, <4>3
      <4> QED  BY <4>4 DEF NotYetSigned
    <3> QED  BY <3>1, <3>2
  <2>3. pc' = "sign" => cur \notin signed
    BY <1>1 DEF NotYetSigned
  <2> QED  BY <1>1, <2>1, <2>2, <2>3 DEF NotYetSigned
<1>2. ASSUME NEW to \in SendTo, NEW fee \in Fees, Make(to, fee) PROVE NotYetSigned'
  <2>1. PICK tx \in Tx :
           /\ txs' = Append(txs, tx) /\ pc' = "sign"
           /\ UNCHANGED <<signed, fate>>
    BY <1>2, MakeFacts
  <2>2. cur' = cur + 1 /\ Made' = 2..cur'
    <3>1. txs \in Seq(Tx)
      BY DEF TypeOK
    <3> QED  BY <2>1, <3>1 DEF cur, Made
  <2>3. cur' \notin signed
    BY <1>0, <2>2
  <2>4. \A t \in Made' : t \in Made \/ t = cur'
    BY <1>0, <2>2
  <2> QED  BY <2>1, <2>3, <2>4 DEF NotYetSigned
<1>3. CASE WriteSigned
  <2>1. /\ pc = "sign" /\ pc' = "list" /\ signed' \subseteq signed \cup {cur}
        /\ UNCHANGED <<txs, fate>>
    BY <1>3 DEF WriteSigned, GoOn
  <2>2. fate[cur] = "done" /\ Made' = Made
    BY <2>1 DEF TypeOK, Made
  <2>3. \A t \in Made : fate[t] = "sign" => t # cur /\ t \notin signed
    BY <2>2 DEF NotYetSigned
  <2> QED  BY <2>1, <2>2, <2>3 DEF NotYetSigned
<1>4. CASE Quiet
  BY <1>1, <1>4 DEF Quiet, files
<1>5. CASE CreateUnspent \/ WriteLine \/ CreateTxFile
  BY <1>1, <1>5 DEF CreateUnspent, WriteLine, CreateTxFile, GoOn
<1>6. CASE EndOfLines \/ StoreTx
  BY <1>1, <1>6 DEF EndOfLines, StoreTx, GoOn, End, files
<1>7. CASE CannotCreateUnspent \/ CannotCreateTxFile \/ Killed
  BY <1>1, <1>7 DEF CannotCreateUnspent, CannotCreateTxFile, Killed, End, files
<1> QED  BY <1>2, <1>3, <1>4, <1>5, <1>6, <1>7, StepKinds, Zenon

(* Only the fate of the transaction of this run changes, when it ends. *)
LEMMA FateSteps ==
  ASSUME TypeOK, [Next]_vars
  PROVE  \A t \in 1..MaxTxs : t # cur => fate'[t] = fate[t]
<1>1. CASE Quiet
  BY <1>1 DEF Quiet
<1>2. ASSUME NEW to \in SendTo, NEW fee \in Fees, Make(to, fee) PROVE fate' = fate
  BY <1>2, MakeFacts
<1>3. CASE WriteSigned \/ CreateUnspent \/ WriteLine \/ CreateTxFile
  BY <1>3 DEF WriteSigned, CreateUnspent, WriteLine, CreateTxFile, GoOn
<1>4. CASE EndOfLines \/ StoreTx \/ CannotCreateUnspent \/ CannotCreateTxFile \/ Killed
  <2>1. fate \in [1..MaxTxs -> StepsToEnd \cup {"done"}]
    BY DEF TypeOK
  <2>2. fate' = fate \/ \E step : fate' = [fate EXCEPT ![cur] = step]
    BY <1>4 DEF EndOfLines, StoreTx, CannotCreateUnspent, CannotCreateTxFile, Killed, GoOn, End
  <2> QED  BY <2>1, <2>2
<1> QED  BY <1>1, <1>2, <1>3, <1>4, StepKinds, Zenon

(* A run that ends early leaves what it has written of the file. *)
LEMMA Ending ==
  ASSUME TypeOK, CannotCreateUnspent \/ CannotCreateTxFile \/ Killed
  PROVE  /\ UNCHANGED <<publ_addrs, txs, unspentTxt, txFile, signed>>
         /\ pc # "off" /\ pc' = "off" /\ fate' = [fate EXCEPT ![cur] = pc] /\ fate'[cur] = pc
         /\ Kept' = unspentTxt /\ ~InMemory' /\ cur \in Made
<1>1. /\ UNCHANGED <<publ_addrs, txs, unspentTxt, txFile, signed>>
      /\ pc # "off" /\ pc' = "off" /\ fate' = [fate EXCEPT ![cur] = pc] /\ addLines' = <<>>
  BY DEF CannotCreateUnspent, CannotCreateTxFile, Killed, End, files
<1>2. cur \in 1..MaxTxs /\ fate \in [1..MaxTxs -> StepsToEnd \cup {"done"}] /\ cur \in Made
  BY <1>1 DEF TypeOK, cur
<1>3. unspentTxt \o <<>> = unspentTxt
  BY Elements DEF TypeOK
<1>4. Kept' = unspentTxt /\ ~InMemory'
  BY <1>1, <1>3 DEF Kept, InMemory
<1> QED  BY <1>1, <1>2, <1>4

LEMMA SpentOnceStep ==
  ASSUME TypeOK, TypeOK', Ordered, SpentOnce, DistinctKeys, [Next]_vars
  PROVE  SpentOnce'
<1>0. /\ txs \in Seq(Tx) /\ publ_addrs \in Seq(Addr) /\ cur \in 1..Len(txs) /\ cur \in Nat
      /\ cur \in 1..MaxTxs /\ Made = 2..cur /\ unspentTxt \in Seq(Outs) /\ addLines \in Seq(Outs)
      /\ \A t \in Made : t \in 1..MaxTxs /\ t <= cur /\ (t # cur => t < cur)
  BY WalletAssumption DEF TypeOK, cur, Made
<1>1. \A t \in Made : t # cur => fate'[t] = fate[t]
  BY <1>0, FateSteps
<1> DEFINE Apart(t) == Spends(t) \cap (ToSet(Kept) \cup ToSet(unspentTxt)) = {}
<1>2. ASSUME UNCHANGED <<publ_addrs, txs>>,
             Distinct(Kept)', Distinct(unspentTxt)',
             \A t \in Made : Emptied(t)' => Apart(t)',
             InMemory' => Spends(cur) \cap ToSet(Kept') = {}
      PROVE  SpentOnce'
  <2>1. /\ cur' = cur /\ Made' = Made /\ (\A o : Mine(o)' = Mine(o)) /\ (\A t : Spends(t)' = Spends(t))
    BY <1>2, SameTxs
  <2>2. \A t \in Made : Distinct(txs[t].ins) /\ \A o \in Spends(t) : Mine(o)
    BY DEF SpentOnce
  <2>3. ASSUME NEW t \in Made, NEW u \in Made, t < u, Spends(t) \cap Spends(u) # {}
        PROVE  fate'[t] \in {"sign", "list"}
    <3>1. fate[t] \in {"sign", "list"}
      BY <2>3 DEF SpentOnce
    <3>2. t # cur
      BY <1>0, <2>3
    <3> QED  BY <1>1, <3>1, <3>2
  <2>4. \A t \in Made : Distinct(txs[t].ins)'
    BY <1>2, <2>2 DEF Distinct
  <2> QED  BY <1>2, <2>1, <2>2, <2>3, <2>4 DEF SpentOnce
(* Out of a run, or after the file is emptied, it is enough to look at the lines kept. *)
<1>3. ASSUME UNCHANGED <<publ_addrs, txs>>, ~InMemory', Distinct(Kept'),
             \A t \in Made : Emptied(t)' => Spends(t) \cap ToSet(Kept') = {}
      PROVE  SpentOnce'
  <2>1. ToSet(unspentTxt') \subseteq ToSet(Kept') /\ (Distinct(Kept') => Distinct(unspentTxt'))
    <3>1. (ToSet(unspentTxt) \subseteq ToSet(Kept))' /\ (Distinct(Kept) => Distinct(unspentTxt))'
      BY <1>3, KeptFacts, PTL
    <3> QED  BY <3>1 DEF Distinct
  <2>2. Distinct(Kept)' /\ Distinct(unspentTxt)'
    BY <1>3, <2>1 DEF Distinct
  <2>3. \A t : Spends(t)' = Spends(t)
    BY <1>3, SameTxs
  <2> QED  BY <1>2, <1>3, <2>1, <2>2, <2>3
<1>4. CASE Quiet
  <2>1. UNCHANGED <<publ_addrs, txs, pc, addLines, unspentTxt, fate>>
    BY <1>4 DEF Quiet, files
  <2>2. cur' = cur /\ Kept' = Kept /\ InMemory' = InMemory /\ \A t : Spends(t)' = Spends(t)
    BY <2>1, SameTxs DEF Kept, InMemory
  <2>3. \A t : Emptied(t)' = Emptied(t)
    BY <2>1, <2>2 DEF Emptied
  <2> QED  BY <1>2, <2>1, <2>2, <2>3 DEF SpentOnce, Distinct
<1>5. ASSUME NEW to \in SendTo, NEW fee \in Fees, Make(to, fee) PROVE SpentOnce'
  <2>1. PICK tx \in Tx :
           /\ txs' = Append(txs, tx)
           /\ tx.ins \in Seq(Outs) /\ addLines' \in Seq(Outs)
           /\ ToSet(tx.ins) \cup ToSet(addLines') = OwnOf(ToSet(unspentTxt))
           /\ Distinct(unspentTxt) => /\ Distinct(tx.ins) /\ Distinct(addLines')
                                      /\ ToSet(tx.ins) \cap ToSet(addLines') = {}
           /\ pc = "off" /\ pc' = "sign"
           /\ UNCHANGED <<publ_addrs, unspentTxt, fate>>
    BY <1>5, MakeFacts
  <2>2. /\ cur' = cur + 1
        /\ \A t \in 1..cur : txs'[t] = txs[t] /\ Spends(t)' = Spends(t)
        /\ txs'[cur + 1] = tx
        /\ \A o \in Outs : Mine(o)' = Mine(o)
    BY <1>0, <2>1, OneMoreTx
  <2>3. Made' = Made \cup {cur'} /\ \A t \in Made : t \in 1..cur
    <3>1. Made' = 2..cur'
      BY DEF Made, cur
    <3> QED  BY <1>0, <2>2, <3>1
  <2>4. Kept' = addLines' /\ ~InMemory /\ InMemory'
    BY <2>1 DEF Kept, InMemory
  <2>5. Distinct(Kept)' /\ Distinct(unspentTxt)'
    BY <2>1, <2>4 DEF SpentOnce, Distinct
  <2>6. Spends(cur)' = ToSet(tx.ins) /\ \A t : t = cur' => Spends(t)' = ToSet(tx.ins) /\ txs'[t] = tx
    BY <2>2 DEF Spends
  <2>7. ASSUME NEW t \in Made' PROVE Distinct(txs[t].ins)' /\ \A o \in Spends(t)' : Mine(o)'
    <3>1. CASE t \in Made
      <4>1. txs'[t] = txs[t] /\ Spends(t)' = Spends(t)
        BY <2>2, <2>3, <3>1
      <4>2. Spends(t) \subseteq Outs
        <5>1. txs[t].ins \in Seq(Outs)
          BY <3>1 DEF Ordered
        <5> QED  BY <5>1, Elements DEF Spends
      <4>3. Distinct(txs[t].ins) /\ \A o \in Spends(t) : Mine(o)
        BY <3>1 DEF SpentOnce
      <4> QED  BY <2>2, <4>1, <4>2, <4>3 DEF Distinct
    <3>2. CASE t = cur'
      <4>1. ToSet(tx.ins) \subseteq Outs
        BY <2>1, Elements
      <4>2. \A o \in ToSet(tx.ins) : Mine(o)
        BY <2>1 DEF OwnOf
      <4>3. Distinct(tx.ins)
        BY <2>1 DEF SpentOnce
      <4> QED  BY <2>2, <2>6, <3>2, <4>1, <4>2, <4>3 DEF Distinct
    <3> QED  BY <2>3, <3>1, <3>2
  <2>8. \A t \in Made : fate[t] \notin {"sign", "list"} => Spends(t) \cap ToSet(unspentTxt) = {}
    BY <2>4 DEF SpentOnce, Emptied
  <2>9. ToSet(addLines') \subseteq ToSet(unspentTxt) /\ ToSet(tx.ins) \subseteq ToSet(unspentTxt)
    BY <2>1 DEF OwnOf
  <2>10. ASSUME NEW t \in Made', Emptied(t)' PROVE (Spends(t) \cap (ToSet(Kept) \cup ToSet(unspentTxt)))' = {}
    <3>1. t # cur' /\ fate[t] \notin {"sign", "list"}
      BY <2>1, <2>4, <2>10 DEF Emptied
    <3>2. t \in Made /\ Spends(t)' = Spends(t)
      BY <2>2, <2>3, <3>1
    <3> QED  BY <2>1, <2>4, <2>8, <2>9, <3>1, <3>2
  <2>11. Spends(cur)' \cap ToSet(Kept') = {}
    BY <2>1, <2>4, <2>6 DEF SpentOnce
  <2>12. ASSUME NEW t \in Made', NEW u \in Made', t < u, Spends(t)' \cap Spends(u)' # {}
         PROVE  fate'[t] \in {"sign", "list"}
    <3>1. t \in Made /\ Spends(t)' = Spends(t)
      BY <1>0, <2>2, <2>3, <2>12
    <3>2. CASE u \in Made
      BY <2>1, <2>2, <2>3, <2>12, <3>1, <3>2 DEF SpentOnce
    <3>3. CASE u = cur'
      BY <2>1, <2>6, <2>8, <2>9, <2>12, <3>1, <3>3
    <3> QED  BY <2>3, <3>2, <3>3
  <2> QED  BY <2>5, <2>7, <2>10, <2>11, <2>12 DEF SpentOnce
<1>6. CASE WriteSigned
  <2>1. /\ UNCHANGED <<publ_addrs, txs, addLines, unspentTxt, fate>> /\ pc = "sign" /\ pc' = "list"
    BY <1>6 DEF WriteSigned, GoOn
  <2>2. cur' = cur /\ Kept' = Kept /\ InMemory' = InMemory /\ \A t : Spends(t)' = Spends(t)
    BY <2>1, SameTxs DEF Kept, InMemory
  <2>3. \A t : Emptied(t)' = Emptied(t)
    BY <2>1, <2>2 DEF Emptied
  <2> QED  BY <1>2, <2>1, <2>2, <2>3 DEF SpentOnce, Distinct
<1>7. CASE CreateUnspent
  <2>1. InMemory /\ ~InMemory' /\ Kept = addLines /\ Kept' = addLines \o OwnLines(cur)
    BY <1>7, KeptSteps
  <2>2. UNCHANGED <<publ_addrs, txs, fate>>
    BY <1>7 DEF CreateUnspent
  <2>3. /\ OwnLines(cur) \in Seq(Outs) /\ Distinct(OwnLines(cur))
        /\ \A o \in ToSet(OwnLines(cur)) : o.tx = cur
    BY <1>0, OwnFacts DEF Outpoint
  <2>4. \A o \in ToSet(addLines) : o.tx < cur
    BY <2>1 DEF Ordered
  <2>5. ToSet(addLines) \cap ToSet(OwnLines(cur)) = {}
    BY <1>0, <2>3, <2>4, SMTT(40)
  <2>6. Distinct(Kept') /\ ToSet(Kept') = ToSet(addLines) \cup ToSet(OwnLines(cur))
    <3>1. Distinct(addLines)
      BY <2>1 DEF SpentOnce
    <3> QED  BY <1>0, <2>1, <2>3, <2>5, <3>1, TwoInOne
  <2>7. ASSUME NEW t \in Made, Emptied(t)' PROVE Spends(t) \cap ToSet(Kept') = {}
    <3>1. Spends(t) \cap ToSet(OwnLines(cur)) = {}
      <4>1. \A o \in Spends(t) : o.tx < t
        BY DEF Ordered
      <4>2. \A o \in Spends(t) : o.tx # cur
        BY <1>0, <4>1
      <4> QED  BY <2>3, <4>2
    <3>2. Spends(t) \cap ToSet(addLines) = {}
      <4>1. CASE t = cur
        BY <2>1, <4>1 DEF SpentOnce
      <4>2. CASE t # cur
        BY <2>1, <2>2, <2>7, <4>2 DEF SpentOnce, Emptied
      <4> QED  BY <4>1, <4>2
    <3> QED  BY <2>6, <3>1, <3>2
  <2> QED  BY <1>3, <2>1, <2>2, <2>6, <2>7
<1>8. CASE WriteLine
  <2>1. UNCHANGED <<publ_addrs, txs, fate>>
    BY <1>8 DEF WriteLine
  <2>2. Kept' = Kept /\ ~InMemory /\ ~InMemory'
    BY <1>8, KeptSteps
  <2> QED  BY <1>3, <2>1, <2>2 DEF SpentOnce, Emptied
<1>9. CASE EndOfLines \/ CreateTxFile \/ StoreTx
  <2>1. /\ UNCHANGED <<publ_addrs, txs, unspentTxt>> /\ pc \in {"lines", "file", "store"}
        /\ pc' \in {"off", "file", "store"}
        /\ fate' = fate \/ fate' = [fate EXCEPT ![cur] = "done"]
    BY <1>9 DEF EndOfLines, CreateTxFile, StoreTx, GoOn, End, files
  <2>2. Kept' = Kept /\ ~InMemory /\ ~InMemory'
    <3>1. CASE EndOfLines
      BY <3>1, KeptSteps
    <3>2. CASE CreateTxFile \/ StoreTx
      <4>1. pc \in {"file", "store"} /\ addLines' = <<>> /\ addLines = <<>>
        BY <3>2 DEF CreateTxFile, StoreTx, GoOn, End, TypeOK
      <4> QED  BY <2>1, <4>1 DEF Kept, InMemory
    <3> QED  BY <1>9, <3>1, <3>2
  <2>3. \A t \in Made : Emptied(t)' => Emptied(t)
    <3>1. fate[cur] \notin {"sign", "list"}
      BY <2>1 DEF TypeOK
    <3> QED  BY <1>1, <2>2, <3>1 DEF Emptied
  <2> QED  BY <1>3, <2>1, <2>2, <2>3 DEF SpentOnce
<1>10. CASE CannotCreateUnspent \/ CannotCreateTxFile \/ Killed
  <2>1. /\ UNCHANGED <<publ_addrs, txs, unspentTxt>>
        /\ pc # "off" /\ fate'[cur] = pc /\ Kept' = unspentTxt /\ ~InMemory'
    BY <1>10, Ending
  <2>2. ASSUME NEW t \in Made, Emptied(t)' PROVE Emptied(t)
    <3>1. CASE t = cur
      <4>1. ~InMemory /\ fate[cur] = "done"
        BY <2>1, <2>2, <3>1 DEF Emptied, InMemory, TypeOK
      <4> QED  BY <3>1, <4>1 DEF Emptied
    <3>2. CASE t # cur
      BY <1>1, <2>2, <3>2 DEF Emptied
    <3> QED  BY <3>1, <3>2
  <2> QED  BY <1>3, <2>1, <2>2 DEF SpentOnce
<1> QED  BY <1>4, <1>5, <1>6, <1>7, <1>8, <1>9, <1>10, StepKinds, Zenon

(* What the wallet has after a transaction: what it does not spend, and    *)
(* what it pays to the wallet itself.                                      *)
LEMMA AvailAfter ==
  ASSUME TypeOK, Ordered, cur \in Made
  PROVE  /\ ToSet(OwnLines(cur)) = Own(cur)
         /\ Avail(cur) = (Avail(cur - 1) \ Spends(cur)) \cup Own(cur)
         /\ \A o \in Avail(cur) : Mine(o)
<1>0. /\ txs \in Seq(Tx) /\ publ_addrs \in Seq(Addr) /\ cur \in 1..Len(txs) /\ cur \in Nat
      /\ cur > 1 /\ Made = 2..cur
  BY DEF TypeOK, cur, Made
<1>1. ToSet(OwnLines(cur)) = Own(cur)
  <2>1. ToSet(OwnLines(cur)) = {Outpoint(cur, n) : n \in {m \in 1..Len(txs[cur].outs) :
                                                            Owns(txs[cur].outs[m].addr)}}
    BY <1>0, OwnFacts
  <2>2. DOMAIN txs[cur].outs = 1..Len(txs[cur].outs)
    BY <1>0, TxFields
  <2>3. \A n : Mine(Outpoint(cur, n)) = Owns(txs[cur].outs[n].addr)
    BY DEF Mine, UO, Outpoint
  <2> QED  BY <2>1, <2>2, <2>3 DEF Own
<1>2. \A t \in 1..cur : \A o \in Own(t) : o.tx = t /\ Mine(o)
  BY DEF Own, Outpoint
<1>3. \A t \in Made : \A o \in Spends(t) : o.tx < t
  BY DEF Ordered
<1>4. ASSUME NEW t \in 2..cur, NEW o \in Own(cur) PROVE o \notin Spends(t)
  <2>1. t \in Made /\ t <= cur /\ o.tx = cur
    BY <1>0, <1>2
  <2>2. o \in Spends(t) => cur < t
    BY <1>3, <2>1
  <2> QED  BY <1>0, <2>1, <2>2
<1>5. 1..cur = (1..(cur - 1)) \cup {cur} /\ 2..cur = (2..(cur - 1)) \cup {cur}
  BY <1>0
<1>6. Avail(cur) = (Avail(cur - 1) \ Spends(cur)) \cup Own(cur)
  <2>1. UNION {Own(t) : t \in 1..cur} = (UNION {Own(t) : t \in 1..(cur - 1)}) \cup Own(cur)
    BY <1>5
  <2>2. UNION {Spends(t) : t \in 2..cur} = (UNION {Spends(t) : t \in 2..(cur - 1)}) \cup Spends(cur)
    BY <1>5
  <2>3. Own(cur) \cap (UNION {Spends(t) : t \in 2..cur}) = {}
    BY <1>4
  <2> QED  BY <2>1, <2>2, <2>3 DEF Avail
<1>7. \A o \in Avail(cur) : Mine(o)
  <2>1. \A o \in Avail(cur) : \E t \in 1..cur : o \in Own(t)
    BY DEF Avail
  <2> QED  BY <1>2, <2>1
<1> QED  BY <1>1, <1>6, <1>7

LEMMA CompleteStep ==
  ASSUME TypeOK, Ordered, SpentOnce, Complete, [Next]_vars
  PROVE  Complete'
<1>0. /\ txs \in Seq(Tx) /\ cur \in 1..Len(txs) /\ cur \in Nat /\ cur \in 1..MaxTxs
      /\ Made = 2..cur /\ unspentTxt \in Seq(Outs)
      /\ \A t \in Made : t \in 1..MaxTxs
  BY WalletAssumption DEF TypeOK, cur, Made
<1> DEFINE AllDone == \A t \in Made : fate[t] = "done"
(* Steps in which no transaction is made and none is given up. *)
<1>1. ASSUME UNCHANGED <<publ_addrs, txs>>, pc # "off" \/ fate' = fate,
             AllDone => /\ InMemory' => /\ OwnOf(ToSet(unspentTxt')) = Avail(cur - 1)
                                        /\ ToSet(addLines') = Avail(cur - 1) \ Spends(cur)
                        /\ ~InMemory' => OwnOf(ToSet(Kept')) = Avail(cur)
      PROVE  Complete'
  <2>1. /\ cur' = cur /\ Made' = Made /\ (\A s : OwnOf(s)' = OwnOf(s))
        /\ (\A t : Spends(t)' = Spends(t)) /\ (\A n : Avail(n)' = Avail(n))
    BY <1>1, SameTxs
  <2>2. \A t \in Made : t # cur => fate'[t] = fate[t]
    BY <1>0, FateSteps
  <2>3. pc # "off" => fate[cur] = "done"
    BY DEF TypeOK
  <2>4. AllDone' => AllDone
    BY <1>1, <2>1, <2>2, <2>3
  <2> QED  BY <1>1, <2>1, <2>4 DEF Complete
<1>2. CASE Quiet
  <2>1. UNCHANGED <<publ_addrs, txs, pc, addLines, unspentTxt, fate>>
    BY <1>2 DEF Quiet, files
  <2>2. Kept' = Kept /\ InMemory' = InMemory
    BY <2>1 DEF Kept, InMemory
  <2> QED  BY <1>1, <2>1, <2>2 DEF Complete
<1>3. ASSUME NEW to \in SendTo, NEW fee \in Fees, Make(to, fee) PROVE Complete'
  <2>1. PICK tx \in Tx :
           /\ txs' = Append(txs, tx)
           /\ tx.ins \in Seq(Outs) /\ addLines' \in Seq(Outs)
           /\ ToSet(tx.ins) \cup ToSet(addLines') = OwnOf(ToSet(unspentTxt))
           /\ Distinct(unspentTxt) => ToSet(tx.ins) \cap ToSet(addLines') = {}
           /\ pc = "off" /\ pc' = "sign"
           /\ UNCHANGED <<publ_addrs, unspentTxt, fate>>
    BY <1>3, MakeFacts
  <2>2. /\ cur' = cur + 1
        /\ \A t \in 1..cur : Own(t)' = Own(t) /\ Spends(t)' = Spends(t)
        /\ txs'[cur + 1] = tx
        /\ \A o \in Outs : Mine(o)' = Mine(o)
    BY <1>0, <2>1, OneMoreTx
  <2>3. Made' = Made \cup {cur'} /\ cur' - 1 = cur
    <3>1. Made' = 2..cur'
      BY DEF Made, cur
    <3> QED  BY <1>0, <2>2, <3>1
  <2>4. InMemory' /\ Kept = unspentTxt /\ ~InMemory
    BY <2>1, KeptFacts DEF InMemory
  <2>5. SUFFICES ASSUME AllDone'
                 PROVE  /\ OwnOf(ToSet(unspentTxt))' = Avail(cur - 1)'
                        /\ ToSet(addLines)' = (Avail(cur - 1) \ Spends(cur))'
    BY <2>4 DEF Complete
  <2>6. AllDone
    BY <2>1, <2>3, <2>5
  <2>7. OwnOf(ToSet(unspentTxt)) = Avail(cur)
    BY <2>4, <2>6 DEF Complete
  <2>8. OwnOf(ToSet(unspentTxt))' = OwnOf(ToSet(unspentTxt))
    <3>1. ToSet(unspentTxt) \subseteq Outs
      BY <1>0, Elements
    <3> QED  BY <2>1, <2>2, <3>1 DEF OwnOf
  <2>9. Avail(cur - 1)' = Avail(cur)
    <3>1. UNION {Own(t)' : t \in 1..cur} = UNION {Own(t) : t \in 1..cur}
      BY <2>2
    <3>2. \A t \in 2..cur : t \in 1..cur
      BY <1>0
    <3>3. UNION {Spends(t)' : t \in 2..cur} = UNION {Spends(t) : t \in 2..cur}
      BY <2>2, <3>2
    <3> QED  BY <2>3, <3>1, <3>3 DEF Avail
  <2>10. Spends(cur)' = ToSet(tx.ins)
    BY <2>2 DEF Spends
  <2>11. ToSet(addLines') = OwnOf(ToSet(unspentTxt)) \ ToSet(tx.ins)
    BY <2>1 DEF SpentOnce
  <2> QED  BY <2>7, <2>8, <2>9, <2>10, <2>11
<1>4. CASE WriteSigned
  <2>1. /\ UNCHANGED <<publ_addrs, txs, addLines, unspentTxt, fate>> /\ pc = "sign" /\ pc' = "list"
    BY <1>4 DEF WriteSigned, GoOn
  <2>2. Kept' = Kept /\ InMemory' /\ InMemory
    BY <2>1 DEF Kept, InMemory
  <2> QED  BY <1>1, <2>1, <2>2 DEF Complete
<1>5. CASE CreateUnspent
  <2>1. InMemory /\ ~InMemory' /\ Kept = addLines /\ Kept' = addLines \o OwnLines(cur)
    BY <1>5, KeptSteps
  <2>2. UNCHANGED <<publ_addrs, txs, fate>>
    BY <1>5 DEF CreateUnspent
  <2>3. cur \in Made
    BY <2>1 DEF TypeOK, InMemory
  <2>4. ToSet(Kept') = ToSet(addLines) \cup ToSet(OwnLines(cur))
    <3>1. OwnLines(cur) \in Seq(Outs) /\ addLines \in Seq(Outs)
      BY <1>0, OwnFacts DEF TypeOK
    <3> QED  BY <2>1, <3>1, TwoInOne
  <2>5. AllDone => OwnOf(ToSet(Kept')) = Avail(cur)
    <3>1. AllDone => ToSet(Kept') = Avail(cur)
      BY <2>1, <2>3, <2>4, AvailAfter DEF Complete
    <3> QED  BY <2>3, <3>1, AvailAfter DEF OwnOf
  <2> QED  BY <1>1, <2>1, <2>2, <2>5
<1>6. CASE WriteLine
  <2>1. UNCHANGED <<publ_addrs, txs, fate>>
    BY <1>6 DEF WriteLine
  <2>2. Kept' = Kept /\ ~InMemory /\ ~InMemory'
    BY <1>6, KeptSteps
  <2> QED  BY <1>1, <2>1, <2>2 DEF Complete
<1>7. CASE EndOfLines \/ CreateTxFile \/ StoreTx
  <2>1. UNCHANGED <<publ_addrs, txs>> /\ pc # "off"
    BY <1>7 DEF EndOfLines, CreateTxFile, StoreTx
  <2>2. Kept' = Kept /\ ~InMemory /\ ~InMemory'
    <3>1. CASE EndOfLines
      BY <3>1, KeptSteps
    <3>2. CASE CreateTxFile \/ StoreTx
      <4>1. /\ pc \in {"file", "store"} /\ addLines' = <<>> /\ addLines = <<>>
            /\ unspentTxt' = unspentTxt /\ pc' \in {"off", "store"}
        BY <3>2 DEF CreateTxFile, StoreTx, GoOn, End, TypeOK
      <4> QED  BY <4>1 DEF Kept, InMemory
    <3> QED  BY <1>7, <3>1, <3>2
  <2> QED  BY <1>1, <2>1, <2>2 DEF Complete
<1>8. CASE CannotCreateUnspent \/ CannotCreateTxFile \/ Killed
  <2>1. UNCHANGED <<publ_addrs, txs>> /\ pc # "off" /\ fate'[cur] = pc /\ cur \in Made
    BY <1>8, Ending
  <2>2. pc # "done" /\ Made' = Made
    BY <2>1, SameTxs DEF TypeOK, Steps
  <2>3. ~AllDone'
    BY <2>1, <2>2
  <2> QED  BY <2>3 DEF Complete
<1> QED  BY <1>2, <1>3, <1>4, <1>5, <1>6, <1>7, <1>8, StepKinds, Zenon

LEMMA ConservedStep ==
  ASSUME TypeOK, TypeOK', Ordered, Conserved, DistinctKeys, [Next]_vars
  PROVE  Conserved'
<1>0. /\ txs \in Seq(Tx) /\ publ_addrs \in Seq(Addr) /\ cur \in 1..Len(txs) /\ cur \in Nat
      /\ Made = 2..cur /\ unspentTxt \in Seq(Outs) /\ addLines \in Seq(Outs)
  BY DEF TypeOK, cur, Made
<1>1. \A s \in Seq(Outs) : Weight(s) \in Nat
  <2> TAKE s \in Seq(Outs)
  <2>1. InValues(s) \in Seq(Nat)
    BY <1>0, ValuesOf
  <2> QED  BY <2>1, SumType DEF Weight
<1>2. Total \in Nat /\ Total < Word /\ Word \in Nat
  <2>1. FundingOuts \in Seq(Payment)
    BY WalletAssumption DEF Payment
  <2>2. Sum(Values(FundingOuts)) \in Nat
    BY <2>1, Amounts
  <2> QED  BY <2>2, MoneyAssumption, WalletAssumption DEF Total
<1>3. \A s, u \in Seq(Outs) : Weight(s \o u) = Weight(s) + Weight(u)
  <2> TAKE s, u \in Seq(Outs)
  <2>1. InValues(s) \in Seq(Nat) /\ InValues(u) \in Seq(Nat)
        /\ InValues(s \o u) = InValues(s) \o InValues(u)
    BY <1>0, ValuesOf
  <2> QED  BY <2>1, SumConcat DEF Weight
(* Steps in which no transaction is made, ... *)
<1>4. ASSUME UNCHANGED <<publ_addrs, txs>>,
             NoWrap(cur) =>
               /\ Weight(unspentTxt') <= Total
               /\ InMemory' => Weight(Kept') + Sum(Values(txs[cur].outs)) <= Total
               /\ ~InMemory' => Weight(Kept') <= Total
      PROVE  Conserved'
  <2>1. /\ cur' = cur /\ Made' = Made /\ (\A s : Weight(s)' = Weight(s))
        /\ (\A t : NoWrap(t)' = NoWrap(t) /\ Balanced(t)' = Balanced(t))
    BY <1>4, SameTxs
  <2>2. \A t \in Made : NoWrap(t) => Balanced(t)
    BY DEF Conserved
  <2>3. Total' = Total /\ (Sum(Values(txs[cur].outs)))' = Sum(Values(txs[cur].outs))
    BY <1>4, <2>1 DEF Total
  <2> QED  BY <1>4, <2>1, <2>2, <2>3 DEF Conserved
(* ... and which leave no lines in memory. *)
<1>5. ASSUME UNCHANGED <<publ_addrs, txs>>, ~InMemory', NoWrap(cur) => Weight(Kept') <= Total
      PROVE  Conserved'
  <2>1. Weight(unspentTxt') <= Weight(Kept') /\ Kept' \in Seq(Outs) /\ unspentTxt' \in Seq(Outs)
    <3>1. (Kept \in Seq(Outs) /\ (~InMemory => Weight(unspentTxt) <= Weight(Kept)))'
      BY KeptFacts, PTL
    <3>2. Outs' = Outs /\ \A s : Weight(s)' = Weight(s)
      BY <1>5, SameTxs
    <3> QED  BY <1>5, <3>1, <3>2 DEF TypeOK
  <2>2. Weight(unspentTxt') \in Nat /\ Weight(Kept') \in Nat
    BY <1>1, <2>1
  <2>3. NoWrap(cur) => Weight(unspentTxt') <= Total
    BY <1>2, <1>5, <2>1, <2>2
  <2> QED  BY <1>4, <1>5, <2>3
<1>6. CASE Quiet
  <2>1. UNCHANGED <<publ_addrs, txs, pc, addLines, unspentTxt>>
    BY <1>6 DEF Quiet, files
  <2>2. Kept' = Kept /\ InMemory' = InMemory
    BY <2>1 DEF Kept, InMemory
  <2> QED  BY <1>4, <2>1, <2>2 DEF Conserved
<1>7. ASSUME NEW to \in SendTo, NEW fee \in Fees, Make(to, fee) PROVE Conserved'
  <2>1. PICK tx \in Tx :
           /\ txs' = Append(txs, tx)
           /\ tx.ins \in Seq(Outs) /\ addLines' \in Seq(Outs)
           /\ unspentOuts = tx.ins \o addLines'
           /\ Weight(unspentOuts) < Word /\ tx.asked < Word =>
                 Weight(tx.ins) = Sum(Values(tx.outs)) + tx.fee
           /\ pc = "off" /\ pc' = "sign"
           /\ UNCHANGED <<publ_addrs, unspentTxt>>
    BY <1>7, MakeFacts
  <2>2. /\ cur' = cur + 1
        /\ \A t \in 1..cur : txs'[t] = txs[t]
        /\ txs'[cur + 1] = tx
        /\ \A s \in Seq(Outs) : Weight(s)' = Weight(s)
    BY <1>0, <2>1, OneMoreTx
  <2>3. Made' = Made \cup {cur'} /\ \A t \in Made : t \in 1..cur
    <3>1. Made' = 2..cur'
      BY DEF Made, cur
    <3> QED  BY <1>0, <2>2, <3>1
  <2>4. Kept' = addLines' /\ InMemory' /\ ~InMemory
    BY <2>1 DEF Kept, InMemory
  <2>5. \A t \in 1..cur : NoWrap(t)' => NoWrap(t)
    <3> SUFFICES ASSUME NEW t \in 1..cur, NoWrap(t)' PROVE NoWrap(t)
      OBVIOUS
    <3>1. \A u \in 2..t : u \in 1..cur
      BY <1>0
    <3> QED  BY <2>2, <3>1 DEF NoWrap
  <2>6. \A t : t = cur' /\ NoWrap(t)' => NoWrap(cur) /\ tx.asked < Word
    <3> SUFFICES ASSUME NEW t, t = cur + 1, NoWrap(t)' PROVE NoWrap(cur) /\ tx.asked < Word
      BY <2>2
    <3>1. t \in 2..t /\ \A u \in 2..cur : u \in 2..t /\ u \in 1..cur
      BY <1>0
    <3>2. \A u \in 2..t : txs'[u].asked < Word
      BY DEF NoWrap
    <3> QED  BY <2>2, <3>1, <3>2 DEF NoWrap
  <2>7. ASSUME NoWrap(cur), tx.asked < Word
        PROVE  /\ Weight(tx.ins) = Sum(Values(tx.outs)) + tx.fee
               /\ Weight(addLines') + Sum(Values(tx.outs)) <= Total
               /\ Weight(unspentTxt) <= Total
    <3>1. Weight(unspentTxt) <= Total
      BY <2>7 DEF Conserved
    <3>2. Weight(unspentOuts) <= Weight(unspentTxt)
      BY <1>0, ReadWeight DEF Weight
    <3>3. PICK a, b, c, d : a = Weight(unspentOuts) /\ b = Weight(unspentTxt)
                            /\ c = Weight(tx.ins) /\ d = Weight(addLines')
      OBVIOUS
    <3>4. a \in Nat /\ b \in Nat /\ c \in Nat /\ d \in Nat /\ a = c + d
      <4>1. unspentOuts \in Seq(Outs)
        BY <1>0, ReadFacts
      <4> QED  BY <1>0, <1>1, <1>3, <2>1, <3>3, <4>1
    <3>5. a < Word /\ a <= Total
      BY <1>2, <3>1, <3>2, <3>3, <3>4
    <3>6. c = Sum(Values(tx.outs)) + tx.fee
      BY <2>1, <2>7, <3>3, <3>5
    <3>7. Sum(Values(tx.outs)) \in Nat /\ tx.fee \in Nat
      <4>1. tx.outs \in Seq(Payment) /\ tx.fee \in Nat
        BY DEF Tx
      <4> QED  BY <4>1, Amounts
    <3>8. d + Sum(Values(tx.outs)) <= Total
      BY <1>2, <3>4, <3>5, <3>6, <3>7
    <3> QED  BY <3>1, <3>3, <3>6, <3>8
  <2>8. ASSUME NEW t \in Made', NoWrap(t)' PROVE Balanced(t)'
    <3>1. CASE t \in Made
      <4>1. t \in 1..cur /\ txs'[t] = txs[t]
        BY <2>2, <2>3, <3>1
      <4>2. Balanced(t)
        BY <2>5, <2>8, <3>1, <4>1 DEF Conserved
      <4>3. txs[t].ins \in Seq(Outs)
        BY <3>1 DEF Ordered
      <4>4. \A s \in Seq(Outs) : s = txs'[t].ins => Weight(txs[t].ins)' = Weight(s)'
        BY DEF Weight, InValues
      <4>5. Weight(txs[t].ins)' = Weight(txs[t].ins)
        BY <2>2, <4>1, <4>3, <4>4
      <4> QED  BY <4>1, <4>2, <4>5 DEF Balanced
    <3>2. CASE t = cur'
      <4>1. NoWrap(cur) /\ tx.asked < Word
        BY <2>6, <2>8, <3>2
      <4>2. txs'[t] = tx
        BY <2>2, <3>2
      <4>3. \A s \in Seq(Outs) : s = txs'[t].ins => Weight(txs[t].ins)' = Weight(s)'
        BY DEF Weight, InValues
      <4>4. Weight(txs[t].ins)' = Weight(tx.ins)
        BY <2>1, <2>2, <4>2, <4>3
      <4> QED  BY <2>7, <4>1, <4>2, <4>4 DEF Balanced
    <3> QED  BY <2>3, <3>1, <3>2
  <2>9. ASSUME NoWrap(cur)'
        PROVE  /\ Weight(unspentTxt)' <= Total
               /\ Weight(Kept)' + Sum(Values(txs[cur].outs))' <= Total
    <3>1. NoWrap(cur) /\ tx.asked < Word
      <4>1. \A t : t = cur' => NoWrap(t)'
        BY <2>9 DEF NoWrap
      <4> QED  BY <2>6, <4>1
    <3>2. Weight(unspentTxt)' = Weight(unspentTxt)
      <4>1. \A s \in Seq(Outs) : s = unspentTxt' => Weight(unspentTxt)' = Weight(s)'
        BY DEF Weight, InValues
      <4> QED  BY <1>0, <2>1, <2>2, <4>1
    <3>3. Weight(Kept)' = Weight(addLines')
      <4>1. \A s \in Seq(Outs) : s = Kept' => Weight(Kept)' = Weight(s)'
        BY DEF Weight, InValues
      <4> QED  BY <2>1, <2>2, <2>4, <4>1
    <3>4. (Sum(Values(txs[cur].outs)))' = Sum(Values(tx.outs))
      BY <2>2
    <3> QED  BY <2>7, <3>1, <3>2, <3>3, <3>4
  <2>10. Total' = Total
    BY DEF Total
  <2> QED  BY <2>4, <2>8, <2>9, <2>10 DEF Conserved
<1>8. CASE WriteSigned
  <2>1. /\ UNCHANGED <<publ_addrs, txs, addLines, unspentTxt>> /\ pc = "sign" /\ pc' = "list"
    BY <1>8 DEF WriteSigned, GoOn
  <2>2. Kept' = Kept /\ InMemory' /\ InMemory
    BY <2>1 DEF Kept, InMemory
  <2> QED  BY <1>4, <2>1, <2>2 DEF Conserved
<1>9. CASE CreateUnspent
  <2>1. InMemory /\ ~InMemory' /\ Kept = addLines /\ Kept' = addLines \o OwnLines(cur)
    BY <1>9, KeptSteps
  <2>2. UNCHANGED <<publ_addrs, txs>>
    BY <1>9 DEF CreateUnspent
  <2>3. OwnLines(cur) \in Seq(Outs)
    BY <1>0, OwnFacts
  <2>4. Weight(OwnLines(cur)) <= Sum(Values(txs[cur].outs))
    BY <1>0, OwnWeight DEF Weight
  <2>5. Weight(Kept') = Weight(addLines) + Weight(OwnLines(cur))
    BY <1>0, <1>3, <2>1, <2>3
  <2>6. ASSUME NoWrap(cur) PROVE Weight(Kept') <= Total
    <3>1. Weight(addLines) + Sum(Values(txs[cur].outs)) <= Total
      BY <2>1, <2>6 DEF Conserved
    <3>2. Weight(addLines) \in Nat /\ Weight(OwnLines(cur)) \in Nat
      BY <1>0, <1>1, <2>3
    <3>3. Sum(Values(txs[cur].outs)) \in Nat
      <4>1. txs[cur].outs \in Seq(Payment)
        BY <1>0, TxFields
      <4> QED  BY <4>1, Amounts
    <3> QED  BY <1>2, <2>4, <2>5, <3>1, <3>2, <3>3
  <2> QED  BY <1>5, <2>1, <2>2, <2>6
<1>10. CASE WriteLine
  <2>1. UNCHANGED <<publ_addrs, txs>>
    BY <1>10 DEF WriteLine
  <2>2. Kept' = Kept /\ ~InMemory /\ ~InMemory'
    BY <1>10, KeptSteps
  <2> QED  BY <1>5, <2>1, <2>2 DEF Conserved
<1>11. CASE EndOfLines \/ CreateTxFile \/ StoreTx
  <2>1. UNCHANGED <<publ_addrs, txs>>
    BY <1>11 DEF EndOfLines, CreateTxFile, StoreTx
  <2>2. Kept' = Kept /\ ~InMemory /\ ~InMemory'
    <3>1. CASE EndOfLines
      BY <3>1, KeptSteps
    <3>2. CASE CreateTxFile \/ StoreTx
      <4>1. /\ pc \in {"file", "store"} /\ addLines' = <<>> /\ addLines = <<>>
            /\ unspentTxt' = unspentTxt /\ pc' \in {"off", "store"}
        BY <3>2 DEF CreateTxFile, StoreTx, GoOn, End, TypeOK
      <4> QED  BY <4>1 DEF Kept, InMemory
    <3> QED  BY <1>11, <3>1, <3>2
  <2> QED  BY <1>5, <2>1, <2>2 DEF Conserved
<1>12. CASE CannotCreateUnspent \/ CannotCreateTxFile \/ Killed
  <2>1. UNCHANGED <<publ_addrs, txs>> /\ Kept' = unspentTxt /\ ~InMemory'
    BY <1>12, Ending
  <2> QED  BY <1>5, <2>1 DEF Conserved
<1> QED  BY <1>6, <1>7, <1>8, <1>9, <1>10, <1>11, <1>12, StepKinds, Zenon

LEMMA LoadableInit ==
  ASSUME Init
  PROVE  Loadable /\ NotYetSigned /\ SpentOnce /\ Complete /\ Conserved
<1>1. /\ txs = <<[ins |-> <<>>, outs |-> FundingOuts, fee |-> 0, asked |-> 0]>>
      /\ pc = "off" /\ addLines = <<>>
      /\ unspentTxt = [n \in DOMAIN FundingOuts |-> Outpoint(Funding, n)]
      /\ txFile = [t \in 1..MaxTxs |-> IF t = Funding THEN "whole" ELSE "none"]
  BY Zenon DEF Init
<1>2. TypeOK
  BY TypeInit
<1>3. FundingOuts \in Seq(Payment) /\ DOMAIN FundingOuts = 1..Len(FundingOuts) /\ 1 \in 1..MaxTxs
  BY WalletAssumption DEF Payment
<1>4. txs[1].outs = FundingOuts /\ cur = 1 /\ Made = {} /\ ~InMemory
  BY <1>1 DEF cur, Made, InMemory
<1>5. Kept = unspentTxt
  BY <1>1, <1>2, KeptFacts
<1>6. ToSet(unspentTxt) = {Outpoint(1, n) : n \in 1..Len(FundingOuts)}
  BY <1>1, <1>3 DEF ToSet, Funding
<1>7. Loadable
  <2>1. \A o \in ToSet(unspentTxt) : Whole(o)
    BY <1>1, <1>3, <1>6 DEF Whole, Outpoint, Funding
  <2> QED  BY <1>1, <1>4, <2>1 DEF Loadable, InMemory
<1>8. NotYetSigned
  BY <1>1, <1>4 DEF NotYetSigned
<1>9. SpentOnce
  <2>1. \A i \in 1..Len(FundingOuts) : unspentTxt[i] = Outpoint(1, i) /\ unspentTxt[i].vout = i
    BY <1>1, <1>3 DEF Outpoint, Funding
  <2>2. Distinct(unspentTxt)
    BY <1>1, <1>3, <2>1 DEF Distinct
  <2> QED  BY <1>4, <1>5, <2>2 DEF SpentOnce
<1>10. Complete
  <2>1. Own(1) = OwnOf(ToSet(unspentTxt))
    BY <1>3, <1>4, <1>6 DEF Own, OwnOf
  <2>2. Avail(1) = Own(1)
    <3>1. 1..1 = {1} /\ 2..1 = {}
      OBVIOUS
    <3> QED  BY <3>1 DEF Avail
  <2> QED  BY <1>4, <1>5, <2>1, <2>2 DEF Complete
<1>11. Conserved
  <2>1. InValues(unspentTxt) = Values(FundingOuts)
    <3>1. unspentTxt = [n \in 1..Len(FundingOuts) |-> Outpoint(1, n)]
      BY <1>1, <1>3 DEF Funding
    <3>2. \A n \in 1..Len(FundingOuts) : UO(unspentTxt[n]) = FundingOuts[n]
      BY <1>4, <3>1 DEF UO, Outpoint
    <3> QED  BY <1>3, <3>1, <3>2 DEF InValues, Values
  <2>2. Total \in Nat
    BY <1>3, Amounts DEF Total
  <2>3. Weight(unspentTxt) = Total
    BY <2>1 DEF Weight, Total
  <2> QED  BY <1>4, <1>5, <2>2, <2>3 DEF Conserved
<1> QED  BY <1>7, <1>8, <1>9, <1>10, <1>11

(* What holds before, between and in the runs. *)
THEOREM WalletInvariant == Spec => []WalletInv
<1>1. Init => WalletInv
  BY TypeInit, LoadableInit DEF WalletInv
<1>2. WalletInv /\ [Next]_vars => WalletInv'
  <2> SUFFICES ASSUME WalletInv, [Next]_vars PROVE WalletInv'
    OBVIOUS
  <2>1. TypeOK /\ Ordered /\ Loadable /\ NotYetSigned
    BY DEF WalletInv
  <2>2. TypeOK'
    BY <2>1, TypeStep
  <2>3. Ordered'
    BY <2>1, OrderedStep
  <2>4. Loadable'
    BY <2>1, LoadableStep
  <2>5. NotYetSigned'
    BY <2>1, NotYetSignedStep
  <2>6. DistinctKeys' = DistinctKeys
    <3>1. publ_addrs' = publ_addrs
      <4>1. ASSUME NEW to \in SendTo, NEW fee \in Fees, Make(to, fee) PROVE publ_addrs' = publ_addrs
        BY <2>1, <4>1, MakeFacts
      <4>2. CASE WriteSigned \/ CreateUnspent \/ CannotCreateUnspent \/ WriteLine \/ EndOfLines
        BY <4>2 DEF WriteSigned, CreateUnspent, CannotCreateUnspent, WriteLine, EndOfLines
      <4>3. CASE CreateTxFile \/ CannotCreateTxFile \/ StoreTx \/ Killed \/ Quiet
        BY <4>3 DEF CreateTxFile, CannotCreateTxFile, StoreTx, Killed, Quiet
      <4> QED  BY <4>1, <4>2, <4>3, StepKinds, Zenon
    <3> QED  BY <3>1 DEF DistinctKeys, IsInjective
  <2>7. ASSUME DistinctKeys PROVE SpentOnce' /\ Complete' /\ Conserved'
    <3>1. SpentOnce /\ Complete /\ Conserved
      BY <2>7 DEF WalletInv
    <3>2. SpentOnce'
      BY <2>1, <2>2, <2>7, <3>1, SpentOnceStep
    <3>3. Complete'
      BY <2>1, <3>1, CompleteStep
    <3>4. Conserved'
      BY <2>1, <2>2, <2>7, <3>1, ConservedStep
    <3> QED  BY <3>2, <3>3, <3>4
  <2> QED  BY <2>2, <2>3, <2>4, <2>5, <2>6, <2>7 DEF WalletInv
<1> QED  BY <1>1, <1>2, PTL DEF Spec

(* A refusal to load is about what the files still are. *)
StuckExits == {"transaction file not found", "transaction file is corrupt"}
CannotBeLoaded == exit \in StuckExits => pc = "off" /\ LoadError # ""

LEMMA CannotBeLoadedStep ==
  ASSUME CannotBeLoaded, [Next]_vars
  PROVE  CannotBeLoaded'
<1>1. ASSUME NEW to \in SendTo, NEW fee \in Fees, TooMuch(to, fee) \/ Make(to, fee)
      PROVE  exit' \notin StuckExits
  BY <1>1, Zenon DEF TooMuch, Make, Refuse, StuckExits
<1>2. ASSUME CannotLoad \/ UNCHANGED vars PROVE CannotBeLoaded'
  <2>1. pc' = pc /\ unspentTxt' = unspentTxt /\ txFile' = txFile
    BY <1>2, Zenon DEF CannotLoad, Refuse, files, vars
  <2>2. LoadError' = LoadError
    BY <2>1, Zenon DEF LoadError
  <2>3. exit' = exit \/ (pc = "off" /\ LoadError # "")
    BY <1>2, Zenon DEF CannotLoad, vars
  <2> QED  BY <2>1, <2>2, <2>3, Zenon DEF CannotBeLoaded
<1>3. ASSUME \/ WriteSigned \/ CreateUnspent \/ CannotCreateUnspent \/ WriteLine \/ EndOfLines
             \/ CreateTxFile \/ CannotCreateTxFile \/ StoreTx \/ Killed
      PROVE  pc # "off" /\ exit' = exit
  BY <1>3 DEF WriteSigned, CreateUnspent, CannotCreateUnspent, WriteLine, EndOfLines,
              CreateTxFile, CannotCreateTxFile, StoreTx, Killed
<1>4. CannotBeLoaded' \/ exit' \notin StuckExits
  BY <1>1, <1>2, <1>3, Zenon DEF Next, CannotBeLoaded
<1> QED  BY <1>4, Zenon DEF CannotBeLoaded, StuckExits

(* Two transactions given to the user never take the same output, except   *)
(* that the run of the first ended between writing it and emptying         *)
(* unspent.txt; whatever the number of payments and of failures.           *)
THEOREM NothingIsSignedTwice == Spec => []SpentTwiceOnlyIfStillListed
<1>1. WalletInv => SpentTwiceOnlyIfStillListed
  <2> SUFFICES ASSUME WalletInv, DistinctKeys, NEW t \in signed, NEW u \in signed, t < u,
                      Spends(t) \cap Spends(u) # {}
               PROVE  fate[t] = "list"
    BY DEF SpentTwiceOnlyIfStillListed
  <2>1. TypeOK /\ NotYetSigned /\ SpentOnce
    BY DEF WalletInv
  <2>2. t \in 1..cur /\ u \in 1..cur /\ cur \in Nat
    BY <2>1 DEF TypeOK, cur
  <2>3. CASE t = 1
    <3>1. Spends(Funding) = {}
      BY DEF WalletInv, Ordered
    <3> QED  BY <2>3, <3>1 DEF Funding
  <2>4. CASE t # 1
    <3>1. t \in Made /\ u \in Made
      BY <2>2, <2>4 DEF Made, cur
    <3> QED  BY <2>1, <3>1 DEF SpentOnce, NotYetSigned
  <2> QED  BY <2>3, <2>4
<1> QED  BY <1>1, WalletInvariant, PTL

(* The wallet refuses to load only after a run that ended between the      *)
(* lines of its transaction and the file of it.                            *)
THEOREM StuckAfterLines == Spec => []StuckOnlyAfterLines
<1>1. Init => CannotBeLoaded
  BY Zenon DEF Init, CannotBeLoaded, StuckExits
<1>2. CannotBeLoaded /\ [Next]_vars => CannotBeLoaded'
  BY CannotBeLoadedStep
<1>3. ASSUME Loadable, pc = "off", LoadError # ""
      PROVE  fate[cur] \in {"lines", "file", "store"}
  <2>1. \E o \in ToSet(unspentTxt) : ~Whole(o)
    BY <1>3, AllWhole, Zenon
  <2>2. \A o \in ToSet(unspentTxt) : Whole(o) \/ fate[cur] \in {"lines", "file", "store"}
    BY <1>3, Zenon DEF Loadable
  <2> QED  BY <2>1, <2>2, Zenon
<1>4. WalletInv /\ CannotBeLoaded => StuckOnlyAfterLines
  BY <1>3, Zenon DEF WalletInv, CannotBeLoaded, StuckOnlyAfterLines, StuckExits
<1> QED  BY <1>1, <1>2, <1>4, WalletInvariant, PTL DEF Spec

(* As long as every run came to its end, unspent.txt lists the unspent     *)
(* outputs of the wallet, each once, with their transactions beside it.    *)
THEOREM FileListsTheUnspent == Spec => []FileIsUnspent
<1>1. ASSUME WalletInv, pc = "off", DistinctKeys, \A t \in Made : fate[t] = "done"
      PROVE  /\ ToSet(unspentOuts) =
                  {o \in UNION {{Outpoint(t, n) : n \in DOMAIN txs[t].outs} : t \in 1..cur} : Mine(o)}
                    \ UNION {Spends(t) : t \in Made}
             /\ IsInjective(unspentTxt)
             /\ \A o \in ToSet(unspentTxt) : Whole(o)
  <2>1. TypeOK /\ Loadable /\ SpentOnce /\ Complete
    BY <1>1 DEF WalletInv
  <2>2. ToSet(unspentOuts) = OwnOf(ToSet(unspentTxt))
    BY <2>1, ReadFacts DEF TypeOK, OwnOf
  <2>3. OwnOf(ToSet(unspentTxt)) = Avail(cur)
    BY <1>1, <2>1, KeptFacts DEF Complete, InMemory
  <2>4. Avail(cur) = {o \in UNION {{Outpoint(t, n) : n \in DOMAIN txs[t].outs} : t \in 1..cur} : Mine(o)}
                       \ UNION {Spends(t) : t \in Made}
    <3> DEFINE All == UNION {{Outpoint(t, n) : n \in DOMAIN txs[t].outs} : t \in 1..cur}
    <3>1. UNION {Own(t) : t \in 1..cur} = {o \in All : Mine(o)}
      BY DEF Own
    <3>2. Made = 2..cur
      BY DEF Made, cur
    <3>3. Avail(cur) = {o \in All : Mine(o)} \ UNION {Spends(t) : t \in Made}
      <4> HIDE DEF All
      <4>1. Avail(cur) = (UNION {Own(t) : t \in 1..cur}) \ (UNION {Spends(t) : t \in 2..cur})
        BY DEF Avail
      <4> QED  BY <3>1, <3>2, <4>1
    <3> QED  BY <3>3
  <2>5. IsInjective(unspentTxt)
    BY <2>1 DEF SpentOnce, Distinct, IsInjective
  <2>6. fate[cur] = "done"
    <3>1. cur \in Nat /\ cur >= 1 /\ Made = 2..cur /\ cur \in 1..MaxTxs
      BY <2>1 DEF TypeOK, Made, cur
    <3>2. cur = 1 \/ cur \in Made
      BY <3>1
    <3> QED  BY <1>1, <2>1, <3>1, <3>2 DEF TypeOK, Funding
  <2>7. \A o \in ToSet(unspentTxt) : Whole(o)
    BY <1>1, <2>1, <2>6 DEF Loadable
  <2> QED  BY <2>2, <2>3, <2>4, <2>5, <2>7
<1>2. WalletInv => FileIsUnspent
  BY <1>1, AllWhole, Zenon DEF FileIsUnspent
<1> QED  BY <1>2, WalletInvariant, PTL

(* A signed transaction takes outputs of the wallet, each once, and pays   *)
(* exactly what it takes, if no amount asked for so far reached 2^64.      *)
THEOREM SignedPaysWhatItTakes == Spec => []SignedIsBalanced
<1>1. WalletInv => SignedIsBalanced
  <2> SUFFICES ASSUME WalletInv, NEW t \in Made, DistinctKeys, \A u \in 2..t : txs[u].asked < Word
               PROVE  /\ IsInjective(txs[t].ins) /\ \A o \in Spends(t) : Mine(o)
                      /\ Sum(InValues(txs[t].ins)) = Sum(Values(txs[t].outs)) + txs[t].fee
    BY DEF SignedIsBalanced
  <2>1. SpentOnce /\ Conserved
    BY DEF WalletInv
  <2>2. IsInjective(txs[t].ins) /\ \A o \in Spends(t) : Mine(o)
    BY <2>1 DEF SpentOnce, Distinct, IsInjective
  <2>3. Balanced(t)
    BY <2>1 DEF Conserved, NoWrap
  <2> QED  BY <2>2, <2>3 DEF Balanced, Weight
<1> QED  BY <1>1, WalletInvariant, PTL
=============================================================================
