--------------------------- MODULE TxLedgerProofs ---------------------------
(***************************************************************************)
(* Proofs about CommitTxs, for all blocks, transactions and ledgers: its   *)
(* loops compute something, what they keep, and that what they return is   *)
(* what TxLedgerRules says.                                                *)
(***************************************************************************)
EXTENDS TxLedgerRules, FiniteSetTheorems, WellFoundedInduction, TLAPS

(* Loops                                                                   *)

(* What holds before a loop and is kept by each turn holds after any turn. *)
LEMMA Induct ==
  ASSUME NEW len \in Nat, NEW G \in SUBSET (0..len), 0 \in G,
         \A n \in 1..len : n - 1 \in G => n \in G
  PROVE  G = 0..len
<1> DEFINE Bad == (0..len) \ G
<1>1. ASSUME Bad # {} PROVE FALSE
  <2>1. PICK k \in Bad : \A m \in Bad : ~(<<m, k>> \in OpToRel(<, Nat))
    <3>1. Bad \in SUBSET Nat
      OBVIOUS
    <3> HIDE DEF Bad
    <3> QED  BY <1>1, <3>1, NatLessThanWellFounded, WFMin, Zenon
  <2>2. \A m \in Bad : ~(m < k)
    <3>1. Bad \in SUBSET Nat
      OBVIOUS
    <3> HIDE DEF Bad
    <3> QED  BY <2>1, <3>1 DEF OpToRel
  <2>3. k \in 1..len /\ k - 1 \in 0..len /\ k - 1 < k
    OBVIOUS
  <2>4. k - 1 \in G
    BY <2>2, <2>3
  <2> QED  BY <2>3, <2>4
<1> QED  BY <1>1

(* The states f of a loop of len turns, one of which changes x to step[n][x]. *)
Loop(f, len, X, base, step) ==
  f \in [0..len -> X] /\ f[0] = base /\ \A n \in 1..len : f[n] = step[n][f[n - 1]]

(* A loop with a state from X computes something.                          *)
LEMMA LoopExists ==
  ASSUME NEW len \in Nat, NEW X, NEW base \in X, NEW step \in [1..len -> [X -> X]]
  PROVE  \E f : Loop(f, len, X, base, step)
<1> DEFINE Does(f, k) == f[0] = base /\ \A n \in 1..k : f[n] = step[n][f[n - 1]]
           G == {k \in 0..len : \E f \in [0..k -> X] : Does(f, k)}
<1>1. 0 \in G
  <2> DEFINE f == [n \in 0..0 |-> base]
  <2>1. f \in [0..0 -> X] /\ f[0] = base /\ \A n \in 1..0 : f[n] = step[n][f[n - 1]]
    OBVIOUS
  <2> HIDE DEF f
  <2> QED  BY <2>1
<1>2. ASSUME NEW k \in 1..len, k - 1 \in G
      PROVE  k \in G
  <2>1. PICK f \in [0..(k - 1) -> X] : Does(f, k - 1)
    BY <1>2
  <2> DEFINE g == [n \in 0..k |-> IF n = k THEN step[k][f[k - 1]] ELSE f[n]]
  <2>2. f[k - 1] \in X /\ step[k][f[k - 1]] \in X
    OBVIOUS
  <2>3. g \in [0..k -> X]
    BY <2>2
  <2>4. g[0] = base
    BY <2>1
  <2>5. ASSUME NEW n \in 1..k PROVE g[n] = step[n][g[n - 1]]
    <3>1. n - 1 \in 0..(k - 1) /\ g[n - 1] = f[n - 1]
      OBVIOUS
    <3>2. CASE n = k
      BY <3>1, <3>2
    <3>3. CASE n # k
      <4>1. n \in 1..(k - 1) /\ g[n] = f[n]
        BY <3>3
      <4> QED  BY <2>1, <3>1, <4>1
    <3> QED  BY <3>2, <3>3
  <2> HIDE DEF g
  <2>6. Does(g, k) /\ k \in 0..len
    BY <2>4, <2>5
  <2> HIDE DEF Does
  <2> QED  BY <2>3, <2>6
<1>3. G = 0..len
  <2>1. G \in SUBSET (0..len) /\ \A k \in 1..len : k - 1 \in G => k \in G
    BY <1>2
  <2> HIDE DEF G
  <2> QED  BY <1>1, <2>1, Induct
<1>4. len \in G
  <2> HIDE DEF G
  <2> QED  BY <1>3
<1> QED  BY <1>4 DEF Loop
-----------------------------------------------------------------------------
(* Sums over sets                                                          *)

Pick(s) == CHOOSE x \in s : TRUE

(* g adds up f over the set s as the fold does, an element at a time.      *)
Adds(f, g, s) == g[s] = IF s = {} THEN 0 ELSE f[Pick(s)] + g[s \ {Pick(s)}]

(* What there is to say of sets by the number of their elements.           *)
LEMMA BySize ==
  ASSUME NEW T, IsFiniteSet(T), NEW G \in SUBSET SUBSET T,
         \A S \in SUBSET T : (\A x \in S : S \ {x} \in G) => S \in G
  PROVE  G = SUBSET T
<1> DEFINE len == Cardinality(T)
           H == {k \in 0..len : \A S \in SUBSET T : Cardinality(S) = k => S \in G}
<1>1. len \in Nat /\ \A S \in SUBSET T : IsFiniteSet(S) /\ Cardinality(S) \in 0..len
  BY FS_CardinalityType, FS_Subset
<1>2. 0 \in H
  <2>1. \A S \in SUBSET T : Cardinality(S) = 0 => S = {}
    BY <1>1, FS_EmptySet
  <2>2. {} \in G
    OBVIOUS
  <2> QED  BY <1>1, <2>1, <2>2
<1>3. ASSUME NEW k \in 1..len, k - 1 \in H PROVE k \in H
  <2> SUFFICES ASSUME NEW S \in SUBSET T, Cardinality(S) = k PROVE S \in G
    OBVIOUS
  <2>1. \A x \in S : Cardinality(S \ {x}) = k - 1
    BY <1>1, FS_RemoveElement
  <2> QED  BY <1>3, <2>1
<1>4. H = 0..len
  <2> HIDE DEF H
  <2>1. H \in SUBSET (0..len)
    BY DEF H
  <2> QED  BY <1>1, <1>2, <1>3, <2>1, Induct
<1>5. ASSUME NEW S \in SUBSET T PROVE S \in G
  <2>1. Cardinality(S) \in H
    BY <1>1, <1>4
  <2> QED  BY <2>1
<1> QED  BY <1>5

LEMMA PickIn == ASSUME NEW s, s # {} PROVE Pick(s) \in s
  BY DEF Pick

(* There is such a g. *)
LEMMA AddsExists ==
  ASSUME NEW T, IsFiniteSet(T), NEW f \in [T -> Int]
  PROVE  \E g \in [SUBSET T -> Int] : \A s \in SUBSET T : Adds(f, g, s)
<1> DEFINE len == Cardinality(T)
           Upto(g, k) == \A s \in SUBSET T : Cardinality(s) <= k => Adds(f, g, s)
           H == {k \in 0..len : \E g \in [SUBSET T -> Int] : Upto(g, k)}
<1>1. len \in Nat /\ \A S \in SUBSET T : IsFiniteSet(S) /\ Cardinality(S) \in 0..len
  BY FS_CardinalityType, FS_Subset
<1>2. 0 \in H
  <2> DEFINE g == [s \in SUBSET T |-> 0]
  <2>1. g \in [SUBSET T -> Int]
    OBVIOUS
  <2>2. \A s \in SUBSET T : Cardinality(s) <= 0 => s = {}
    BY <1>1, FS_EmptySet
  <2>3. Upto(g, 0)
    BY <2>2 DEF Adds
  <2> HIDE DEF g
  <2> QED  BY <1>1, <2>1, <2>3
<1>3. ASSUME NEW k \in 1..len, k - 1 \in H PROVE k \in H
  <2>1. PICK g \in [SUBSET T -> Int] : Upto(g, k - 1)
    BY <1>3
  <2> DEFINE h == [s \in SUBSET T |-> IF s = {} THEN 0
                                      ELSE f[Pick(s)] + g[s \ {Pick(s)}]]
  <2>2. h \in [SUBSET T -> Int]
    <3>1. ASSUME NEW s \in SUBSET T, s # {} PROVE f[Pick(s)] \in Int /\ g[s \ {Pick(s)}] \in Int
      BY <3>1, PickIn
    <3> QED  BY <3>1
  <2>3. ASSUME NEW s \in SUBSET T, Cardinality(s) <= k - 1 PROVE h[s] = g[s]
    BY <2>1, <2>3 DEF Adds
  <2>4. ASSUME NEW s \in SUBSET T, Cardinality(s) <= k PROVE Adds(f, h, s)
    <3>1. CASE s = {}
      BY <3>1 DEF Adds
    <3>2. CASE s # {}
      <4>1. Pick(s) \in s
        BY <3>2, PickIn
      <4>2. Cardinality(s \ {Pick(s)}) <= k - 1 /\ s \ {Pick(s)} \in SUBSET T
        BY <1>1, <2>4, <4>1, FS_RemoveElement
      <4>3. h[s \ {Pick(s)}] = g[s \ {Pick(s)}]
        BY <2>3, <4>2
      <4> QED  BY <3>2, <4>3 DEF Adds
    <3> QED  BY <3>1, <3>2
  <2> HIDE DEF h
  <2>5. k \in 0..len
    BY <1>1
  <2> QED  BY <2>2, <2>4, <2>5
<1>4. H = 0..len
  <2> HIDE DEF H
  <2>1. H \in SUBSET (0..len)
    BY DEF H
  <2> QED  BY <1>1, <1>2, <1>3, <2>1, Induct
<1>5. len \in H
  <2> HIDE DEF H
  <2> QED  BY <1>1, <1>4
<1>6. PICK g \in [SUBSET T -> Int] : Upto(g, len)
  BY <1>5
<1> QED  BY <1>1, <1>6

(* There is one such g. *)
LEMMA AddsUnique ==
  ASSUME NEW S, IsFiniteSet(S), NEW f, NEW g, NEW h,
         \A s \in SUBSET S : Adds(f, g, s) /\ Adds(f, h, s)
  PROVE  g[S] = h[S]
<1> DEFINE G == {s \in SUBSET S : g[s] = h[s]}
<1>1. ASSUME NEW s \in SUBSET S, \A x \in s : s \ {x} \in G PROVE s \in G
  <2>1. s # {} => g[s \ {Pick(s)}] = h[s \ {Pick(s)}]
    BY <1>1, PickIn
  <2> QED  BY <2>1 DEF Adds
<1>2. G = SUBSET S
  <2>1. \A s \in SUBSET S : (\A x \in s : s \ {x} \in G) => s \in G
    BY <1>1
  <2>2. G \in SUBSET SUBSET S
    OBVIOUS
  <2> HIDE DEF G
  <2> QED  BY <2>1, <2>2, BySize
<1>3. S \in G
  BY <1>2
<1> QED  BY <1>3

(* It is what the fold computes, over T and over each of its parts.        *)
LEMMA SumAdds ==
  ASSUME NEW T, IsFiniteSet(T), NEW f \in [T -> Int],
         NEW g \in [SUBSET T -> Int], \A s \in SUBSET T : Adds(f, g, s),
         NEW S \in SUBSET T
  PROVE  SumOver(f, S) = g[S]
<1> DEFINE Fold(h) == h = [s \in SUBSET S |-> IF s = {} THEN 0
                                              ELSE LET x == CHOOSE x \in s : TRUE
                                                   IN  f[x] + h[s \ {x}]]
           part == [s \in SUBSET S |-> g[s]]
<1>1. SumOver(f, S) = (CHOOSE h : Fold(h))[S]
  BY DEF SumOver, FoldFunctionOnSet, MapThenFoldSet
<1>2. Fold(part)
  <2>1. ASSUME NEW s \in SUBSET S
        PROVE  part[s] = IF s = {} THEN 0 ELSE f[Pick(s)] + part[s \ {Pick(s)}]
    BY DEF Adds
  <2> QED  BY <2>1 DEF Pick
<1>3. PICK h : Fold(h) /\ SumOver(f, S) = h[S]
  <2> HIDE DEF Fold
  <2> QED  BY <1>1, <1>2
<1>4. \A s \in SUBSET S : Adds(f, h, s) /\ Adds(f, g, s)
  <2> TAKE s \in SUBSET S
  <2>1. h[s] = IF s = {} THEN 0 ELSE f[Pick(s)] + h[s \ {Pick(s)}]
    BY <1>3 DEF Pick
  <2> QED  BY <2>1 DEF Adds
<1> QED  BY <1>3, <1>4, FS_Subset, AddsUnique

(* Whichever element is taken first: the sum is the same. *)
LEMMA SumTakes ==
  ASSUME NEW T, IsFiniteSet(T), NEW f \in [T -> Int]
  PROVE  /\ SumOver(f, {}) = 0
         /\ \A S \in SUBSET T :
              SumOver(f, S) \in Int /\ \A x \in S : SumOver(f, S) = f[x] + SumOver(f, S \ {x})
<1>1. PICK g \in [SUBSET T -> Int] : \A s \in SUBSET T : Adds(f, g, s)
  BY AddsExists
<1>2. \A S \in SUBSET T : SumOver(f, S) = g[S]
  BY <1>1, SumAdds
<1> DEFINE G == {S \in SUBSET T : \A x \in S : g[S] = f[x] + g[S \ {x}]}
<1>3. ASSUME NEW S \in SUBSET T, \A x \in S : S \ {x} \in G,
             NEW x \in S
      PROVE  g[S] = f[x] + g[S \ {x}]
  <2> DEFINE y == Pick(S)
  <2>1. y \in S
    BY PickIn
  <2>2. g[S] = f[y] + g[S \ {y}]
    BY <1>1, <1>3 DEF Adds
  <2>3. CASE x = y
    BY <2>2, <2>3
  <2>4. CASE x # y
    <3>1. g[S \ {y}] = f[x] + g[(S \ {y}) \ {x}]
      BY <1>3, <2>1, <2>4
    <3>2. g[S \ {x}] = f[y] + g[(S \ {x}) \ {y}]
      BY <1>3, <2>1, <2>4
    <3>3. (S \ {y}) \ {x} = (S \ {x}) \ {y}
      OBVIOUS
    <3>4. f[x] \in Int /\ f[y] \in Int /\ g[(S \ {x}) \ {y}] \in Int
      BY <2>1
    <3>5. g[(S \ {y}) \ {x}] = g[(S \ {x}) \ {y}]
      BY <3>3
    <3>6. PICK a, b, c : a = f[x] /\ b = f[y] /\ c = g[(S \ {x}) \ {y}]
      OBVIOUS
    <3>7. g[S] = b + (a + c) /\ g[S \ {x}] = b + c
      BY <2>2, <3>1, <3>2, <3>5, <3>6
    <3>8. a \in Int /\ b \in Int /\ c \in Int
      BY <3>4, <3>6
    <3>9. b + (a + c) = a + (b + c)
      BY <3>8
    <3> QED  BY <3>6, <3>7, <3>9
  <2> QED  BY <2>3, <2>4
<1>4. G = SUBSET T
  <2>1. \A S \in SUBSET T : (\A x \in S : S \ {x} \in G) => S \in G
    BY <1>3
  <2>2. G \in SUBSET SUBSET T
    OBVIOUS
  <2> HIDE DEF G
  <2> QED  BY <2>1, <2>2, BySize
<1>5. \A S \in SUBSET T : \A x \in S : g[S] = f[x] + g[S \ {x}]
  BY <1>4
<1>6. g[{}] = 0
  BY <1>1 DEF Adds
<1>7. \A S \in SUBSET T : \A x \in S : SumOver(f, S) = f[x] + SumOver(f, S \ {x})
  <2> TAKE S \in SUBSET T
  <2> TAKE x \in S
  <2>1. S \ {x} \in SUBSET T
    OBVIOUS
  <2> QED  BY <1>2, <1>5, <2>1
<1> QED  BY <1>2, <1>6, <1>7

(* The sum depends on what f is on the set only. *)
LEMMA SumSame ==
  ASSUME NEW S, NEW f, NEW h, \A x \in S : f[x] = h[x]
  PROVE  SumOver(f, S) = SumOver(h, S)
<1> DEFINE Fold(k, g) == g = [s \in SUBSET S |-> IF s = {} THEN 0
                                                 ELSE LET x == CHOOSE x \in s : TRUE
                                                      IN  k[x] + g[s \ {x}]]
<1>1. /\ SumOver(f, S) = (CHOOSE g : Fold(f, g))[S]
      /\ SumOver(h, S) = (CHOOSE g : Fold(h, g))[S]
  BY DEF SumOver, FoldFunctionOnSet, MapThenFoldSet
<1>2. ASSUME NEW g PROVE Fold(f, g) <=> Fold(h, g)
  <2>1. \A s \in SUBSET S : s # {} => f[CHOOSE x \in s : TRUE] = h[CHOOSE x \in s : TRUE]
    OBVIOUS
  <2> QED  BY <2>1
<1> HIDE DEF Fold
<1> QED  BY <1>1, <1>2

-----------------------------------------------------------------------------
(* What outputs are worth                                                  *)

Coins(S) == S \subseteq Real /\ IsFiniteSet(S)

LEMMA ValueNat == ASSUME NEW o \in Real PROVE Value(o) \in Nat
<1>1. PICK t \in TxId : o \in TxOuts(t)
  BY DEF Real
<1>2. PICK j \in DOMAIN Outs[t] : o = [tx |-> t, vout |-> j - 1]
  BY <1>1 DEF TxOuts
<1>3. Outs[t] \in Seq(Nat)
  BY TxAssumption
<1>4. j \in Nat /\ Outs[t][j] \in Nat /\ o.vout + 1 = j /\ o.tx = t
  BY <1>2, <1>3
<1> QED  BY <1>4 DEF Value

LEMMA WorthTakes ==
  ASSUME NEW S, Coins(S)
  PROVE  /\ Worth({}) = 0 /\ Worth(S) \in Int
         /\ \A x \in S : Worth(S) = Value(x) + Worth(S \ {x})
<1> DEFINE F == [o \in S |-> Value(o)]
<1>1. F \in [S -> Int]
  BY ValueNat DEF Coins
<1>2. ASSUME NEW A \in SUBSET S PROVE Worth(A) = SumOver(F, A)
  <2>1. \A x \in A : [o \in A |-> Value(o)][x] = F[x]
    OBVIOUS
  <2> HIDE DEF F
  <2> QED  BY <2>1, SumSame DEF Worth
<1>3. \A x \in S : F[x] = Value(x)
  OBVIOUS
<1>4. /\ SumOver(F, {}) = 0 /\ SumOver(F, S) \in Int
      /\ \A x \in S : SumOver(F, S) = F[x] + SumOver(F, S \ {x})
  <2> HIDE DEF F
  <2> QED  BY <1>1, SumTakes DEF Coins
<1> HIDE DEF F
<1>5. Worth({}) = SumOver(F, {}) /\ Worth(S) = SumOver(F, S)
      /\ \A x \in S : Worth(S \ {x}) = SumOver(F, S \ {x})
  BY <1>2
<1> QED  BY <1>3, <1>4, <1>5

(* Two sets without a common element are worth the sum of both, *)
LEMMA WorthUnion ==
  ASSUME NEW A, NEW B, Coins(A), Coins(B), A \cap B = {}
  PROVE  Worth(A \cup B) = Worth(A) + Worth(B)
<1> DEFINE G == {S \in SUBSET B : Worth(A \cup S) = Worth(A) + Worth(S)}
<1>1. ASSUME NEW S \in SUBSET B, \A x \in S : S \ {x} \in G PROVE S \in G
  <2>1. Coins(A \cup S) /\ Coins(S)
    BY FS_Subset, FS_Union DEF Coins
  <2>2. CASE S = {}
    <3>1. A \cup S = A /\ Worth(S) = 0 /\ Worth(A) \in Int
      BY <2>2, WorthTakes
    <3> QED  BY <3>1
  <2>3. CASE S # {}
    <3>1. PICK x \in S : TRUE
      BY <2>3
    <3>2. (A \cup S) \ {x} = A \cup (S \ {x})
      BY <3>1
    <3>3. Worth(A \cup S) = Value(x) + Worth(A \cup (S \ {x}))
      BY <2>1, <3>1, <3>2, WorthTakes
    <3>4. Worth(S) = Value(x) + Worth(S \ {x})
      BY <2>1, <3>1, WorthTakes
    <3>5. Worth(A \cup (S \ {x})) = Worth(A) + Worth(S \ {x})
      BY <1>1, <3>1
    <3>6. Worth(A) \in Int /\ Worth(S \ {x}) \in Int /\ Value(x) \in Int
      <4>1. Coins(S \ {x}) /\ x \in Real
        BY <2>1, <3>1, FS_Subset DEF Coins
      <4> QED  BY <4>1, WorthTakes, ValueNat
    <3> QED  BY <3>3, <3>4, <3>5, <3>6
  <2> QED  BY <2>2, <2>3
<1>2. G = SUBSET B
  <2>1. \A S \in SUBSET B : (\A x \in S : S \ {x} \in G) => S \in G
    BY <1>1
  <2>2. G \in SUBSET SUBSET B /\ IsFiniteSet(B)
    BY DEF Coins
  <2> HIDE DEF G
  <2> QED  BY <2>1, <2>2, BySize
<1>3. B \in G
  BY <1>2
<1> QED  BY <1>3

LEMMA WorthNat == ASSUME NEW S, Coins(S) PROVE Worth(S) \in Nat
<1> DEFINE G == {A \in SUBSET S : Worth(A) \in Nat}
<1>1. ASSUME NEW A \in SUBSET S, \A x \in A : A \ {x} \in G PROVE A \in G
  <2>1. Coins(A)
    BY FS_Subset DEF Coins
  <2>2. CASE A = {}
    BY <2>1, <2>2, WorthTakes
  <2>3. CASE A # {}
    <3>1. PICK x \in A : TRUE
      BY <2>3
    <3>2. Worth(A) = Value(x) + Worth(A \ {x}) /\ Value(x) \in Nat /\ Worth(A \ {x}) \in Nat
      BY <1>1, <2>1, <3>1, WorthTakes, ValueNat DEF Coins
    <3> QED  BY <3>2
  <2> QED  BY <2>2, <2>3
<1>2. G = SUBSET S
  <2>1. \A A \in SUBSET S : (\A x \in A : A \ {x} \in G) => A \in G
    BY <1>1
  <2>2. G \in SUBSET SUBSET S /\ IsFiniteSet(S)
    BY DEF Coins
  <2> HIDE DEF G
  <2> QED  BY <2>1, <2>2, BySize
<1>3. S \in G
  BY <1>2
<1> QED  BY <1>3

(* a part is worth no more than the whole, *)
LEMMA WorthPart ==
  ASSUME NEW A, NEW B, Coins(B), A \subseteq B
  PROVE  Coins(A) /\ Worth(A) <= Worth(B) /\ Worth(B) = Worth(A) + Worth(B \ A)
<1>1. Coins(A) /\ Coins(B \ A) /\ B = A \cup (B \ A) /\ A \cap (B \ A) = {}
  BY FS_Subset DEF Coins
<1>2. Worth(B) = Worth(A) + Worth(B \ A)
  BY <1>1, WorthUnion
<1> QED  BY <1>1, <1>2, WorthNat

(* and two sets together no more than both. *)
LEMMA WorthBoth ==
  ASSUME NEW A, NEW B, Coins(A), Coins(B)
  PROVE  Coins(A \cup B) /\ Worth(A \cup B) <= Worth(A) + Worth(B)
<1>1. Coins(A \cup B) /\ A \cup B = A \cup (B \ A) /\ A \cap (B \ A) = {} /\ B \ A \subseteq B
  BY FS_Union DEF Coins
<1>2. Worth(A \cup B) = Worth(A) + Worth(B \ A)
  BY <1>1, WorthPart, WorthUnion
<1>3. Worth(B \ A) <= Worth(B)
  BY <1>1, WorthPart
<1>4. Worth(A) \in Nat /\ Worth(B) \in Nat /\ Worth(B \ A) \in Nat
  BY <1>1, WorthPart, WorthNat
<1> QED  BY <1>1, <1>2, <1>3, <1>4

LEMMA TxCoins == ASSUME NEW t \in TxId PROVE Coins(TxOuts(t))
<1>1. Outs[t] \in Seq(Nat) /\ DOMAIN Outs[t] = 1..Len(Outs[t]) /\ Len(Outs[t]) \in Nat
  BY TxAssumption
<1> DEFINE f == [j \in 1..Len(Outs[t]) |-> [tx |-> t, vout |-> j - 1]]
<1>2. f \in Surjection(1..Len(Outs[t]), TxOuts(t))
  BY <1>1 DEF Surjection, TxOuts
<1>3. IsFiniteSet(TxOuts(t))
  <2> HIDE DEF f
  <2> QED  BY <1>1, <1>2, FS_Interval, FS_Surjection
<1> QED  BY <1>3 DEF Coins, Real

-----------------------------------------------------------------------------
(* The loops of commitTxs                                                  *)

LEMMA Remainder ==
  ASSUME NEW w \in Nat \ {0}, NEW x \in Nat
  PROVE  x % w \in Nat /\ x \div w \in Nat /\ (x < w => x % w = x)
<1>1. x \div w \in Nat /\ x % w \in Nat
  OBVIOUS
<1>2. x \in 0..(w - 1) => x % w = x
  OBVIOUS
<1> QED  BY <1>1, <1>2

LEMMA RewardNat == ASSUME NEW h \in Nat PROVE GetBlockReward(h) \in Nat
<1> DEFINE len == h \div HalvingInterval
           step == [k \in 1..len |-> [x \in Nat |-> x \div 2]]
           Solves(f) == f = [k \in 0..len |-> IF k = 0 THEN InitialReward ELSE f[k - 1] \div 2]
<1>1. len \in Nat /\ InitialReward \in Nat
  BY TxAssumption, Remainder
<1>2. step \in [1..len -> [Nat -> Nat]]
  BY Remainder
<1>3. PICK f : f \in [0..len -> Nat] /\ f[0] = InitialReward
               /\ \A n \in 1..len : f[n] = step[n][f[n - 1]]
  <2> HIDE DEF step, len
  <2>1. PICK f : Loop(f, len, Nat, InitialReward, step)
    BY <1>1, <1>2, LoopExists, Zenon
  <2> QED  BY <2>1, Zenon DEF Loop
<1>4. Solves(f)
  <2>1. ASSUME NEW n \in 1..len PROVE n - 1 \in 0..len /\ step[n][f[n - 1]] = f[n - 1] \div 2
    <3>1. n - 1 \in 0..len
      BY <1>1
    <3>2. f[n - 1] \in Nat
      BY <1>3, <3>1
    <3> QED  BY <3>1, <3>2
  <2> HIDE DEF step, len
  <2>2. \A n \in 0..len : f[n] = IF n = 0 THEN InitialReward ELSE f[n - 1] \div 2
    BY <1>1, <1>3, <2>1
  <2> QED  BY <1>3, <2>2
<1>5. PICK g : Solves(g) /\ GetBlockReward(h) = g[len]
  <2>1. GetBlockReward(h) = (CHOOSE g : Solves(g))[len]
    BY DEF GetBlockReward
  <2> HIDE DEF Solves
  <2> QED  BY <1>4, <2>1
<1> DEFINE G == {n \in 0..len : g[n] \in Nat}
<1>6. 0 \in G
  BY <1>1, <1>5
<1>7. ASSUME NEW n \in 1..len, n - 1 \in G PROVE n \in G
  <2>1. n \in 0..len /\ n # 0
    BY <1>1
  <2>2. g[n] = g[n - 1] \div 2
    BY <1>5, <2>1
  <2> QED  BY <1>7, <2>1, <2>2, Remainder
<1>8. G = 0..len
  <2>1. G \in SUBSET (0..len)
    OBVIOUS
  <2> HIDE DEF G
  <2> QED  BY <1>1, <1>6, <1>7, <2>1, Induct
<1>9. len \in G
  <2> HIDE DEF G
  <2> QED  BY <1>1, <1>8
<1> QED  BY <1>5, <1>9

(* A loop that sums up amounts without wrapping around is exact. *)
LEMMA SumOutsIs ==
  ASSUME NEW t \in TxId
  PROVE  SumOuts(t) \in Nat /\ (Worth(TxOuts(t)) < Word => SumOuts(t) = Worth(TxOuts(t)))
<1> DEFINE v == Outs[t]
           len == Len(v)
           step == [k \in 1..len |-> [x \in Nat |-> (x + v[k]) % Word]]
           Solves(f) == f = [k \in 0..len |-> IF k = 0 THEN 0 ELSE (f[k - 1] + v[k]) % Word]
<1>1. len \in Nat /\ DOMAIN v = 1..len /\ \A k \in 1..len : v[k] \in Nat
  BY TxAssumption
<1>2. step \in [1..len -> [Nat -> Nat]]
  <2>1. ASSUME NEW k \in 1..len, NEW x \in Nat PROVE (x + v[k]) % Word \in Nat
    <3>1. x + v[k] \in Nat
      BY <1>1
    <3> QED  BY <3>1, TxAssumption, Remainder
  <2> QED  BY <2>1
<1>3. PICK f : f \in [0..len -> Nat] /\ f[0] = 0
               /\ \A n \in 1..len : f[n] = step[n][f[n - 1]]
  <2>1. 0 \in Nat
    OBVIOUS
  <2> HIDE DEF step, len
  <2>2. PICK f : Loop(f, len, Nat, 0, step)
    BY <1>1, <1>2, <2>1, LoopExists, Zenon
  <2> QED  BY <2>2, Zenon DEF Loop
<1>4. Solves(f)
  <2>1. ASSUME NEW n \in 1..len
        PROVE  n - 1 \in 0..len /\ step[n][f[n - 1]] = (f[n - 1] + v[n]) % Word
    <3>1. n - 1 \in 0..len
      BY <1>1
    <3>2. f[n - 1] \in Nat
      BY <1>3, <3>1
    <3> QED  BY <3>1, <3>2
  <2> HIDE DEF step, len
  <2>2. \A n \in 0..len : f[n] = IF n = 0 THEN 0 ELSE (f[n - 1] + v[n]) % Word
    BY <1>1, <1>3, <2>1
  <2> QED  BY <1>3, <2>2
<1>5. PICK g : Solves(g) /\ SumOuts(t) = g[len]
  <2>1. SumOuts(t) = (CHOOSE g : Solves(g))[len]
    BY DEF SumOuts
  <2> HIDE DEF Solves
  <2> QED  BY <1>4, <2>1
<1> DEFINE First(n) == {[tx |-> t, vout |-> j - 1] : j \in 1..n}
           G == {n \in 0..len : /\ g[n] \in Nat
                                /\ Worth(TxOuts(t)) < Word => g[n] = Worth(First(n))}
<1>6. Coins(TxOuts(t)) /\ First(len) = TxOuts(t)
  BY <1>1, TxCoins DEF TxOuts
<1>7. 0 \in G
  <2>1. First(0) = {} /\ Worth({}) = 0
    BY <1>6, WorthTakes
  <2>2. g[0] = 0 /\ 0 \in 0..len
    BY <1>1, <1>5
  <2> HIDE DEF First
  <2> QED  BY <2>1, <2>2
<1>8. ASSUME NEW n \in 1..len, n - 1 \in G PROVE n \in G
  <2>1. n \in 0..len /\ n # 0
    BY <1>1
  <2>2. g[n] = (g[n - 1] + v[n]) % Word
    BY <1>5, <2>1
  <2>3. g[n] \in Nat
    <3>1. g[n - 1] + v[n] \in Nat
      BY <1>1, <1>8
    <3> QED  BY <2>2, <3>1, TxAssumption, Remainder
  <2> DEFINE o == [tx |-> t, vout |-> n - 1]
  <2>4. /\ First(n) \subseteq TxOuts(t) /\ o \in First(n) /\ First(n) \ {o} = First(n - 1)
        /\ Value(o) = v[n]
    <3>1. First(n) \subseteq TxOuts(t)
      <4>1. 1..n \subseteq 1..len
        BY <1>1
      <4> QED  BY <1>1, <4>1 DEF TxOuts
    <3>2. \A j \in 1..n : [tx |-> t, vout |-> j - 1] = o => j = n
      BY <1>1
    <3>3. First(n) \ {o} = First(n - 1)
      <4>1. 1..n = 1..(n - 1) \cup {n} /\ n \notin 1..(n - 1)
        BY <1>1
      <4> HIDE DEF o
      <4> QED  BY <3>2, <4>1 DEF o
    <3>4. Value(o) = v[n]
      BY <1>1 DEF Value
    <3> QED  BY <1>1, <3>1, <3>3, <3>4
  <2>5. Coins(First(n)) /\ Worth(First(n)) <= Worth(TxOuts(t)) /\ Worth(First(n)) \in Nat
    BY <1>6, <2>4, WorthPart, WorthNat
  <2>6. Worth(First(n)) = v[n] + Worth(First(n - 1))
    <3> HIDE DEF o, First
    <3> QED  BY <2>4, <2>5, WorthTakes
  <2>7. ASSUME Worth(TxOuts(t)) < Word PROVE g[n] = Worth(First(n))
    <3>1. g[n - 1] = Worth(First(n - 1)) /\ g[n - 1] \in Nat
      BY <1>8, <2>7
    <3>2. g[n - 1] + v[n] = Worth(First(n)) /\ Worth(TxOuts(t)) \in Nat
      BY <1>1, <1>6, <2>6, <3>1, WorthNat
    <3> HIDE DEF First
    <3>3. Worth(First(n)) < Word
      BY <2>5, <2>7, <3>2, TxAssumption
    <3> QED  BY <2>2, <2>5, <3>2, <3>3, TxAssumption, Remainder
  <2> QED  BY <2>1, <2>3, <2>7
<1>9. G = 0..len
  <2>1. G \in SUBSET (0..len)
    OBVIOUS
  <2> HIDE DEF G
  <2> QED  BY <1>1, <1>7, <1>8, <2>1, Induct
<1>10. len \in G
  <2> HIDE DEF G
  <2> QED  BY <1>1, <1>9
<1> QED  BY <1>5, <1>6, <1>10

-----------------------------------------------------------------------------
(* The state of commitTxs                                                  *)

Messages ==
  {NoError, "Input spent more then once in same block", "Unknown input", "Vout too big",
   "Vout already spent", "VerifyScripts failed", "More spent than at the input"}

(* These are errors. *)
LEMMA AreErrors ==
  /\ NoError \in Messages
  /\ NoError \notin {"Input spent more then once in same block", "Unknown input",
                     "Vout too big", "Vout already spent", "VerifyScripts failed",
                     "More spent than at the input", "Out > In", "not run"}
  BY Zenon DEF NoError, Messages

State ==
  [added : SUBSET Real, deleted : SUBSET Real, pool : SUBSET Real,
   sumblockin : Nat, sumblockout : Nat, txinsum : Nat,
   scripts : BOOLEAN, e : Messages, err : Messages, stop : BOOLEAN]

Setup ==
  /\ Coins(utxo) /\ block \in Seq(TxId) /\ Len(block) >= 1
  /\ trusted \in BOOLEAN /\ height \in Nat

LEMMA WordSum == ASSUME NEW x \in Nat, NEW y \in Nat PROVE (x + y) % Word \in Nat
<1>1. x + y \in Nat
  OBVIOUS
<1> QED  BY <1>1, TxAssumption, Remainder

LEMMA InputTaken ==
  ASSUME NEW s, NEW o, InputError(s, utxo, block, o) = NoError
  PROVE  o \notin s.deleted /\ (o \in utxo \/ o \in s.pool)
  BY AreErrors DEF InputError

LEMMA SpendInputType ==
  ASSUME Setup, NEW s \in State, NEW t \in TxId, NEW j \in 1..Len(Ins[t])
  PROVE  SpendInput(s, utxo, block, trusted, t, j) \in State
<1>1. PICK o, err : o = Ins[t][j] /\ err = InputError(s, utxo, block, o)
  OBVIOUS
<1>2. err \in Messages
  <2>1. InputError(s, utxo, block, o) \in Messages
    BY DEF InputError, Messages
  <2> QED  BY <1>1, <2>1
<1>3. ASSUME err = NoError PROVE TakeInput(s, utxo, trusted, t, j) \in State
  <2>1. o \in Real
    BY <1>1, <1>3, InputTaken DEF Setup, Coins, State
  <2>2. (s.txinsum + Value(o)) % Word \in Nat
    BY <2>1, ValueNat, WordSum DEF State
  <2> QED  BY <1>1, <2>1, <2>2 DEF TakeInput, State
<1>4. [s EXCEPT !.e = err] \in State
  BY <1>2 DEF State
<1> QED  BY <1>1, <1>3, <1>4 DEF SpendInput

(* The loop over the inputs of a transaction, *)
LEMMA InputsLoop ==
  ASSUME Setup, NEW s \in State, NEW t \in TxId
  PROVE  \E f \in [0..Len(Ins[t]) -> State] :
           /\ f[0] = [s EXCEPT !.txinsum = 0]
           /\ \A j \in 1..Len(Ins[t]) :
                f[j] = SpendInput(f[j - 1], utxo, block, trusted, t, j)
           /\ SpendInputs(s, utxo, block, trusted, t) = f[Len(Ins[t])]
<1> DEFINE len == Len(Ins[t])
           base == [s EXCEPT !.txinsum = 0]
           step == [j \in 1..len |-> [x \in State |-> SpendInput(x, utxo, block, trusted, t, j)]]
           Solves(f) == f = [j \in 0..len |->
                               IF j = 0 THEN [s EXCEPT !.txinsum = 0]
                               ELSE SpendInput(f[j - 1], utxo, block, trusted, t, j)]
<1>1. len \in Nat /\ base \in State
  <2>1. len \in Nat
    BY TxAssumption
  <2>2. base \in State
    BY DEF State
  <2> QED  BY <2>1, <2>2
<1>2. step \in [1..len -> [State -> State]]
  BY SpendInputType
<1>3. PICK f : f \in [0..len -> State] /\ f[0] = base
               /\ \A j \in 1..len : f[j] = step[j][f[j - 1]]
  <2> HIDE DEF step, len, base
  <2>1. PICK f : Loop(f, len, State, base, step)
    BY <1>1, <1>2, LoopExists, Zenon
  <2> QED  BY <2>1, Zenon DEF Loop
<1>4. \A j \in 1..len : f[j] = SpendInput(f[j - 1], utxo, block, trusted, t, j)
  <2> TAKE j \in 1..len
  <2>1. f[j - 1] \in State
    BY <1>1, <1>3
  <2> QED  BY <1>3, <2>1
<1>5. Solves(f)
  <2> HIDE DEF step
  <2>1. \A j \in 0..len : f[j] = IF j = 0 THEN [s EXCEPT !.txinsum = 0]
                                 ELSE SpendInput(f[j - 1], utxo, block, trusted, t, j)
    BY <1>1, <1>3, <1>4
  <2> QED  BY <1>3, <2>1
<1>6. PICK g : Solves(g) /\ SpendInputs(s, utxo, block, trusted, t) = g[len]
  <2>1. SpendInputs(s, utxo, block, trusted, t) = (CHOOSE g : Solves(g))[len]
    BY DEF SpendInputs
  <2> HIDE DEF Solves
  <2> QED  BY <1>5, <2>1
<1>7. g[0] = base /\ \A j \in 1..len : g[j] = SpendInput(g[j - 1], utxo, block, trusted, t, j)
  <2>1. g[0] = base
    BY <1>1, <1>6
  <2>2. ASSUME NEW j \in 1..len
        PROVE  g[j] = SpendInput(g[j - 1], utxo, block, trusted, t, j)
    <3>1. j \in 0..len /\ j # 0
      BY <1>1
    <3> HIDE DEF step
    <3> QED  BY <1>6, <3>1
  <2> QED  BY <2>1, <2>2
<1> DEFINE G == {j \in 0..len : g[j] \in State}
<1>8. 0 \in G
  BY <1>1, <1>7
<1>9. ASSUME NEW j \in 1..len, j - 1 \in G PROVE j \in G
  <2>1. g[j] \in State
    BY <1>7, <1>9, SpendInputType
  <2> QED  BY <1>1, <2>1
<1>10. G = 0..len
  <2>1. G \in SUBSET (0..len)
    OBVIOUS
  <2> HIDE DEF G
  <2> QED  BY <1>1, <1>8, <1>9, <2>1, Induct
<1>11. g \in [0..len -> State]
  <2>1. \A j \in 0..len : g[j] \in State
    BY <1>10
  <2> QED  BY <1>6, <2>1
<1> QED  BY <1>6, <1>7, <1>11

(* a turn of the loop over the transactions, *)
Spend(s, i) ==
  IF i = 1 THEN [s EXCEPT !.txinsum = 0] ELSE SpendInputs(s, utxo, block, trusted, block[i])

LEMMA SpendType ==
  ASSUME Setup, NEW s \in State, NEW i \in 1..Len(block)
  PROVE  Spend(s, i) \in State
<1>1. block[i] \in TxId
  BY DEF Setup
<1>2. [s EXCEPT !.txinsum = 0] \in State
  BY DEF State
<1>3. SpendInputs(s, utxo, block, trusted, block[i]) \in State
  <2>1. Len(Ins[block[i]]) \in Nat
    BY <1>1, TxAssumption
  <2>2. PICK t : t = block[i] /\ t \in TxId
    BY <1>1
  <2>3. \E f \in [0..Len(Ins[t]) -> State] :
          SpendInputs(s, utxo, block, trusted, t) = f[Len(Ins[t])]
    BY <2>2, InputsLoop, ZenonT(60)
  <2> QED  BY <2>1, <2>2, <2>3
<1> QED  BY <1>2, <1>3 DEF Spend

Turn(s, i) == CommitTx(s, utxo, block, trusted, i)
End(s, i)  == EndTx(s, block[i], i = 1)

LEMMA TurnIs ==
  ASSUME NEW s, NEW i
  PROVE  Turn(s, i) = IF s.err # NoError \/ s.stop THEN s
                      ELSE IF ~Spend(s, i).scripts
                             THEN [Spend(s, i) EXCEPT !.err = "VerifyScripts failed"]
                      ELSE End(AddOutputs(Spend(s, i), block[i]), i)
  BY DEF Turn, CommitTx, Spend, End

LEMMA AddOutputsType ==
  ASSUME NEW s \in State, NEW t \in TxId PROVE AddOutputs(s, t) \in State
<1>1. TxOuts(t) \subseteq Real
  BY TxCoins DEF Coins
<1>2. (s.sumblockin + s.txinsum) % Word \in Nat /\ (s.sumblockout + SumOuts(t)) % Word \in Nat
  BY WordSum, SumOutsIs DEF State
<1> QED  BY <1>1, <1>2 DEF AddOutputs, State

LEMMA TurnType ==
  ASSUME Setup, NEW s \in State, NEW i \in 1..Len(block)
  PROVE  Turn(s, i) \in State
<1>1. block[i] \in TxId
  BY DEF Setup
<1>2. Spend(s, i) \in State /\ AddOutputs(Spend(s, i), block[i]) \in State
  BY <1>1, SpendType, AddOutputsType
<1>3. \A x \in State : End(x, i) \in State
  <2> TAKE x \in State
  <2>1. End(x, i).err \in Messages
    BY DEF End, EndTx, State, Messages
  <2> QED  BY <2>1 DEF End, EndTx, State
<1>4. [Spend(s, i) EXCEPT !.err = "VerifyScripts failed"] \in State
  <2>1. "VerifyScripts failed" \in Messages
    BY DEF Messages
  <2> QED  BY <1>2, <2>1 DEF State
<1> QED  BY <1>2, <1>3, <1>4, TurnIs

Start == StartBlock(block, height)

LEMMA StartType == ASSUME Setup PROVE Start \in State
<1>1. UNION {TxOuts(t) : t \in Txs(block)} \subseteq Real
  <2>1. \A t \in Txs(block) : t \in TxId
    BY DEF Setup, Txs, ToSet
  <2> QED  BY <2>1 DEF Real
<1>2. GetBlockReward(height) % Word \in Nat
  BY RewardNat, TxAssumption, Remainder DEF Setup
<1>3. NoError \in Messages
  BY DEF Messages
<1> QED  BY <1>1, <1>2, <1>3 DEF Start, StartBlock, State

(* and the whole loop. *)
LEMMA TurnsLoop ==
  ASSUME Setup
  PROVE  \E f \in [0..Len(block) -> State] :
           /\ f[0] = Start
           /\ \A i \in 1..Len(block) : f[i] = Turn(f[i - 1], i)
           /\ CommitTxs(utxo, block, trusted, height)
                = [err |-> BlockError(f[Len(block)]), e |-> f[Len(block)].e,
                   added |-> f[Len(block)].added, deleted |-> f[Len(block)].deleted]
<1> DEFINE len == Len(block)
           step == [i \in 1..len |-> [x \in State |-> Turn(x, i)]]
           Solves(f) == f = [i \in 0..len |->
                               IF i = 0 THEN StartBlock(block, height)
                               ELSE CommitTx(f[i - 1], utxo, block, trusted, i)]
           Result(s) == [err |-> BlockError(s), e |-> s.e, added |-> s.added, deleted |-> s.deleted]
<1>1. len \in Nat /\ Start \in State
  BY StartType DEF Setup
<1>2. step \in [1..len -> [State -> State]]
  BY TurnType
<1>3. PICK f : f \in [0..len -> State] /\ f[0] = Start
               /\ \A i \in 1..len : f[i] = step[i][f[i - 1]]
  <2> HIDE DEF step, len
  <2>1. PICK f : Loop(f, len, State, Start, step)
    BY <1>1, <1>2, LoopExists, Zenon
  <2> QED  BY <2>1, Zenon DEF Loop
<1>4. \A i \in 1..len : f[i] = Turn(f[i - 1], i)
  <2> TAKE i \in 1..len
  <2>1. f[i - 1] \in State
    BY <1>1, <1>3
  <2> QED  BY <1>3, <2>1
<1>5. Solves(f)
  <2> HIDE DEF step
  <2>1. \A i \in 0..len : f[i] = IF i = 0 THEN StartBlock(block, height)
                                 ELSE CommitTx(f[i - 1], utxo, block, trusted, i)
    BY <1>1, <1>3, <1>4 DEF Turn, Start
  <2> QED  BY <1>3, <2>1
<1>6. PICK g : Solves(g) /\ CommitTxs(utxo, block, trusted, height) = Result(g[len])
  <2>1. CommitTxs(utxo, block, trusted, height) = Result((CHOOSE g : Solves(g))[len])
    BY DEF CommitTxs
  <2> HIDE DEF Solves, Result
  <2> QED  BY <1>5, <2>1
<1>7. g[0] = Start /\ \A i \in 1..len : g[i] = Turn(g[i - 1], i)
  <2> HIDE DEF step
  <2> QED  BY <1>1, <1>6 DEF Turn, Start
<1> DEFINE G == {i \in 0..len : g[i] \in State}
<1>8. 0 \in G
  BY <1>1, <1>7
<1>9. ASSUME NEW i \in 1..len, i - 1 \in G PROVE i \in G
  <2>1. g[i] \in State
    BY <1>7, <1>9, TurnType
  <2> QED  BY <1>1, <2>1
<1>10. G = 0..len
  <2>1. G \in SUBSET (0..len)
    OBVIOUS
  <2> HIDE DEF G
  <2> QED  BY <1>1, <1>8, <1>9, <2>1, Induct
<1>11. g \in [0..len -> State]
  <2>1. \A i \in 0..len : g[i] \in State
    BY <1>10
  <2> QED  BY <1>6, <2>1
<1> QED  BY <1>6, <1>7, <1>11

-----------------------------------------------------------------------------
(* What a block creates                                                    *)

CreatedBy(i) == SumOver([k \in 1..Len(block) |-> Worth(TxOuts(block[k]))], 1..i)
Own == UNION {TxOuts(t) : t \in Txs(block)}

LEMMA MadeSteps ==
  ASSUME Setup
  PROVE  /\ Made(0) = {} /\ Made(Len(block)) = Own
         /\ \A i \in 1..Len(block) : /\ block[i] \in TxId /\ TxOuts(block[i]) \subseteq Own
                                     /\ Made(i) = Made(i - 1) \cup TxOuts(block[i])
<1>1. Len(block) \in Nat /\ DOMAIN block = 1..Len(block) /\ block \in Seq(TxId)
  BY DEF Setup
<1>2. Txs(block) = {block[i] : i \in 1..Len(block)}
  BY <1>1 DEF Txs, ToSet
<1>3. Made(0) = {}
  BY DEF Made
<1>4. Made(Len(block)) = Own
  BY <1>2 DEF Made, Own
<1>5. ASSUME NEW i \in 1..Len(block)
      PROVE  /\ block[i] \in TxId /\ TxOuts(block[i]) \subseteq Own
             /\ Made(i) = Made(i - 1) \cup TxOuts(block[i])
  <2>1. 1..i = 1..(i - 1) \cup {i}
    BY <1>1
  <2>2. block[i] \in TxId
    BY <1>1
  <2>3. TxOuts(block[i]) \subseteq Own
    BY <1>2 DEF Own
  <2>4. Made(i) = Made(i - 1) \cup TxOuts(block[i])
    BY <2>1 DEF Made
  <2> QED  BY <2>2, <2>3, <2>4
<1> QED  BY <1>3, <1>4, <1>5

LEMMA MadeCoins ==
  ASSUME Setup
  PROVE  Coins(Own) /\ \A i \in 0..Len(block) : Coins(Made(i)) /\ Made(i) \subseteq Own
<1> DEFINE G == {i \in 0..Len(block) : Coins(Made(i)) /\ Made(i) \subseteq Own}
<1>1. Len(block) \in Nat
  BY DEF Setup
<1>2. 0 \in G
  <2>1. Made(0) = {} /\ 0 \in 0..Len(block)
    BY <1>1, MadeSteps
  <2>2. Coins({})
    BY FS_EmptySet DEF Coins
  <2> QED  BY <2>1, <2>2
<1>3. ASSUME NEW i \in 1..Len(block), i - 1 \in G PROVE i \in G
  <2>1. block[i] \in TxId /\ TxOuts(block[i]) \subseteq Own
        /\ Made(i) = Made(i - 1) \cup TxOuts(block[i])
    BY MadeSteps
  <2>2. Coins(TxOuts(block[i]))
    BY <2>1, TxCoins
  <2>3. i \in 0..Len(block)
    BY <1>1
  <2> QED  BY <1>3, <2>1, <2>2, <2>3, WorthBoth
<1>4. G = 0..Len(block)
  <2>1. G \in SUBSET (0..Len(block))
    OBVIOUS
  <2> HIDE DEF G
  <2> QED  BY <1>1, <1>2, <1>3, <2>1, Induct
<1>5. Len(block) \in G
  <2> HIDE DEF G
  <2> QED  BY <1>1, <1>4
<1> QED  BY <1>4, <1>5, MadeSteps

LEMMA CreatedSteps ==
  ASSUME Setup
  PROVE  /\ CreatedBy(0) = 0 /\ CreatedBy(Len(block)) = Created
         /\ \A i \in 1..Len(block) :
              CreatedBy(i) = CreatedBy(i - 1) + Worth(TxOuts(block[i]))
         /\ \A i \in 0..Len(block) : CreatedBy(i) \in Nat
<1> DEFINE n == Len(block)
           F == [k \in 1..n |-> Worth(TxOuts(block[k]))]
<1>1. n \in Nat
  BY DEF Setup
<1>2. \A k \in 1..n : Worth(TxOuts(block[k])) \in Nat
  BY MadeSteps, TxCoins, WorthNat
<1>3. F \in [1..n -> Int] /\ IsFiniteSet(1..n)
  <2>1. F \in [1..n -> Int]
    BY <1>2
  <2>2. IsFiniteSet(1..n)
    BY <1>1, FS_Interval
  <2> QED  BY <2>1, <2>2
<1>4. \A i \in 0..n : CreatedBy(i) = SumOver(F, 1..i) /\ 1..i \in SUBSET (1..n)
  BY <1>1 DEF CreatedBy
<1>5. Created = SumOver(F, 1..n)
  BY DEF Created
<1>6. SumOver(F, {}) = 0
  <2> HIDE DEF F
  <2> QED  BY <1>3, SumTakes
<1>7. CreatedBy(0) = 0
  <2>1. 1..0 = {} /\ 0 \in 0..n
    BY <1>1
  <2> QED  BY <1>4, <1>6, <2>1
<1>8. ASSUME NEW i \in 1..n
      PROVE  CreatedBy(i) = CreatedBy(i - 1) + Worth(TxOuts(block[i])) /\ CreatedBy(i - 1) \in Int
  <2>1. i \in 0..n /\ i - 1 \in 0..n /\ i \in 1..i /\ (1..i) \ {i} = 1..(i - 1) /\ F[i] \in Int
        /\ F[i] = Worth(TxOuts(block[i]))
    BY <1>1, <1>3
  <2>2. 1..i \in SUBSET (1..n) /\ 1..(i - 1) \in SUBSET (1..n)
    BY <1>4, <2>1
  <2>3. \A S \in SUBSET (1..n) :
          SumOver(F, S) \in Int /\ \A x \in S : SumOver(F, S) = F[x] + SumOver(F, S \ {x})
    <3>1. PICK T, f : T = 1..n /\ f = F
      OBVIOUS
    <3>2. IsFiniteSet(T) /\ f \in [T -> Int]
      BY <1>3, <3>1
    <3>3. \A S \in SUBSET T :
            SumOver(f, S) \in Int /\ \A x \in S : SumOver(f, S) = f[x] + SumOver(f, S \ {x})
      BY <3>2, SumTakes
    <3> QED  BY <3>1, <3>3
  <2> HIDE DEF F
  <2>4. SumOver(F, 1..i) = F[i] + SumOver(F, (1..i) \ {i}) /\ SumOver(F, 1..(i - 1)) \in Int
    BY <2>1, <2>2, <2>3
  <2>5. SumOver(F, (1..i) \ {i}) = SumOver(F, 1..(i - 1))
    BY <2>1
  <2>6. CreatedBy(i) = SumOver(F, 1..i) /\ CreatedBy(i - 1) = SumOver(F, 1..(i - 1))
    BY <1>4, <2>1
  <2>7. PICK a, b, c : a = F[i] /\ b = SumOver(F, 1..(i - 1)) /\ c = SumOver(F, 1..i)
    OBVIOUS
  <2>8. c = a + b /\ a \in Int /\ b \in Int
    BY <2>1, <2>4, <2>5, <2>7
  <2>9. c = b + a
    BY <2>8
  <2> QED  BY <2>1, <2>6, <2>7, <2>8, <2>9
<1> DEFINE G == {i \in 0..n : CreatedBy(i) \in Nat}
<1>9. 0 \in G
  BY <1>1, <1>7
<1>10. ASSUME NEW i \in 1..n, i - 1 \in G PROVE i \in G
  <2>1. CreatedBy(i) = CreatedBy(i - 1) + Worth(TxOuts(block[i])) /\ i \in 0..n
    BY <1>1, <1>8
  <2> QED  BY <1>2, <1>10, <2>1
<1>11. G = 0..n
  <2>1. G \in SUBSET (0..n)
    OBVIOUS
  <2> HIDE DEF G
  <2> QED  BY <1>1, <1>9, <1>10, <2>1, Induct
<1>12. CreatedBy(n) = Created
  BY <1>1, <1>4, <1>5
<1> QED  BY <1>7, <1>8, <1>11, <1>12

(* What the block has yet to create is worth no more than the rest of it.  *)
LEMMA RestIsWorth ==
  ASSUME Setup
  PROVE  \A i \in 0..Len(block) : Worth(Own \ Made(i)) + CreatedBy(i) <= Created
<1> DEFINE n == Len(block)
           Fits(i) == Worth(Own \ Made(i)) + CreatedBy(i) <= Created
           G == {k \in 0..n : Fits(n - k)}
<1>1. n \in Nat
  BY DEF Setup
<1>2. 0 \in G
  <2>1. Own \ Made(n) = {} /\ CreatedBy(n) = Created /\ Worth({}) = 0 /\ Created \in Nat
    BY <1>1, MadeSteps, MadeCoins, CreatedSteps, WorthTakes
  <2>2. Fits(n)
    BY <2>1
  <2>3. n - 0 = n /\ 0 \in 0..n
    BY <1>1
  <2> HIDE DEF Fits
  <2> QED  BY <2>2, <2>3
<1>3. ASSUME NEW k \in 1..n, k - 1 \in G PROVE k \in G
  <2>1. PICK i \in 1..n : i = n - (k - 1) /\ n - k = i - 1 /\ k \in 0..n /\ i - 1 \in 0..n /\ i \in 0..n
    BY <1>1
  <2>2. Fits(i)
    BY <1>3, <2>1
  <2> DEFINE O == TxOuts(block[i])
  <2>3. /\ Own \ Made(i - 1) \subseteq (Own \ Made(i)) \cup O
        /\ Coins(O) /\ Coins(Own) /\ Coins(Own \ Made(i)) /\ Coins(Own \ Made(i - 1))
    BY <2>1, MadeSteps, MadeCoins, TxCoins, WorthPart
  <2>4. Worth((Own \ Made(i)) \cup O) <= Worth(Own \ Made(i)) + Worth(O)
        /\ Coins((Own \ Made(i)) \cup O)
    BY <2>3, WorthBoth
  <2>5. Worth(Own \ Made(i - 1)) <= Worth((Own \ Made(i)) \cup O)
    BY <2>3, <2>4, WorthPart
  <2>6. CreatedBy(i) = CreatedBy(i - 1) + Worth(O)
    BY <2>1, CreatedSteps
  <2>7. /\ Worth(Own \ Made(i - 1)) \in Nat /\ Worth(Own \ Made(i)) \in Nat /\ Worth(O) \in Nat
        /\ Worth((Own \ Made(i)) \cup O) \in Nat
        /\ CreatedBy(i) \in Nat /\ CreatedBy(i - 1) \in Nat /\ Created \in Nat
    BY <2>1, <2>3, <2>4, WorthNat, CreatedSteps, <1>1, SMTT(40)
  <2>8. Fits(i - 1)
    <3> HIDE DEF O
    <3> QED  BY <2>2, <2>4, <2>5, <2>6, <2>7
  <2> HIDE DEF Fits
  <2> QED  BY <2>1, <2>8
<1>4. G = 0..n
  <2>1. G \in SUBSET (0..n)
    OBVIOUS
  <2> HIDE DEF G
  <2> QED  BY <1>1, <1>2, <1>3, <2>1, Induct
<1>5. ASSUME NEW i \in 0..n PROVE Fits(i)
  <2>1. n - i \in 0..n /\ n - (n - i) = i
    BY <1>1
  <2>2. n - i \in G
    <3> HIDE DEF G
    <3> QED  BY <1>4, <2>1
  <2> HIDE DEF Fits
  <2> QED  BY <2>1, <2>2
<1> QED  BY <1>5

-----------------------------------------------------------------------------
(* What commitTxs keeps while it goes through a block                      *)

(* The outputs the changes so far leave, and those they take of            *)
(* transactions whose turn has not come.                                   *)
Live(s) == (utxo \cup s.added) \ s.deleted
Owed(s) == s.deleted \ (utxo \cup s.added)

(* After i transactions: an output that nobody took is in the pool, and    *)
(* one of a transaction that had its turn is in added, unless it was taken *)
(* before or is in the database as well.                                   *)
SetsOK(s, i) ==
  /\ s.deleted \subseteq utxo \cup Own /\ s.pool \subseteq Own /\ s.added \subseteq Made(i)
  /\ s.pool \cap s.deleted \subseteq utxo
  /\ s.pool \cap Made(i) \subseteq s.added \cup utxo
  /\ Owed(s) \cap Made(i) = {}
  /\ SpendsBackwards => Owed(s) = {}

(* What is left and what was taken is what there was, what the block       *)
(* created, and what it still owes.                                        *)
MoneyOK(s, i, taken) ==
  /\ Worth(Live(s)) + s.sumblockin + taken
       <= Reward + Worth(utxo) + Worth(Owed(s)) + CreatedBy(i)
  /\ s.sumblockout = CreatedBy(i)

LEMMA SetsCoins ==
  ASSUME Setup, NEW i \in 0..Len(block), NEW s, SetsOK(s, i)
  PROVE  /\ Coins(s.deleted) /\ Coins(s.added) /\ Coins(Live(s)) /\ Coins(Owed(s))
         /\ Owed(s) \subseteq Own \ Made(i)
<1>1. Coins(utxo) /\ Coins(Own) /\ Coins(Made(i))
  BY MadeCoins DEF Setup
<1>2. Coins(utxo \cup Own) /\ Coins(utxo \cup Made(i))
  BY <1>1, WorthBoth
<1>3. Coins(s.deleted) /\ Coins(s.added)
  BY <1>1, <1>2, WorthPart DEF SetsOK
<1>4. Live(s) \subseteq utxo \cup Made(i) /\ Owed(s) \subseteq s.deleted
  BY DEF SetsOK, Live, Owed
<1>5. Coins(Live(s)) /\ Coins(Owed(s))
  BY <1>2, <1>3, <1>4, WorthPart
<1> QED  BY <1>3, <1>5 DEF SetsOK, Owed

(* As long as the money that can be moved is less than Word, so is every   *)
(* sum.                                                                    *)
LEMMA NoSumWraps ==
  ASSUME Setup, NoWrap, NEW i \in 0..Len(block), NEW s \in State, SetsOK(s, i),
         NEW taken \in Nat, MoneyOK(s, i, taken)
  PROVE  s.sumblockin + taken < Word /\ s.sumblockout < Word
<1>1. Coins(Live(s)) /\ Coins(Owed(s)) /\ Owed(s) \subseteq Own \ Made(i)
  BY SetsCoins
<1>2. Coins(Own \ Made(i)) /\ Coins(utxo)
  BY MadeCoins, WorthPart DEF Setup
<1>3. Worth(Owed(s)) <= Worth(Own \ Made(i)) /\ Worth(Own \ Made(i)) + CreatedBy(i) <= Created
  BY <1>1, <1>2, WorthPart, RestIsWorth
<1>4. PICK live, owed, rest, by, had :
        /\ live = Worth(Live(s)) /\ owed = Worth(Owed(s)) /\ rest = Worth(Own \ Made(i))
        /\ by = CreatedBy(i) /\ had = Worth(utxo)
  OBVIOUS
<1>5. live \in Nat /\ owed \in Nat /\ rest \in Nat /\ by \in Nat /\ had \in Nat
  BY <1>1, <1>2, <1>4, WorthNat, CreatedSteps
<1>6. Created \in Nat /\ Reward \in Nat /\ Word \in Nat /\ s.sumblockin \in Nat
  <2>1. Created \in Nat
    <3>1. Len(block) \in 0..Len(block)
      BY DEF Setup
    <3> QED  BY <3>1, CreatedSteps
  <2> QED  BY <2>1, RewardNat, TxAssumption DEF Reward, Setup, State
<1>7. PICK all, reward, in : all = Created /\ reward = Reward /\ in = s.sumblockin
  OBVIOUS
<1>8. /\ owed <= rest /\ rest + by <= all /\ live + in + taken <= reward + had + owed + by
      /\ reward + had + all < Word /\ s.sumblockout = by
  BY <1>3, <1>4, <1>7 DEF MoneyOK, NoWrap
<1>9. in + taken < Word /\ by < Word
  BY <1>5, <1>6, <1>7, <1>8
<1> QED  BY <1>7, <1>8, <1>9

(* An input that is found.                                                 *)
LEMMA SpentIs ==
  ASSUME NEW t \in TxId
  PROVE  Len(Ins[t]) \in Nat /\ Spent(t) = {Ins[t][j] : j \in 1..Len(Ins[t])}
<1>1. Ins[t] \in Seq(Outpoints)
  BY TxAssumption
<1> QED  BY <1>1 DEF Spent, ToSet

LEMMA TakeIs ==
  ASSUME NEW s \in State, NEW t, NEW j,
         NEW r, r = TakeInput(s, utxo, trusted, t, j)
  PROVE  /\ r.scripts <=> s.scripts /\ (trusted \/ <<t, j>> \notin BadScript)
         /\ r.e = s.e /\ r.err = s.err /\ r.stop = s.stop
  BY DEF TakeInput, State

LEMMA TakeSets ==
  ASSUME Setup, NEW i \in 2..Len(block), NEW s \in State, SetsOK(s, i - 1),
         NEW o \in Spent(block[i]), o \notin s.deleted, o \in utxo \/ o \in s.pool,
         NEW r, r.deleted = s.deleted \cup {o}, r.added = s.added,
         r.pool = IF o \in utxo THEN s.pool ELSE s.pool \ {o}
  PROVE  SetsOK(r, i - 1)
<1>1. Len(block) \in Nat
  BY DEF Setup
<1>2. o \in utxo \cup Own
  BY DEF SetsOK
<1>3. o \in Made(i - 1) => o \in utxo \cup s.added
  BY DEF SetsOK
<1>4. SpendsBackwards => o \in utxo \cup s.added
  <2> SUFFICES ASSUME SpendsBackwards, o \notin utxo PROVE o \in Made(i - 1)
    BY <1>3
  <2>1. PICK k \in 1..Len(block) : o \in TxOuts(block[k])
    <3>1. Made(Len(block)) = Own
      BY MadeSteps
    <3> QED  BY <1>2, <3>1 DEF Made
  <2>2. ~(k >= i)
    BY <2>1 DEF SpendsBackwards
  <2>3. k \in 1..(i - 1)
    BY <1>1, <2>2
  <2> QED  BY <2>1, <2>3 DEF Made
<1> QED  BY <1>2, <1>3, <1>4 DEF SetsOK, Owed

LEMMA TakeMoney ==
  ASSUME Setup, NoWrap, NEW i \in 2..Len(block), NEW s \in State, SetsOK(s, i - 1),
         NEW o \in Real, o \notin s.deleted,
         NEW r \in State, SetsOK(r, i - 1), r.deleted = s.deleted \cup {o}, r.added = s.added,
         r.sumblockin = s.sumblockin, r.sumblockout = s.sumblockout,
         r.txinsum = (s.txinsum + Value(o)) % Word,
         MoneyOK(s, i - 1, s.txinsum)
  PROVE  MoneyOK(r, i - 1, r.txinsum) /\ r.txinsum = s.txinsum + Value(o)
<1>1. i - 1 \in 0..Len(block)
  BY DEF Setup
<1>2. Coins(Live(s)) /\ Coins(Owed(s)) /\ Coins(Live(r)) /\ Coins(Owed(r))
  BY <1>1, SetsCoins
<1>3. PICK v, sum : v = Value(o) /\ sum = s.txinsum + v
  OBVIOUS
<1>4. v \in Nat /\ s.txinsum \in Nat /\ s.sumblockin \in Nat /\ sum \in Nat
  <2>1. v \in Nat
    BY <1>3, ValueNat
  <2>2. s.txinsum \in Nat /\ s.sumblockin \in Nat
    BY DEF State
  <2> QED  BY <1>3, <2>1, <2>2
<1>5. PICK a, b, c, d : a = Worth(Live(s)) /\ b = Worth(Owed(s))
                        /\ c = Worth(Live(r)) /\ d = Worth(Owed(r))
  OBVIOUS
<1>6. a \in Nat /\ b \in Nat /\ c \in Nat /\ d \in Nat
  BY <1>2, <1>5, WorthNat
<1>7. c + v + b <= a + d
  <2>1. CASE o \in utxo \cup s.added
    <3>1. o \in Live(s) /\ Live(r) = Live(s) \ {o} /\ Owed(r) = Owed(s)
      BY <2>1 DEF Live, Owed
    <3>2. a = v + c /\ d = b
      BY <1>2, <1>3, <1>5, <3>1, WorthTakes
    <3> QED  BY <1>4, <1>6, <3>2
  <2>2. CASE o \notin utxo \cup s.added
    <3>1. o \in Owed(r) /\ Live(r) = Live(s) /\ Owed(s) = Owed(r) \ {o}
      BY <2>2 DEF Live, Owed
    <3>2. d = v + b /\ a = c
      BY <1>2, <1>3, <1>5, <3>1, WorthTakes
    <3> QED  BY <1>4, <1>6, <3>2
  <2> QED  BY <2>1, <2>2
<1>8. MoneyOK(r, i - 1, sum)
  <2>1. PICK in, ti, all : in = s.sumblockin /\ ti = s.txinsum
                           /\ all = Reward + Worth(utxo)
    OBVIOUS
  <2>2. PICK by : by = CreatedBy(i - 1)
    OBVIOUS
  <2>3. all \in Nat /\ by \in Nat
    <3>1. Reward \in Nat /\ Worth(utxo) \in Nat
      BY RewardNat, WorthNat DEF Reward, Setup
    <3> QED  BY <1>1, <2>1, <2>2, <3>1, CreatedSteps
  <2>4. a + in + ti <= all + b + by
    BY <1>5, <2>1, <2>2 DEF MoneyOK
  <2>5. c + in + sum <= all + d + by
    <3>1. in \in Nat /\ ti \in Nat /\ sum = ti + v
      BY <1>3, <1>4, <2>1
    <3>2. PICK x, y : x = in + ti /\ y = all + by
      OBVIOUS
    <3>3. x \in Nat /\ y \in Nat /\ a + x <= y + b
      BY <1>6, <2>3, <2>4, <3>1, <3>2
    <3>4. c + v + x <= y + d
      BY <1>4, <1>6, <1>7, <3>3
    <3> QED  BY <1>4, <1>6, <2>3, <3>1, <3>2, <3>4
  <2> QED  BY <1>5, <2>1, <2>2, <2>5 DEF MoneyOK
<1>9. r.txinsum = sum
  <2>1. s.sumblockin + sum < Word
    BY <1>1, <1>4, <1>8, NoSumWraps
  <2>2. sum < Word
    BY <1>4, <2>1, TxAssumption
  <2> QED  BY <1>3, <1>4, <2>2, TxAssumption, Remainder
<1> QED  BY <1>3, <1>8, <1>9

LEMMA TakeKeeps ==
  ASSUME Setup, NEW i \in 2..Len(block), NEW t, t = block[i], NEW j \in 1..Len(Ins[t]),
         NEW o, o = Ins[t][j], NEW s \in State, SetsOK(s, i - 1),
         o \notin s.deleted, o \in utxo \/ o \in s.pool,
         NEW r, r = TakeInput(s, utxo, trusted, t, j)
  PROVE  /\ r \in State /\ SetsOK(r, i - 1) /\ o \in Real
         /\ NoWrap /\ MoneyOK(s, i - 1, s.txinsum) =>
              MoneyOK(r, i - 1, r.txinsum) /\ r.txinsum = s.txinsum + Value(o)
<1>1. t \in TxId
  <2>1. Len(block) \in Nat
    BY DEF Setup
  <2>2. i \in 1..Len(block)
    BY <2>1
  <2> QED  BY <2>2, MadeSteps
<1>2. o \in Real
  BY DEF Setup, Coins, State
<1>3. o \in Spent(block[i])
  BY <1>1, SpentIs
<1>4. /\ r.deleted = s.deleted \cup {o} /\ r.added = s.added
      /\ r.pool = IF o \in utxo THEN s.pool ELSE s.pool \ {o}
      /\ r.sumblockin = s.sumblockin /\ r.sumblockout = s.sumblockout
      /\ r.txinsum = (s.txinsum + Value(o)) % Word
  BY DEF TakeInput, State
<1>5. r \in State
  <2>1. r.txinsum \in Nat
    BY <1>2, <1>4, ValueNat, WordSum DEF State
  <2>2. r = [s EXCEPT !.deleted = r.deleted, !.pool = r.pool, !.txinsum = r.txinsum,
                      !.scripts = r.scripts]
    BY DEF TakeInput, State
  <2>3. r.deleted \in SUBSET Real /\ r.pool \in SUBSET Real
    BY <1>2, <1>4 DEF State
  <2>4. r.scripts \in BOOLEAN
    BY DEF TakeInput, State
  <2> QED  BY <2>1, <2>2, <2>3, <2>4 DEF State
<1>6. SetsOK(r, i - 1)
  BY <1>3, <1>4, TakeSets
<1>7. NoWrap /\ MoneyOK(s, i - 1, s.txinsum) =>
        MoneyOK(r, i - 1, r.txinsum) /\ r.txinsum = s.txinsum + Value(o)
  BY <1>2, <1>4, <1>5, <1>6, TakeMoney
<1> QED  BY <1>2, <1>5, <1>6, <1>7

-----------------------------------------------------------------------------
(* The inputs of a transaction                                             *)

LEMMA SpendInputIs ==
  ASSUME NEW s \in State, NEW t, NEW j, NEW o, o = Ins[t][j],
         NEW r, r = SpendInput(s, utxo, block, trusted, t, j)
  PROVE  \/ s.e # NoError /\ r = s
         \/ /\ s.e = NoError /\ o \notin s.deleted /\ (o \in utxo \/ o \in s.pool)
            /\ r = TakeInput(s, utxo, trusted, t, j)
         \/ /\ s.e = NoError /\ ~(o \notin s.deleted /\ (o \in utxo \/ o \in s.pool))
            /\ r = [s EXCEPT !.e = r.e] /\ r.e # NoError
<1> DEFINE err == InputError(s, utxo, block, o)
<1>1. (o \notin s.deleted /\ (o \in utxo \/ o \in s.pool)) <=> err = NoError
  BY AreErrors DEF InputError
<1>2. r = IF s.e # NoError THEN s ELSE IF err # NoError THEN [s EXCEPT !.e = err]
          ELSE TakeInput(s, utxo, trusted, t, j)
  BY DEF SpendInput
<1>3. [s EXCEPT !.e = err].e = err
  BY DEF State
<1> HIDE DEF err
<1> QED  BY <1>1, <1>2, <1>3

(* The first j inputs of t.                                                *)
First(t, j) == {Ins[t][k] : k \in 1..j}
Apart(t, j) == \A k, l \in 1..j : Ins[t][k] = Ins[t][l] => k = l

(* r is s after the first j inputs of t. *)
Took(s, r, t, j) ==
  /\ Apart(t, j)
  /\ First(t, j) \cap s.deleted = {} /\ First(t, j) \subseteq utxo \cup s.pool
  /\ r.deleted = s.deleted \cup First(t, j) /\ s.pool \subseteq r.pool \cup First(t, j)
  /\ r.scripts <=> s.scripts /\ (trusted \/ \A k \in 1..j : <<t, k>> \notin BadScript)

(* The inputs are there, once. *)
Finds(s, t) ==
  LET all == Len(Ins[t]) IN
  Apart(t, all) /\ First(t, all) \cap s.deleted = {} /\ First(t, all) \subseteq utxo \cup s.pool

LEMMA FirstSteps ==
  ASSUME NEW t, NEW len \in Nat, NEW j \in 1..len
  PROVE  /\ First(t, 0) = {} /\ First(t, j) = First(t, j - 1) \cup {Ins[t][j]}
         /\ Apart(t, 0) /\ Apart(t, j) => Apart(t, j - 1)
         /\ Apart(t, j) => Ins[t][j] \notin First(t, j - 1)
         /\ Apart(t, j - 1) /\ Ins[t][j] \notin First(t, j - 1) => Apart(t, j)
         /\ First(t, j) \subseteq First(t, len) /\ Apart(t, len) => Apart(t, j)
<1>1. 1..0 = {} /\ 1..j = 1..(j - 1) \cup {j} /\ j \notin 1..(j - 1) /\ 1..j \subseteq 1..len
  OBVIOUS
<1> QED  BY <1>1 DEF First, Apart

LEMMA TookStep ==
  ASSUME Setup, NEW s \in State, NEW r \in State, NEW t \in TxId, NEW j \in 1..Len(Ins[t]),
         NEW o, o = Ins[t][j], Took(s, r, t, j - 1), s.pool \in SUBSET Real,
         o \notin r.deleted, o \in utxo \/ o \in r.pool, r.pool \subseteq s.pool,
         NEW q, q = TakeInput(r, utxo, trusted, t, j)
  PROVE  Took(s, q, t, j)
<1>1. Len(Ins[t]) \in Nat
  BY SpentIs
<1>2. First(t, j) = First(t, j - 1) \cup {o} /\ o \notin First(t, j - 1)
  BY <1>1, FirstSteps DEF Took
<1>3. Apart(t, j)
  BY <1>1, <1>2, FirstSteps DEF Took
<1>4. q.deleted = r.deleted \cup {o} /\ q.pool = IF o \in utxo THEN r.pool ELSE r.pool \ {o}
  BY DEF TakeInput, State
<1>5. q.scripts <=> r.scripts /\ (trusted \/ <<t, j>> \notin BadScript)
  BY TakeIs
<1>6. q.scripts <=> s.scripts /\ (trusted \/ \A k \in 1..j : <<t, k>> \notin BadScript)
  <2>1. 1..j = 1..(j - 1) \cup {j}
    BY <1>1
  <2> QED  BY <1>5, <2>1 DEF Took
<1>7. First(t, j) \cap s.deleted = {} /\ First(t, j) \subseteq utxo \cup s.pool
  BY <1>2 DEF Took
<1>8. q.deleted = s.deleted \cup First(t, j) /\ s.pool \subseteq q.pool \cup First(t, j)
  BY <1>2, <1>4 DEF Took
<1> QED  BY <1>3, <1>6, <1>7, <1>8 DEF Took

(* An input changes nothing else, and adds nothing to the pool.            *)
Frame(s, r) ==
  /\ r.pool \subseteq s.pool /\ r.err = s.err /\ (r.stop <=> s.stop)
  /\ r.added = s.added /\ r.sumblockin = s.sumblockin /\ r.sumblockout = s.sumblockout

(* What the loop over the inputs keeps: s is the state before it, r after  *)
(* j inputs.                                                               *)
InputsOK(s, r, i, t, j) ==
  /\ SetsOK(r, i - 1) /\ Frame(s, r)
  /\ NoWrap /\ MoneyOK(s, i - 1, 0) => MoneyOK(r, i - 1, r.txinsum)
  /\ r.e = NoError => Took(s, r, t, j)
  /\ NoWrap /\ MoneyOK(s, i - 1, 0) /\ r.e = NoError => r.txinsum = Worth(First(t, j))
  /\ Finds(s, t) => r.e = NoError

LEMMA InputsBegin ==
  ASSUME Setup, NEW i \in 2..Len(block), NEW t \in TxId,
         NEW s \in State, s.e = NoError, SetsOK(s, i - 1)
  PROVE  InputsOK(s, [s EXCEPT !.txinsum = 0], i, t, 0)
<1>1. PICK r : r = [s EXCEPT !.txinsum = 0]
  OBVIOUS
<1>2. /\ r.added = s.added /\ r.deleted = s.deleted /\ r.pool = s.pool
      /\ r.sumblockin = s.sumblockin /\ r.sumblockout = s.sumblockout
      /\ r.err = s.err /\ r.e = NoError /\ r.txinsum = 0
      /\ (r.stop <=> s.stop) /\ (r.scripts <=> s.scripts)
  BY <1>1 DEF State
<1>3. 1..0 = {}
  OBVIOUS
<1>4. First(t, 0) = {} /\ Apart(t, 0)
  BY <1>3 DEF First, Apart
<1>5. Took(s, r, t, 0)
  BY <1>2, <1>3, <1>4 DEF Took
<1>6. Worth({}) = 0
  BY WorthTakes, FS_EmptySet DEF Coins
<1>7. SetsOK(r, i - 1)
  BY <1>2 DEF SetsOK, Owed
<1>8. MoneyOK(s, i - 1, 0) => MoneyOK(r, i - 1, 0)
  BY <1>2 DEF MoneyOK, Live, Owed
<1> QED  BY <1>1, <1>2, <1>4, <1>5, <1>6, <1>7, <1>8 DEF InputsOK, Frame

LEMMA InputsStep ==
  ASSUME Setup, NEW i \in 2..Len(block), NEW t \in TxId, t = block[i], NEW j \in 1..Len(Ins[t]),
         NEW s \in State, NEW r \in State, InputsOK(s, r, i, t, j - 1),
         NEW q, q = SpendInput(r, utxo, block, trusted, t, j)
  PROVE  InputsOK(s, q, i, t, j)
<1>1. PICK o : o = Ins[t][j]
  OBVIOUS
<1>2. Len(Ins[t]) \in Nat
  BY SpentIs
<1>3. CASE r.e # NoError /\ q = r
  BY <1>3 DEF InputsOK
<1>4. CASE /\ r.e = NoError /\ ~(o \notin r.deleted /\ (o \in utxo \/ o \in r.pool))
           /\ q = [r EXCEPT !.e = q.e] /\ q.e # NoError
  <2>1. /\ q.added = r.added /\ q.deleted = r.deleted /\ q.pool = r.pool
        /\ q.sumblockin = r.sumblockin /\ q.sumblockout = r.sumblockout
        /\ q.err = r.err /\ (q.stop <=> r.stop) /\ q.txinsum = r.txinsum
    BY <1>4 DEF State
  <2>2. SetsOK(q, i - 1)
    BY <2>1 DEF InputsOK, SetsOK, Owed
  <2>3. MoneyOK(r, i - 1, r.txinsum) => MoneyOK(q, i - 1, q.txinsum)
    BY <2>1 DEF MoneyOK, Live, Owed
  <2>4. ~Finds(s, t)
    <3>1. SUFFICES ASSUME Finds(s, t) PROVE FALSE
      OBVIOUS
    <3>2. Took(s, r, t, j - 1)
      BY <1>4 DEF InputsOK
    <3>3. o \in First(t, Len(Ins[t]))
      BY <1>1 DEF First
    <3>4. o \notin First(t, j - 1)
      <4>1. Apart(t, j)
        BY <3>1 DEF Finds, Apart
      <4> QED  BY <1>1, <1>2, <4>1, FirstSteps
    <3> QED  BY <1>4, <3>1, <3>2, <3>3, <3>4 DEF Finds, Took
  <2>5. Frame(s, q)
    BY <2>1 DEF InputsOK, Frame
  <2> QED  BY <1>4, <2>2, <2>3, <2>4, <2>5 DEF InputsOK
<1>5. CASE /\ r.e = NoError /\ o \notin r.deleted /\ (o \in utxo \/ o \in r.pool)
           /\ q = TakeInput(r, utxo, trusted, t, j)
  <2>1. Took(s, r, t, j - 1) /\ SetsOK(r, i - 1) /\ r.pool \subseteq s.pool
    BY <1>5 DEF InputsOK, Frame
  <2>2. /\ q \in State /\ SetsOK(q, i - 1) /\ o \in Real
        /\ NoWrap /\ MoneyOK(r, i - 1, r.txinsum) =>
             MoneyOK(q, i - 1, q.txinsum) /\ q.txinsum = r.txinsum + Value(o)
    BY <1>1, <1>5, <2>1, TakeKeeps
  <2>3. Frame(r, q) /\ q.e = NoError
    BY <1>5 DEF TakeInput, State, Frame
  <2>4. Took(s, q, t, j)
    <3>1. s.pool \in SUBSET Real
      BY DEF State
    <3> QED  BY <1>1, <1>5, <2>1, <3>1, TookStep
  <2>5. ASSUME NoWrap, MoneyOK(s, i - 1, 0)
        PROVE  MoneyOK(q, i - 1, q.txinsum) /\ q.txinsum = Worth(First(t, j))
    <3>1. MoneyOK(r, i - 1, r.txinsum) /\ r.txinsum = Worth(First(t, j - 1))
      BY <1>5, <2>5 DEF InputsOK
    <3>2. MoneyOK(q, i - 1, q.txinsum) /\ q.txinsum = r.txinsum + Value(o)
      BY <2>2, <2>5, <3>1
    <3>3. /\ First(t, j) = First(t, j - 1) \cup {o} /\ o \notin First(t, j - 1)
      BY <1>1, <1>2, <2>4, FirstSteps DEF Took
    <3>4. Coins(First(t, j))
      <4>1. Len(block) \in Nat
        BY DEF Setup
      <4>2. i - 1 \in 0..Len(block)
        BY <4>1
      <4>3. Coins(q.deleted)
        BY <2>2, <4>2, SetsCoins
      <4>4. First(t, j) \subseteq q.deleted
        BY <2>4 DEF Took
      <4> QED  BY <4>3, <4>4, WorthPart
    <3>5. PICK a, b, v : a = Worth(First(t, j)) /\ b = Worth(First(t, j - 1)) /\ v = Value(o)
      OBVIOUS
    <3>6. a = v + b /\ v \in Nat /\ b \in Nat
      <4>1. First(t, j) \ {o} = First(t, j - 1) /\ o \in First(t, j)
        BY <3>3
      <4>2. Coins(First(t, j - 1))
        BY <3>3, <3>4, WorthPart
      <4> QED  BY <2>2, <3>4, <3>5, <4>1, <4>2, WorthTakes, WorthNat, ValueNat
    <3>7. q.txinsum = a
      <4>1. q.txinsum = b + v
        BY <3>1, <3>2, <3>5
      <4> QED  BY <3>6, <4>1
    <3> QED  BY <3>2, <3>5, <3>7
  <2>6. Frame(s, q)
    BY <2>3 DEF InputsOK, Frame
  <2> QED  BY <2>2, <2>3, <2>4, <2>5, <2>6 DEF InputsOK
<1> QED  BY <1>1, <1>3, <1>4, <1>5, SpendInputIs

(* After the last input. *)
LEMMA InputsEnd ==
  ASSUME Setup, NEW i \in 2..Len(block), NEW t \in TxId, t = block[i],
         NEW s \in State, s.e = NoError, SetsOK(s, i - 1),
         NEW r, r = SpendInputs(s, utxo, block, trusted, t)
  PROVE  r \in State /\ InputsOK(s, r, i, t, Len(Ins[t]))
<1>1. PICK f \in [0..Len(Ins[t]) -> State] :
        /\ f[0] = [s EXCEPT !.txinsum = 0]
        /\ \A j \in 1..Len(Ins[t]) : f[j] = SpendInput(f[j - 1], utxo, block, trusted, t, j)
        /\ r = f[Len(Ins[t])]
  BY InputsLoop
<1> DEFINE len == Len(Ins[t])
           G == {j \in 0..len : InputsOK(s, f[j], i, t, j)}
<1>2. len \in Nat
  BY SpentIs
<1>3. 0 \in G
  <2>1. InputsOK(s, f[0], i, t, 0)
    BY <1>1, InputsBegin
  <2> QED  BY <1>2, <2>1
<1>4. ASSUME NEW j \in 1..len, j - 1 \in G PROVE j \in G
  <2>1. f[j - 1] \in State /\ f[j] = SpendInput(f[j - 1], utxo, block, trusted, t, j)
        /\ InputsOK(s, f[j - 1], i, t, j - 1)
    BY <1>1, <1>2, <1>4
  <2>2. InputsOK(s, f[j], i, t, j)
    BY <2>1, InputsStep
  <2> QED  BY <1>2, <2>2
<1>5. G = 0..len
  <2>1. G \in SUBSET (0..len)
    OBVIOUS
  <2> HIDE DEF G
  <2> QED  BY <1>2, <1>3, <1>4, <2>1, Induct
<1>6. len \in 0..len
  BY <1>2
<1>7. InputsOK(s, f[len], i, t, len)
  BY <1>5, <1>6
<1> QED  BY <1>1, <1>6, <1>7

-----------------------------------------------------------------------------
(* The outputs of a transaction                                            *)

LEMMA AddIs ==
  ASSUME NEW r \in State, NEW t, NEW q, q = AddOutputs(r, t)
  PROVE  /\ q.added = r.added \cup (TxOuts(t) \ r.deleted) /\ q.deleted = r.deleted \ TxOuts(t)
         /\ q.sumblockin = (r.sumblockin + r.txinsum) % Word
         /\ q.sumblockout = (r.sumblockout + SumOuts(t)) % Word
         /\ q.pool = r.pool /\ q.txinsum = r.txinsum /\ q.e = r.e /\ q.err = r.err
         /\ (q.scripts <=> r.scripts) /\ (q.stop <=> r.stop)
  BY DEF AddOutputs, State

LEMMA AddSets ==
  ASSUME Setup, NEW i \in 1..Len(block), NEW r \in State, SetsOK(r, i - 1),
         NEW q, q.added = r.added \cup (TxOuts(block[i]) \ r.deleted),
         q.deleted = r.deleted \ TxOuts(block[i]), q.pool = r.pool
  PROVE  /\ SetsOK(q, i)
         /\ Live(q) = Live(r) \cup (TxOuts(block[i]) \ Owed(r))
         /\ Owed(q) = Owed(r) \ TxOuts(block[i])
<1>1. Made(i) = Made(i - 1) \cup TxOuts(block[i]) /\ TxOuts(block[i]) \subseteq Own
  BY MadeSteps
<1>2. Live(q) = Live(r) \cup (TxOuts(block[i]) \ Owed(r)) /\ Owed(q) = Owed(r) \ TxOuts(block[i])
  BY DEF Live, Owed
<1>3. /\ q.deleted \subseteq utxo \cup Own /\ q.pool \subseteq Own /\ q.added \subseteq Made(i)
      /\ q.pool \cap q.deleted \subseteq utxo
      /\ q.pool \cap Made(i) \subseteq q.added \cup utxo
  BY <1>1 DEF SetsOK
<1>4. Owed(q) \cap Made(i) = {} /\ (SpendsBackwards => Owed(q) = {})
  BY <1>1, <1>2 DEF SetsOK
<1> QED  BY <1>2, <1>3, <1>4 DEF SetsOK

LEMMA CreatedFits ==
  ASSUME Setup, NoWrap, NEW i \in 1..Len(block)
  PROVE  /\ CreatedBy(i) < Word /\ Worth(TxOuts(block[i])) \in Nat
         /\ Worth(TxOuts(block[i])) < Word
         /\ CreatedBy(i) = CreatedBy(i - 1) + Worth(TxOuts(block[i]))
<1>1. i \in 0..Len(block) /\ i - 1 \in 0..Len(block) /\ Len(block) \in 0..Len(block)
  BY DEF Setup
<1>2. PICK rest, by, old, out : /\ rest = Worth(Own \ Made(i)) /\ by = CreatedBy(i)
                                /\ old = CreatedBy(i - 1) /\ out = Worth(TxOuts(block[i]))
  OBVIOUS
<1>3. Coins(Own \ Made(i)) /\ Coins(TxOuts(block[i])) /\ Coins(utxo)
  BY MadeSteps, MadeCoins, WorthPart, TxCoins DEF Setup
<1>4. rest \in Nat /\ by \in Nat /\ old \in Nat /\ out \in Nat /\ by = old + out
  BY <1>1, <1>2, <1>3, WorthNat, CreatedSteps
<1>5. Created \in Nat /\ Reward \in Nat /\ Worth(utxo) \in Nat /\ Word \in Nat
  BY <1>1, <1>3, CreatedSteps, WorthNat, RewardNat, TxAssumption DEF Reward, Setup
<1>6. rest + by <= Created
  BY <1>1, <1>2, RestIsWorth
<1>7. by < Word /\ out < Word
  <2>1. PICK all, reward, had : all = Created /\ reward = Reward /\ had = Worth(utxo)
    OBVIOUS
  <2>2. reward + had + all < Word
    BY <2>1 DEF NoWrap
  <2> QED  BY <1>4, <1>5, <1>6, <2>1, <2>2
<1> QED  BY <1>2, <1>4, <1>7

LEMMA AddMoney ==
  ASSUME Setup, NoWrap, NEW i \in 1..Len(block), NEW r \in State, SetsOK(r, i - 1),
         MoneyOK(r, i - 1, r.txinsum),
         NEW q \in State, SetsOK(q, i),
         Live(q) = Live(r) \cup (TxOuts(block[i]) \ Owed(r)),
         Owed(q) = Owed(r) \ TxOuts(block[i]),
         q.sumblockin = (r.sumblockin + r.txinsum) % Word,
         q.sumblockout = (r.sumblockout + SumOuts(block[i])) % Word
  PROVE  MoneyOK(q, i, 0) /\ q.sumblockin = r.sumblockin + r.txinsum
<1> DEFINE O == TxOuts(block[i])
<1>1. i \in 0..Len(block) /\ i - 1 \in 0..Len(block)
  BY DEF Setup
<1>2. block[i] \in TxId /\ Coins(O)
  BY MadeSteps, TxCoins
<1>3. Coins(Live(r)) /\ Coins(Owed(r)) /\ Coins(Live(q)) /\ Coins(Owed(q))
  BY <1>1, SetsCoins
<1>4. PICK new, shared : new = Worth(O \ Owed(r)) /\ shared = Worth(O \cap Owed(r))
  OBVIOUS
<1>5. PICK a, b, c, d, out : /\ a = Worth(Live(r)) /\ b = Worth(Owed(r))
                             /\ c = Worth(Live(q)) /\ d = Worth(Owed(q)) /\ out = Worth(O)
  OBVIOUS
<1>6. /\ Coins(O \ Owed(r)) /\ Coins(O \cap Owed(r))
      /\ O = (O \ Owed(r)) \cup (O \cap Owed(r)) /\ (O \ Owed(r)) \cap (O \cap Owed(r)) = {}
      /\ Owed(r) = Owed(q) \cup (O \cap Owed(r)) /\ Owed(q) \cap (O \cap Owed(r)) = {}
  <2>1. Coins(O \ Owed(r)) /\ Coins(O \cap Owed(r))
    <3>1. O \ Owed(r) \subseteq O /\ O \cap Owed(r) \subseteq O
      OBVIOUS
    <3> QED  BY <1>2, <3>1, WorthPart
  <2> QED  BY <2>1
<1>7. out = new + shared /\ b = d + shared /\ c <= a + new
  <2> HIDE DEF O
  <2>1. out = new + shared
    BY <1>4, <1>5, <1>6, WorthUnion
  <2>2. b = d + shared
    BY <1>3, <1>4, <1>5, <1>6, WorthUnion
  <2>3. c <= a + new
    BY <1>3, <1>4, <1>5, <1>6, WorthBoth DEF O
  <2> QED  BY <2>1, <2>2, <2>3
<1>8. a \in Nat /\ b \in Nat /\ c \in Nat /\ d \in Nat /\ out \in Nat /\ new \in Nat /\ shared \in Nat
  <2> HIDE DEF O
  <2> QED  BY <1>2, <1>3, <1>4, <1>5, <1>6, WorthNat
<1>9. c + b <= a + out + d
  BY <1>7, <1>8
<1>10. PICK in, ti, by, old, all : /\ in = r.sumblockin /\ ti = r.txinsum
                                   /\ by = CreatedBy(i) /\ old = CreatedBy(i - 1)
                                   /\ all = Reward + Worth(utxo)
  OBVIOUS
<1>11. in \in Nat /\ ti \in Nat /\ by \in Nat /\ old \in Nat /\ all \in Nat /\ by = old + out
       /\ by < Word /\ out < Word
  <2>1. in \in Nat /\ ti \in Nat
    BY <1>10 DEF State
  <2>2. Reward \in Nat /\ Worth(utxo) \in Nat
    BY RewardNat, WorthNat DEF Reward, Setup
  <2>3. by \in Nat /\ old \in Nat
    BY <1>1, <1>10, CreatedSteps
  <2>4. by = old + out /\ by < Word /\ out < Word
    BY <1>5, <1>10, CreatedFits
  <2> QED  BY <1>10, <2>1, <2>2, <2>3, <2>4
<1>12. a + in + ti <= all + b + old /\ r.sumblockout = old
  BY <1>5, <1>10 DEF MoneyOK
<1>13. q.sumblockin = in + ti
  <2>1. in + ti < Word
    BY <1>1, <1>10, <1>11, NoSumWraps
  <2>2. in + ti \in Nat
    BY <1>11
  <2> QED  BY <1>10, <2>1, <2>2, TxAssumption, Remainder
<1>14. q.sumblockout = by
  <2>1. SumOuts(block[i]) = out
    BY <1>2, <1>5, <1>11, SumOutsIs
  <2>2. q.sumblockout = by % Word
    BY <1>11, <1>12, <2>1
  <2> QED  BY <1>11, <2>2, TxAssumption, Remainder
<1>15. c + (in + ti) + 0 <= all + d + by
  BY <1>8, <1>9, <1>11, <1>12
<1> QED  BY <1>5, <1>10, <1>13, <1>14, <1>15 DEF MoneyOK

-----------------------------------------------------------------------------
(* The turn of a transaction                                               *)

LEMMA EndIs ==
  ASSUME NEW a \in State, NEW i,
         NEW q, q = End(a, i)
  PROVE  /\ q.added = a.added /\ q.deleted = a.deleted /\ q.pool = a.pool
         /\ q.sumblockin = a.sumblockin /\ q.sumblockout = a.sumblockout
         /\ (q.scripts <=> a.scripts) /\ q.e = a.e /\ (q.stop <=> a.e # NoError)
         /\ q.err = NoError <=> i = 1 \/ ~(SumOuts(block[i]) > a.txinsum)
<1>1. /\ q.added = a.added /\ q.deleted = a.deleted /\ q.pool = a.pool
      /\ q.sumblockin = a.sumblockin /\ q.sumblockout = a.sumblockout
      /\ (q.scripts <=> a.scripts) /\ q.e = a.e /\ (q.stop <=> a.e # NoError)
  BY DEF End, EndTx, State
<1>2. q.err = IF i # 1 /\ SumOuts(block[i]) > a.txinsum
                THEN "More spent than at the input" ELSE NoError
  BY DEF End, EndTx, State
<1>3. q.err = NoError <=> i = 1 \/ ~(SumOuts(block[i]) > a.txinsum)
  BY <1>2, AreErrors
<1> QED  BY <1>1, <1>3

(* A turn that does something: p after the inputs, a after the outputs.    *)
LEMMA TurnDoes ==
  ASSUME NEW s, NEW i, s.err = NoError, ~s.stop, NEW p, p = Spend(s, i),
         NEW q, q = Turn(s, i)
  PROVE  \/ ~p.scripts /\ q = [p EXCEPT !.err = "VerifyScripts failed"]
         \/ p.scripts /\ q = End(AddOutputs(p, block[i]), i)
  BY TurnIs

(* What the inputs leave, the coinbase's too.                              *)
LEMMA SpendKeeps ==
  ASSUME Setup, NEW i \in 1..Len(block), NEW s \in State, s.e = NoError, SetsOK(s, i - 1),
         NEW p, p = Spend(s, i)
  PROVE  /\ p \in State /\ SetsOK(p, i - 1)
         /\ NoWrap /\ MoneyOK(s, i - 1, 0) => MoneyOK(p, i - 1, p.txinsum)
<1>1. block[i] \in TxId /\ Len(block) \in Nat
  BY MadeSteps DEF Setup
<1>2. CASE i = 1
  <2>1. p = [s EXCEPT !.txinsum = 0]
    BY <1>2 DEF Spend
  <2>2. /\ p \in State /\ p.added = s.added /\ p.deleted = s.deleted /\ p.pool = s.pool
        /\ p.sumblockin = s.sumblockin /\ p.sumblockout = s.sumblockout /\ p.txinsum = 0
    BY <2>1 DEF State
  <2>3. SetsOK(p, i - 1)
    BY <2>2 DEF SetsOK, Owed
  <2>4. MoneyOK(s, i - 1, 0) => MoneyOK(p, i - 1, p.txinsum)
    BY <2>2 DEF MoneyOK, Live, Owed
  <2> QED  BY <2>2, <2>3, <2>4
<1>3. CASE i # 1
  <2>1. i \in 2..Len(block)
    BY <1>1, <1>3
  <2>2. p = SpendInputs(s, utxo, block, trusted, block[i])
    BY <1>3 DEF Spend
  <2>3. p \in State /\ InputsOK(s, p, i, block[i], Len(Ins[block[i]]))
    BY <1>1, <2>1, <2>2, InputsEnd
  <2> QED  BY <2>3 DEF InputsOK
<1> QED  BY <1>2, <1>3

(* The state s after i turns: what SetsOK and MoneyOK say of the           *)
(* transactions that had their turn, which are all unless the loop stopped.*)
TurnsOK(s, i) ==
  s.err = NoError =>
    /\ s.stop <=> s.e # NoError
    /\ \E m \in 0..i : SetsOK(s, m) /\ (NoWrap => MoneyOK(s, m, 0)) /\ (~s.stop => m = i)

LEMMA TurnKeeps ==
  ASSUME Setup, NEW i \in 1..Len(block), NEW s \in State, TurnsOK(s, i - 1),
         NEW q, q = Turn(s, i)
  PROVE  TurnsOK(q, i)
<1>1. block[i] \in TxId /\ Len(block) \in Nat /\ i \in 0..i /\ 0..(i - 1) \subseteq 0..i
  BY MadeSteps DEF Setup
<1>2. CASE s.err # NoError \/ s.stop
  <2>1. q = s
    BY <1>2, TurnIs
  <2> QED  BY <1>1, <1>2, <2>1 DEF TurnsOK
<1>3. CASE s.err = NoError /\ ~s.stop
  <2>1. s.e = NoError /\ SetsOK(s, i - 1) /\ (NoWrap => MoneyOK(s, i - 1, 0))
    BY <1>3 DEF TurnsOK
  <2>2. PICK p : p = Spend(s, i)
    OBVIOUS
  <2>3. /\ p \in State /\ SetsOK(p, i - 1)
        /\ NoWrap => MoneyOK(p, i - 1, p.txinsum)
    BY <2>1, <2>2, SpendKeeps
  <2>4. CASE ~p.scripts /\ q = [p EXCEPT !.err = "VerifyScripts failed"]
    <3>1. q.err # NoError
      BY <2>3, <2>4, AreErrors DEF State
    <3> QED  BY <3>1 DEF TurnsOK
  <2>5. CASE p.scripts /\ q = End(AddOutputs(p, block[i]), i)
    <3>1. PICK a : a = AddOutputs(p, block[i])
      OBVIOUS
    <3>2. /\ a.added = p.added \cup (TxOuts(block[i]) \ p.deleted)
          /\ a.deleted = p.deleted \ TxOuts(block[i])
          /\ a.sumblockin = (p.sumblockin + p.txinsum) % Word
          /\ a.sumblockout = (p.sumblockout + SumOuts(block[i])) % Word
          /\ a.pool = p.pool /\ a \in State
      BY <1>1, <2>3, <3>1, AddIs, AddOutputsType
    <3>3. /\ SetsOK(a, i)
          /\ Live(a) = Live(p) \cup (TxOuts(block[i]) \ Owed(p))
          /\ Owed(a) = Owed(p) \ TxOuts(block[i])
      BY <2>3, <3>2, AddSets
    <3>4. NoWrap => MoneyOK(a, i, 0)
      BY <2>3, <3>2, <3>3, AddMoney
    <3>5. /\ q.added = a.added /\ q.deleted = a.deleted /\ q.pool = a.pool
          /\ q.sumblockin = a.sumblockin /\ q.sumblockout = a.sumblockout
          /\ q.e = a.e /\ (q.stop <=> a.e # NoError)
      BY <1>1, <2>5, <3>1, <3>2, EndIs
    <3>6. SetsOK(q, i)
      BY <3>3, <3>5 DEF SetsOK, Owed
    <3>7. NoWrap => MoneyOK(q, i, 0)
      BY <3>4, <3>5 DEF MoneyOK, Live, Owed
    <3> QED  BY <1>1, <3>5, <3>6, <3>7 DEF TurnsOK
  <2> QED  BY <1>3, <2>2, <2>4, <2>5, TurnDoes
<1> QED  BY <1>2, <1>3

LEMMA StartIs ==
  ASSUME Setup
  PROVE  TurnsOK(Start, 0) /\ Start.e = NoError /\ Start.err = NoError /\ Start.scripts
         /\ Start.deleted = {} /\ Start.added = {} /\ Start.pool = Own
         /\ (NoWrap => Start.sumblockin = Reward)
<1>1. PICK s : s = Start
  OBVIOUS
<1>2. /\ s.added = {} /\ s.deleted = {} /\ s.pool = Own /\ s.sumblockin = Reward % Word
      /\ s.sumblockout = 0 /\ s.scripts /\ s.e = NoError /\ s.err = NoError /\ ~s.stop
  BY <1>1 DEF Start, StartBlock, Own, Reward
<1>3. 0 \in 0..Len(block) /\ Len(block) \in 0..Len(block)
  BY DEF Setup
<1>4. Made(0) = {} /\ CreatedBy(0) = 0
  BY <1>3, MadeSteps, CreatedSteps
<1>5. SetsOK(s, 0)
  BY <1>2, <1>4 DEF SetsOK, Owed
<1>6. Coins({}) /\ Worth({}) = 0
  BY WorthTakes, FS_EmptySet DEF Coins
<1>7. Reward \in Nat /\ Worth(utxo) \in Nat /\ Created \in Nat
  BY <1>3, RewardNat, WorthNat, CreatedSteps DEF Reward, Setup
<1>8. NoWrap => s.sumblockin = Reward
  <2> SUFFICES ASSUME NoWrap PROVE s.sumblockin = Reward
    OBVIOUS
  <2>1. PICK reward, had, all : reward = Reward /\ had = Worth(utxo) /\ all = Created
    OBVIOUS
  <2>2. reward + had + all < Word
    BY <2>1 DEF NoWrap
  <2>3. reward < Word
    BY <1>7, <2>1, <2>2, TxAssumption
  <2> QED  BY <1>2, <1>7, <2>1, <2>3, TxAssumption, Remainder
<1>9. NoWrap => MoneyOK(s, 0, 0)
  <2>1. Live(s) = utxo /\ Owed(s) = {}
    BY <1>2 DEF Live, Owed
  <2>2. PICK reward, had : reward = Reward /\ had = Worth(utxo)
    OBVIOUS
  <2>3. had + reward + 0 <= reward + had + 0 + 0
    BY <1>7, <2>2
  <2> QED  BY <1>2, <1>4, <1>6, <1>8, <2>1, <2>2, <2>3 DEF MoneyOK
<1>10. TurnsOK(s, 0)
  <2>1. 0 \in 0..0
    OBVIOUS
  <2> QED  BY <1>2, <1>5, <1>9, <2>1 DEF TurnsOK
<1> QED  BY <1>1, <1>2, <1>8, <1>10

-----------------------------------------------------------------------------
(* The rule of the ledger                                                  *)

FeesTo(i) == SumOver([k \in 2..Len(block) |-> Fees(block[k])], 2..i)
Valid(i)  == \A k \in 2..i : ValidTx(k)
Claims    == Worth(TxOuts(block[1]))

(* After i valid transactions. *)
Follows(s, i) ==
  /\ s.deleted = SpentTo(i) /\ s.added = Made(i) /\ Own \subseteq s.pool \cup s.deleted
  /\ s.scripts
  /\ i = 0 => s.sumblockin = Reward
  /\ i # 0 => s.sumblockin + Claims = Reward + FeesTo(i) + CreatedBy(i)

(* The transactions so far are valid when nothing failed so far.           *)
Judges(s, i) ==
  /\ Valid(i) <=> s.err = NoError /\ s.e = NoError
  /\ Valid(i) => Follows(s, i)

LEMMA SpentCoins ==
  ASSUME NEW t \in TxId, Spent(t) \subseteq Real
  PROVE  Coins(Spent(t)) /\ Fees(t) \in Int
<1>1. Len(Ins[t]) \in Nat /\ Spent(t) = {Ins[t][j] : j \in 1..Len(Ins[t])}
  BY SpentIs
<1> DEFINE f == [j \in 1..Len(Ins[t]) |-> Ins[t][j]]
<1>2. f \in Surjection(1..Len(Ins[t]), Spent(t))
  BY <1>1 DEF Surjection
<1>3. IsFiniteSet(Spent(t))
  <2> HIDE DEF f
  <2> QED  BY <1>1, <1>2, FS_Interval, FS_Surjection
<1>4. Worth(Spent(t)) \in Nat /\ Worth(TxOuts(t)) \in Nat
  BY <1>3, WorthNat, TxCoins DEF Coins
<1> QED  BY <1>3, <1>4 DEF Coins, Fees

LEMMA ValidSteps ==
  ASSUME Setup, NEW i \in 2..Len(block)
  PROVE  Valid(i) <=> Valid(i - 1) /\ ValidTx(i)
<1>1. 2..i = 2..(i - 1) \cup {i}
  BY DEF Setup
<1> QED  BY <1>1 DEF Valid

LEMMA SpentSteps ==
  ASSUME Setup, NEW i \in 2..Len(block)
  PROVE  SpentTo(i) = SpentTo(i - 1) \cup Spent(block[i])
<1>1. 2..i = 2..(i - 1) \cup {i}
  BY DEF Setup
<1> QED  BY <1>1 DEF SpentTo

(* Fees are amounts of money while the inputs exist.                       *)
LEMMA FeesSteps ==
  ASSUME Setup
  PROVE  /\ FeesTo(1) = 0
         /\ \A i \in 2..Len(block) :
              (\A k \in 2..i : Fees(block[k]) \in Int) =>
                FeesTo(i) = FeesTo(i - 1) + Fees(block[i]) /\ FeesTo(i - 1) \in Int
<1> DEFINE n == Len(block)
           F == [k \in 2..n |-> Fees(block[k])]
<1>1. n \in Nat
  BY DEF Setup
<1>2. FeesTo(1) = 0
  <2>1. 2..1 = {}
    OBVIOUS
  <2>2. SumOver(F, {}) = 0
    <3> DEFINE Z == [k \in {} |-> 0]
    <3>1. Z \in [{} -> Int] /\ IsFiniteSet({})
      BY FS_EmptySet
    <3>2. SumOver(Z, {}) = 0
      <4> HIDE DEF Z
      <4> QED  BY <3>1, SumTakes
    <3>3. SumOver(F, {}) = SumOver(Z, {})
      <4> HIDE DEF Z, F
      <4> QED  BY SumSame
    <3> QED  BY <3>2, <3>3
  <2> QED  BY <2>1, <2>2 DEF FeesTo
<1>3. ASSUME NEW i \in 2..n, \A k \in 2..i : Fees(block[k]) \in Int
      PROVE  FeesTo(i) = FeesTo(i - 1) + Fees(block[i]) /\ FeesTo(i - 1) \in Int
  <2>1. PICK T, f : T = 2..i /\ f = [k \in 2..i |-> Fees(block[k])]
    OBVIOUS
  <2>2. f \in [T -> Int] /\ IsFiniteSet(T)
    <3>1. IsFiniteSet(2..i)
      BY <1>1, FS_Interval
    <3> QED  BY <1>3, <2>1, <3>1
  <2>3. i \in 2..i /\ (2..i) \ {i} = 2..(i - 1) /\ 2..(i - 1) \in SUBSET (2..i)
        /\ 2..i \subseteq 2..n
    BY <1>1
  <2>4. \A S \in SUBSET T :
          SumOver(f, S) \in Int /\ \A x \in S : SumOver(f, S) = f[x] + SumOver(f, S \ {x})
    BY <2>2, SumTakes
  <2>5. SumOver(f, 2..i) = f[i] + SumOver(f, 2..(i - 1)) /\ SumOver(f, 2..(i - 1)) \in Int
    <3>1. PICK A : A = 2..(i - 1)
      OBVIOUS
    <3>2. T \in SUBSET T /\ A \in SUBSET T /\ i \in T /\ T \ {i} = A
      BY <2>1, <2>3, <3>1
    <3>3. SumOver(f, T) = f[i] + SumOver(f, A) /\ SumOver(f, A) \in Int
      BY <2>4, <3>2
    <3> QED  BY <2>1, <3>1, <3>3
  <2>6. \A k \in 2..i : F[k] = f[k]
    BY <2>1, <2>3
  <2>7. f[i] = Fees(block[i])
    BY <2>1, <2>3
  <2>8. FeesTo(i) = SumOver(f, 2..i) /\ FeesTo(i - 1) = SumOver(f, 2..(i - 1))
    <3>1. FeesTo(i) = SumOver(F, 2..i) /\ FeesTo(i - 1) = SumOver(F, 2..(i - 1))
      BY DEF FeesTo
    <3> HIDE DEF F
    <3>2. SumOver(F, 2..i) = SumOver(f, 2..i)
      BY <2>6, SumSame
    <3>3. \A k \in 2..(i - 1) : F[k] = f[k]
      BY <2>3, <2>6
    <3>4. SumOver(F, 2..(i - 1)) = SumOver(f, 2..(i - 1))
      BY <3>3, SumSame
    <3> QED  BY <3>1, <3>2, <3>4
  <2>9. PICK a, b : a = f[i] /\ b = SumOver(f, 2..(i - 1))
    OBVIOUS
  <2>10. a \in Int /\ b \in Int
    BY <2>1, <2>2, <2>3, <2>5, <2>9
  <2>11. a + b = b + a
    BY <2>10
  <2> QED  BY <2>5, <2>7, <2>8, <2>9, <2>11
<1> QED  BY <1>2, <1>3

LEMMA ValidMoney ==
  ASSUME Setup, NEW i \in 0..Len(block), Valid(i)
  PROVE  \A k \in 2..i : block[k] \in TxId /\ Coins(Spent(block[k])) /\ Fees(block[k]) \in Int
<1> SUFFICES ASSUME NEW k \in 2..i
             PROVE  block[k] \in TxId /\ Coins(Spent(block[k])) /\ Fees(block[k]) \in Int
  OBVIOUS
<1>1. Len(block) \in Nat
  BY DEF Setup
<1>2. k \in 1..Len(block) /\ k - 1 \in 0..Len(block)
  BY <1>1
<1>3. block[k] \in TxId /\ Coins(Made(k - 1)) /\ Coins(utxo)
  BY <1>2, MadeSteps, MadeCoins DEF Setup
<1>4. Spent(block[k]) \subseteq Before(k)
  BY DEF Valid, ValidTx
<1>5. Spent(block[k]) \subseteq Real
  BY <1>3, <1>4 DEF Before, Coins
<1> QED  BY <1>3, <1>5, SpentCoins

(* The inputs of a transaction that are there when its turn comes.         *)
LEMMA FoundIsUnspent ==
  ASSUME Setup, SpendsBackwards, NEW i \in 2..Len(block), NEW t, t = block[i],
         NEW s, SetsOK(s, i - 1), Follows(s, i - 1)
  PROVE  Finds(s, t) <=> Spent(t) \subseteq Before(i) /\ IsInjective(Ins[t])
<1>1. Len(block) \in Nat /\ i \in 1..Len(block) /\ t \in TxId
  <2>1. Len(block) \in Nat
    BY DEF Setup
  <2>2. i \in 1..Len(block)
    BY <2>1
  <2> QED  BY <2>1, <2>2, MadeSteps
<1>2. First(t, Len(Ins[t])) = Spent(t)
  BY <1>1, SpentIs DEF First
<1>3. Apart(t, Len(Ins[t])) <=> IsInjective(Ins[t])
  <2>1. DOMAIN Ins[t] = 1..Len(Ins[t])
    BY <1>1, TxAssumption
  <2> QED  BY <2>1 DEF Apart, IsInjective
<1>4. Spent(t) \cap Own \subseteq Made(i - 1)
  <2> SUFFICES ASSUME NEW o \in Spent(t), o \in Own PROVE o \in Made(i - 1)
    OBVIOUS
  <2>1. Made(Len(block)) = Own
    BY MadeSteps
  <2>2. PICK k \in 1..Len(block) : o \in TxOuts(block[k])
    BY <2>1 DEF Made
  <2>3. ~(k >= i)
    BY <2>2 DEF SpendsBackwards
  <2>4. k \in 1..(i - 1)
    BY <1>1, <2>3
  <2> QED  BY <2>2, <2>4 DEF Made
<1>5. Made(i - 1) \subseteq Own
  <2>1. i - 1 \in 0..Len(block)
    BY <1>1
  <2> QED  BY <2>1, MadeCoins
<1>6. /\ s.deleted = SpentTo(i - 1) /\ Own \subseteq s.pool \cup s.deleted /\ s.pool \subseteq Own
  BY DEF Follows, SetsOK
<1>7. Spent(t) \cap s.deleted = {} /\ Spent(t) \subseteq utxo \cup s.pool
      <=> Spent(t) \subseteq (utxo \cup Made(i - 1)) \ SpentTo(i - 1)
  BY <1>4, <1>5, <1>6
<1> QED  BY <1>2, <1>3, <1>7 DEF Finds, Before

(* What the changes are when a valid transaction is done.                  *)
LEMMA FollowsSets ==
  ASSUME Setup, SpendsBackwards, NEW i \in 2..Len(block), NEW t, t = block[i],
         NEW s, Follows(s, i - 1),
         NEW p, p.added = s.added, p.deleted = s.deleted \cup Spent(t),
         s.pool \subseteq p.pool \cup Spent(t),
         NEW q, q.added = p.added \cup (TxOuts(t) \ p.deleted),
         q.deleted = p.deleted \ TxOuts(t), q.pool = p.pool
  PROVE  q.deleted = SpentTo(i) /\ q.added = Made(i) /\ Own \subseteq q.pool \cup q.deleted
<1>1. Len(block) \in Nat
  BY DEF Setup
<1>2. i \in 1..Len(block)
  BY <1>1
<1>3. SpentTo(i) = SpentTo(i - 1) \cup Spent(t) /\ Made(i) = Made(i - 1) \cup TxOuts(t)
  BY <1>2, SpentSteps, MadeSteps
<1>4. SpentTo(i) \cap TxOuts(t) = {}
  <2> SUFFICES ASSUME NEW k \in 2..i PROVE Spent(block[k]) \cap TxOuts(block[i]) = {}
    BY DEF SpentTo
  <2>1. k \in 2..Len(block) /\ i >= k
    BY <1>1
  <2> QED  BY <1>2, <2>1 DEF SpendsBackwards
<1>5. p.deleted = SpentTo(i) /\ p.added = Made(i - 1) /\ Own \subseteq s.pool \cup SpentTo(i - 1)
  BY <1>3 DEF Follows
<1>6. q.deleted = SpentTo(i) /\ q.added = Made(i)
  BY <1>3, <1>4, <1>5
<1>7. Own \subseteq q.pool \cup q.deleted
  BY <1>3, <1>5, <1>6
<1> QED  BY <1>6, <1>7

LEMMA JudgesStart == ASSUME Setup, NoWrap PROVE Judges(Start, 0)
<1>1. 2..0 = {} /\ 1..0 = {}
  OBVIOUS
<1>2. Valid(0) /\ SpentTo(0) = {} /\ Made(0) = {}
  BY <1>1 DEF Valid, SpentTo, Made
<1> QED  BY <1>2, StartIs DEF Judges, Follows

(* The coinbase has no inputs.                                             *)
LEMMA JudgesFirst ==
  ASSUME Setup, NoWrap, NEW s \in State, TurnsOK(s, 0), Judges(s, 0),
         NEW q, q = Turn(s, 1)
  PROVE  Judges(q, 1)
<1>1. 1 \in 1..Len(block) /\ Len(block) \in Nat /\ block[1] \in TxId
  <2>1. 1 \in 1..Len(block) /\ Len(block) \in Nat
    BY DEF Setup
  <2> QED  BY <2>1, MadeSteps
<1>2. 2..0 = {} /\ 2..1 = {} /\ 0..0 = {0} /\ 1 - 1 = 0
  OBVIOUS
<1>3. Valid(0) /\ Valid(1) /\ SpentTo(0) = {} /\ SpentTo(1) = {}
  BY <1>2 DEF Valid, SpentTo
<1>4. s.err = NoError /\ s.e = NoError /\ Follows(s, 0)
  BY <1>3 DEF Judges
<1>5. ~s.stop /\ SetsOK(s, 0) /\ MoneyOK(s, 0, 0)
  BY <1>2, <1>4 DEF TurnsOK
<1>6. PICK p : p = Spend(s, 1)
  OBVIOUS
<1>7. p \in State /\ SetsOK(p, 0) /\ MoneyOK(p, 0, p.txinsum)
  BY <1>1, <1>2, <1>4, <1>5, <1>6, SpendKeeps
<1>8. /\ p.added = s.added /\ p.deleted = s.deleted /\ p.pool = s.pool /\ p.e = s.e
      /\ p.sumblockin = s.sumblockin /\ p.txinsum = 0 /\ (p.scripts <=> s.scripts)
  <2>1. p = [s EXCEPT !.txinsum = 0]
    BY <1>6 DEF Spend
  <2> QED  BY <2>1 DEF State
<1>9. p.scripts /\ s.deleted = {} /\ s.added = Made(0) /\ s.sumblockin = Reward
      /\ Own \subseteq s.pool \cup s.deleted
  BY <1>3, <1>4, <1>8 DEF Follows
<1>10. PICK a : a = AddOutputs(p, block[1])
  OBVIOUS
<1>11. /\ a.added = p.added \cup (TxOuts(block[1]) \ p.deleted)
       /\ a.deleted = p.deleted \ TxOuts(block[1])
       /\ a.sumblockin = (p.sumblockin + p.txinsum) % Word
       /\ a.sumblockout = (p.sumblockout + SumOuts(block[1])) % Word
       /\ a.pool = p.pool /\ a.e = p.e /\ (a.scripts <=> p.scripts) /\ a \in State
  BY <1>1, <1>7, <1>10, AddIs, AddOutputsType
<1>12. q = End(a, 1)
  BY <1>4, <1>5, <1>6, <1>9, <1>10, TurnDoes
<1>13. /\ q.added = a.added /\ q.deleted = a.deleted /\ q.pool = a.pool
       /\ q.sumblockin = a.sumblockin /\ q.e = a.e /\ (q.scripts <=> a.scripts)
       /\ q.err = NoError
  BY <1>11, <1>12, EndIs
<1>14. a.sumblockin = p.sumblockin + p.txinsum
  <2>1. /\ SetsOK(a, 1)
        /\ Live(a) = Live(p) \cup (TxOuts(block[1]) \ Owed(p))
        /\ Owed(a) = Owed(p) \ TxOuts(block[1])
    BY <1>1, <1>2, <1>7, <1>11, AddSets
  <2> QED  BY <1>1, <1>2, <1>7, <1>11, <2>1, AddMoney
<1>15. q.sumblockin + Claims = Reward + FeesTo(1) + CreatedBy(1)
  <2>1. FeesTo(1) = 0 /\ CreatedBy(0) = 0 /\ CreatedBy(1) = CreatedBy(0) + Worth(TxOuts(block[1]))
    BY <1>1, <1>2, FeesSteps, CreatedSteps
  <2>2. Reward \in Nat /\ Worth(TxOuts(block[1])) \in Nat
    BY <1>1, RewardNat, TxCoins, WorthNat DEF Setup, Reward
  <2>3. PICK reward, out : reward = Reward /\ out = Worth(TxOuts(block[1]))
    OBVIOUS
  <2>4. q.sumblockin = reward + 0 /\ Claims = out /\ CreatedBy(1) = 0 + out
    BY <1>8, <1>9, <1>13, <1>14, <2>1, <2>3 DEF Claims
  <2> QED  BY <2>1, <2>2, <2>3, <2>4
<1>16. Made(1) = Made(0) \cup TxOuts(block[1])
  BY <1>1, <1>2, MadeSteps
<1>17. Follows(q, 1)
  <2>1. p.deleted = {} /\ p.added = Made(0) /\ Own \subseteq p.pool
    BY <1>8, <1>9
  <2>2. q.deleted = {} /\ q.added = Made(1) /\ Own \subseteq q.pool /\ q.scripts
    BY <1>9, <1>11, <1>13, <1>16, <2>1
  <2> QED  BY <1>3, <1>15, <2>2 DEF Follows
<1> QED  BY <1>3, <1>4, <1>8, <1>11, <1>13, <1>17 DEF Judges

LEMMA JudgesNext ==
  ASSUME Setup, NoWrap, SpendsBackwards, NEW i \in 2..Len(block), NEW s \in State,
         TurnsOK(s, i - 1), Judges(s, i - 1), NEW q, q = Turn(s, i)
  PROVE  Judges(q, i)
<1>1. /\ i \in 1..Len(block) /\ i \in 0..Len(block) /\ i - 1 \in 0..Len(block)
      /\ Len(block) \in Nat /\ i # 1 /\ i - 1 # 0 /\ i # 0 /\ block[i] \in TxId
  <2>1. Len(block) \in Nat
    BY DEF Setup
  <2>2. i \in 1..Len(block) /\ i \in 0..Len(block) /\ i - 1 \in 0..Len(block)
        /\ i # 1 /\ i - 1 # 0 /\ i # 0
    BY <2>1
  <2> QED  BY <2>1, <2>2, MadeSteps
<1>2. Valid(i) <=> Valid(i - 1) /\ ValidTx(i)
  BY ValidSteps
<1>3. CASE ~Valid(i - 1)
  <2>1. s.err # NoError \/ s.stop
    BY <1>3 DEF Judges, TurnsOK
  <2>2. q = s
    BY <2>1, TurnIs
  <2> QED  BY <1>2, <1>3, <2>2 DEF Judges
<1>4. CASE Valid(i - 1)
  <2>1. s.err = NoError /\ s.e = NoError /\ Follows(s, i - 1)
    BY <1>4 DEF Judges
  <2>2. ~s.stop /\ SetsOK(s, i - 1) /\ MoneyOK(s, i - 1, 0)
    BY <2>1 DEF TurnsOK
  <2>3. PICK t, p : t = block[i] /\ p = Spend(s, i)
    OBVIOUS
  <2>4. p \in State /\ InputsOK(s, p, i, t, Len(Ins[t]))
    <3>1. p = SpendInputs(s, utxo, block, trusted, t)
      BY <1>1, <2>3 DEF Spend
    <3> QED  BY <1>1, <2>1, <2>2, <2>3, <3>1, InputsEnd
  <2>5. Finds(s, t) <=> Spent(t) \subseteq Before(i) /\ IsInjective(Ins[t])
    BY <2>1, <2>2, <2>3, FoundIsUnspent
  <2>6. p.e = NoError <=> Finds(s, t)
    BY <2>4 DEF InputsOK, Took, Finds
  <2>7. PICK a : a = AddOutputs(p, t)
    OBVIOUS
  <2>8. /\ a.added = p.added \cup (TxOuts(t) \ p.deleted) /\ a.deleted = p.deleted \ TxOuts(t)
        /\ a.sumblockin = (p.sumblockin + p.txinsum) % Word
        /\ a.sumblockout = (p.sumblockout + SumOuts(t)) % Word
        /\ a.pool = p.pool /\ a.txinsum = p.txinsum /\ a.e = p.e /\ (a.scripts <=> p.scripts)
        /\ a \in State
    BY <1>1, <2>3, <2>4, <2>7, AddIs, AddOutputsType
  <2>9. \/ ~p.scripts /\ q = [p EXCEPT !.err = "VerifyScripts failed"]
        \/ p.scripts /\ q = End(a, i)
    BY <2>1, <2>2, <2>3, <2>7, TurnDoes, ZenonT(60)
  <2>10. ~p.scripts => q.err # NoError
    BY <2>4, <2>9, AreErrors DEF State
  <2>11. p.scripts =>
           /\ q.added = a.added /\ q.deleted = a.deleted /\ q.pool = a.pool
           /\ q.sumblockin = a.sumblockin /\ (q.scripts <=> a.scripts) /\ q.e = a.e
           /\ q.err = NoError <=> ~(SumOuts(t) > a.txinsum)
    BY <1>1, <2>3, <2>8, <2>9, EndIs
  <2>12. CASE ~Finds(s, t)
    <3>1. ~(q.err = NoError /\ q.e = NoError)
      BY <2>6, <2>8, <2>10, <2>11, <2>12
    <3>2. ~ValidTx(i)
      BY <2>3, <2>5, <2>12 DEF ValidTx
    <3> QED  BY <1>2, <3>1, <3>2 DEF Judges
  <2>13. CASE Finds(s, t)
    <3>1. Took(s, p, t, Len(Ins[t])) /\ p.txinsum = Worth(First(t, Len(Ins[t])))
          /\ Frame(s, p) /\ p.e = NoError /\ SetsOK(p, i - 1) /\ MoneyOK(p, i - 1, p.txinsum)
      BY <2>2, <2>4, <2>6, <2>13 DEF InputsOK
    <3>2. First(t, Len(Ins[t])) = Spent(t) /\ DOMAIN Ins[t] = 1..Len(Ins[t])
      BY <1>1, <2>3, SpentIs, TxAssumption DEF First
    <3>3. p.scripts <=> trusted \/ \A j \in DOMAIN Ins[t] : <<t, j>> \notin BadScript
      BY <2>1, <3>1, <3>2 DEF Took, Follows
    <3>4. PICK in, out : in = Worth(Spent(t)) /\ out = Worth(TxOuts(t))
      OBVIOUS
    <3>5. in \in Nat /\ out \in Nat /\ p.txinsum = in /\ SumOuts(t) = out /\ Fees(t) = in - out
      <4>1. Spent(t) \subseteq p.deleted
        BY <3>1, <3>2 DEF Took
      <4>2. Spent(t) \subseteq Real
        BY <2>4, <4>1 DEF State
      <4>3. in \in Nat
        BY <1>1, <2>3, <3>4, <4>2, SpentCoins, WorthNat
      <4>4. out \in Nat /\ out < Word
        BY <1>1, <2>3, <3>4, CreatedFits
      <4>5. SumOuts(t) = out
        BY <1>1, <2>3, <3>4, <4>4, SumOutsIs
      <4> QED  BY <3>1, <3>2, <3>4, <4>3, <4>4, <4>5 DEF Fees
    <3>6. Fees(t) >= 0 <=> ~(SumOuts(t) > a.txinsum)
      BY <2>8, <3>5
    <3>7. ValidTx(i) <=> p.scripts /\ Fees(t) >= 0
      BY <2>3, <2>5, <2>13, <3>3 DEF ValidTx
    <3>8. ValidTx(i) <=> q.err = NoError /\ q.e = NoError
      BY <2>8, <2>10, <2>11, <3>1, <3>6, <3>7
    <3>9. ASSUME ValidTx(i) PROVE Follows(q, i)
      <4>1. p.scripts /\ q.scripts
        BY <2>8, <2>11, <3>7, <3>9
      <4>2. q.deleted = SpentTo(i) /\ q.added = Made(i) /\ Own \subseteq q.pool \cup q.deleted
        <5>1. /\ p.added = s.added /\ p.deleted = s.deleted \cup Spent(t)
              /\ s.pool \subseteq p.pool \cup Spent(t)
          BY <3>1, <3>2 DEF Took, Frame
        <5>2. /\ q.added = p.added \cup (TxOuts(t) \ p.deleted)
              /\ q.deleted = p.deleted \ TxOuts(t) /\ q.pool = p.pool
          BY <2>8, <2>11, <4>1
        <5> QED  BY <2>1, <2>3, <5>1, <5>2, FollowsSets
      <4>3. q.sumblockin = s.sumblockin + in
        <5>1. /\ SetsOK(a, i)
              /\ Live(a) = Live(p) \cup (TxOuts(t) \ Owed(p))
              /\ Owed(a) = Owed(p) \ TxOuts(t)
          BY <1>1, <2>3, <2>4, <2>8, <3>1, AddSets
        <5>2. a.sumblockin = p.sumblockin + p.txinsum
          BY <1>1, <2>3, <2>4, <2>8, <3>1, <5>1, AddMoney
        <5> QED  BY <2>11, <3>1, <3>5, <4>1, <5>2 DEF Frame
      <4>4. q.sumblockin + Claims = Reward + FeesTo(i) + CreatedBy(i)
        <5>1. Valid(i)
          BY <1>2, <1>4, <3>9
        <5>2. FeesTo(i) = FeesTo(i - 1) + Fees(t) /\ FeesTo(i - 1) \in Int
          BY <1>1, <2>3, <5>1, ValidMoney, FeesSteps
        <5>3. CreatedBy(i) = CreatedBy(i - 1) + out /\ CreatedBy(i - 1) \in Nat
          BY <1>1, <2>3, <3>4, CreatedSteps
        <5>4. s.sumblockin + Claims = Reward + FeesTo(i - 1) + CreatedBy(i - 1)
          BY <1>1, <2>1 DEF Follows
        <5>5. Reward \in Nat /\ Claims \in Nat /\ s.sumblockin \in Nat
          <6>1. 1 \in 1..Len(block)
            BY <1>1
          <6>2. block[1] \in TxId
            BY <6>1, MadeSteps
          <6> QED  BY <6>2, RewardNat, TxCoins, WorthNat DEF Setup, Reward, Claims, State
        <5>6. PICK x, c, r, f, b : /\ x = s.sumblockin /\ c = Claims /\ r = Reward
                                   /\ f = FeesTo(i - 1) /\ b = CreatedBy(i - 1)
          OBVIOUS
        <5>7. x + c = r + f + b
          BY <5>4, <5>6
        <5>8. (x + in) + c = r + (f + (in - out)) + (b + out)
          <6>1. /\ x \in Int /\ c \in Int /\ r \in Int /\ f \in Int /\ b \in Int
                /\ in \in Int /\ out \in Int
            BY <3>5, <5>2, <5>3, <5>5, <5>6
          <6> QED  BY <5>7, <6>1
        <5> QED  BY <3>5, <4>3, <5>2, <5>3, <5>6, <5>8
      <4> QED  BY <1>1, <4>1, <4>2, <4>4 DEF Follows
    <3> QED  BY <1>2, <1>4, <3>8, <3>9 DEF Judges
  <2> QED  BY <2>12, <2>13
<1> QED  BY <1>3, <1>4

-----------------------------------------------------------------------------
(* What commitTxs returns                                                  *)

LEMMA ResultIs ==
  ASSUME Setup, res = CommitTxs(utxo, block, trusted, height)
  PROVE  \E s \in State :
           /\ TurnsOK(s, Len(block))
           /\ NoWrap /\ SpendsBackwards => Judges(s, Len(block))
           /\ res.err = BlockError(s) /\ res.e = s.e
           /\ res.added = s.added /\ res.deleted = s.deleted
<1> DEFINE n == Len(block)
<1>1. PICK f \in [0..n -> State] :
        /\ f[0] = Start
        /\ \A i \in 1..n : f[i] = Turn(f[i - 1], i)
        /\ res = [err |-> BlockError(f[n]), e |-> f[n].e,
                  added |-> f[n].added, deleted |-> f[n].deleted]
  BY TurnsLoop
<1>2. n \in Nat
  BY DEF Setup
<1> DEFINE OK(i) == TurnsOK(f[i], i) /\ (NoWrap /\ SpendsBackwards => Judges(f[i], i))
           G == {i \in 0..n : OK(i)}
<1>3. 0 \in G
  <2>1. OK(0)
    BY <1>1, StartIs, JudgesStart
  <2> QED  BY <1>2, <2>1
<1>4. ASSUME NEW i \in 1..n, i - 1 \in G PROVE i \in G
  <2>1. f[i - 1] \in State /\ f[i] = Turn(f[i - 1], i) /\ OK(i - 1) /\ i \in 0..n
    BY <1>1, <1>2, <1>4
  <2>2. TurnsOK(f[i], i)
    BY <2>1, TurnKeeps
  <2>3. ASSUME NoWrap, SpendsBackwards PROVE Judges(f[i], i)
    <3>1. CASE i = 1
      <4>1. f[0] \in State /\ f[1] = Turn(f[0], 1) /\ TurnsOK(f[0], 0) /\ Judges(f[0], 0)
        BY <2>1, <2>3, <3>1
      <4>2. Judges(f[1], 1)
        BY <2>3, <4>1, JudgesFirst
      <4> QED  BY <3>1, <4>2
    <3>2. CASE i # 1
      <4>1. i \in 2..n
        BY <1>2, <3>2
      <4> QED  BY <2>1, <2>3, <4>1, JudgesNext
    <3> QED  BY <3>1, <3>2
  <2>4. OK(i)
    BY <2>2, <2>3
  <2> QED  BY <2>1, <2>4
<1>5. G = 0..n
  <2>1. G \in SUBSET (0..n)
    OBVIOUS
  <2> HIDE DEF G
  <2> QED  BY <1>2, <1>3, <1>4, <2>1, Induct
<1>6. n \in 0..n
  BY <1>2
<1>7. OK(n) /\ f[n] \in State
  BY <1>1, <1>5, <1>6
<1> QED  BY <1>1, <1>7

LEMMA NoBlockError ==
  ASSUME NEW s \in State
  PROVE  BlockError(s) = NoError <=> s.err = NoError /\ s.sumblockin >= s.sumblockout
<1>1. s.sumblockin \in Nat /\ s.sumblockout \in Nat
  BY DEF State
<1>2. s.sumblockin < s.sumblockout <=> ~(s.sumblockin >= s.sumblockout)
  BY <1>1
<1>3. BlockError(s) = IF s.err # NoError THEN s.err
                      ELSE IF s.sumblockin < s.sumblockout THEN "Out > In" ELSE NoError
  BY DEF BlockError
<1> QED  BY <1>2, <1>3, AreErrors

LEMMA ResultIsUndoable ==
  ASSUME Setup, res = CommitTxs(utxo, block, trusted, height)
  PROVE  UndoableUpToOwnOutputs
<1> SUFFICES ASSUME Accepted
             PROVE  /\ res.deleted \subseteq utxo \cup Own /\ res.added \subseteq Own
                    /\ UndoChanges(After, res) \ Own = utxo \ Own
  BY DEF UndoableUpToOwnOutputs, Own
<1>1. PICK s \in State : /\ TurnsOK(s, Len(block)) /\ res.err = BlockError(s)
                         /\ res.added = s.added /\ res.deleted = s.deleted
  BY ResultIs
<1>2. s.err = NoError
  BY <1>1, NoBlockError DEF Accepted
<1>3. PICK m \in 0..Len(block) : SetsOK(s, m)
  BY <1>1, <1>2 DEF TurnsOK
<1>4. Made(m) \subseteq Own
  BY MadeCoins
<1>5. res.deleted \subseteq utxo \cup Own /\ res.added \subseteq Own
  BY <1>1, <1>3, <1>4 DEF SetsOK
<1>6. UndoChanges(After, res) \ Own = utxo \ Own
  BY <1>5 DEF UndoChanges, After, CommitChanges
<1> QED  BY <1>5, <1>6

LEMMA ResultMakesNothing ==
  ASSUME Setup, res = CommitTxs(utxo, block, trusted, height)
  PROVE  NoValueFromNothing
<1> SUFFICES ASSUME Accepted, NoWrap, Clean \/ SpendsBackwards
             PROVE  Worth(After) <= Worth(utxo) + Reward
  BY DEF NoValueFromNothing
<1>1. PICK s \in State : /\ TurnsOK(s, Len(block)) /\ res.err = BlockError(s) /\ res.e = s.e
                         /\ res.added = s.added /\ res.deleted = s.deleted
  BY ResultIs
<1>2. s.err = NoError /\ s.sumblockin >= s.sumblockout
  BY <1>1, NoBlockError DEF Accepted
<1>3. PICK m \in 0..Len(block) : SetsOK(s, m) /\ MoneyOK(s, m, 0) /\ (~s.stop => m = Len(block))
  BY <1>1, <1>2 DEF TurnsOK
<1>4. Owed(s) = {}
  <2>1. CASE SpendsBackwards
    BY <1>3, <2>1 DEF SetsOK
  <2>2. CASE Clean
    <3>1. m = Len(block)
      BY <1>1, <1>2, <1>3, <2>2 DEF TurnsOK, Clean
    <3>2. Made(m) = Own
      BY <3>1, MadeSteps
    <3> QED  BY <1>3, <3>2 DEF SetsOK, Owed
  <2> QED  BY <2>1, <2>2
<1>5. After = Live(s)
  BY <1>1 DEF After, CommitChanges, Live
<1>6. PICK a, in, by, reward, had : /\ a = Worth(Live(s)) /\ in = s.sumblockin
                                    /\ by = CreatedBy(m) /\ reward = Reward /\ had = Worth(utxo)
  OBVIOUS
<1>7. Worth({}) = 0
  BY WorthTakes, FS_EmptySet DEF Coins
<1>8. a \in Nat /\ in \in Nat /\ by \in Nat /\ reward \in Nat /\ had \in Nat
  <2>1. a \in Nat
    BY <1>3, <1>6, SetsCoins, WorthNat
  <2> QED  BY <1>6, <2>1, CreatedSteps, RewardNat, WorthNat DEF Reward, Setup, State
<1>9. a + in + 0 <= reward + had + 0 + by /\ in >= by
  BY <1>2, <1>3, <1>4, <1>6, <1>7 DEF MoneyOK
<1>10. a <= had + reward
  BY <1>8, <1>9
<1> QED  BY <1>5, <1>6, <1>10

LEMMA ResultAgrees ==
  ASSUME Setup, res = CommitTxs(utxo, block, trusted, height)
  PROVE  AgreesWithTheRule
<1> SUFFICES ASSUME SpendsBackwards, NoWrap
             PROVE  /\ Clean <=> ValidInOrder
                    /\ Clean => After = Before(Len(block) + 1)
  BY DEF AgreesWithTheRule
<1> DEFINE n == Len(block)
<1>1. PICK s \in State : /\ TurnsOK(s, n) /\ Judges(s, n)
                         /\ res.err = BlockError(s) /\ res.e = s.e
                         /\ res.added = s.added /\ res.deleted = s.deleted
  BY ResultIs
<1>2. n \in Nat /\ n # 0 /\ n \in 0..n /\ n + 1 - 1 = n /\ 1 \in 1..n
  BY DEF Setup
<1>3. Clean <=> Valid(n) /\ s.sumblockin >= s.sumblockout
  BY <1>1, NoBlockError DEF Clean, Accepted, Judges
<1>4. ValidInOrder <=> Valid(n) /\ Claims <= Reward + FeesTo(n)
  BY DEF ValidInOrder, Valid, Claims, FeesTo
<1>5. ASSUME Valid(n)
      PROVE  s.sumblockin >= s.sumblockout <=> Claims <= Reward + FeesTo(n)
  <2>1. s.err = NoError /\ s.e = NoError /\ Follows(s, n)
    BY <1>1, <1>5 DEF Judges
  <2>2. MoneyOK(s, n, 0)
    BY <1>1, <2>1 DEF TurnsOK
  <2>3. PICK x, c, r, f, b : /\ x = s.sumblockin /\ c = Claims /\ r = Reward
                             /\ f = FeesTo(n) /\ b = CreatedBy(n)
    OBVIOUS
  <2>4. x + c = r + f + b /\ s.sumblockout = b
    BY <1>2, <2>1, <2>2, <2>3 DEF Follows, MoneyOK
  <2>5. x \in Int /\ c \in Int /\ r \in Int /\ b \in Int
    <3>1. block[1] \in TxId
      BY <1>2, MadeSteps
    <3>2. c \in Int
      BY <2>3, <3>1, TxCoins, WorthNat DEF Claims
    <3>3. r \in Int
      BY <2>3, RewardNat DEF Setup, Reward
    <3> QED  BY <1>2, <2>3, <3>2, <3>3, CreatedSteps DEF State
  <2>6. f \in Int
    <3>1. CASE n = 1
      BY <2>3, <3>1, FeesSteps
    <3>2. CASE n # 1
      <4>1. n \in 2..n
        BY <1>2, <3>2
      <4>2. \A k \in 2..n : Fees(block[k]) \in Int
        BY <1>2, <1>5, ValidMoney
      <4>3. f = FeesTo(n - 1) + Fees(block[n]) /\ FeesTo(n - 1) \in Int
        BY <2>3, <4>1, <4>2, FeesSteps
      <4> QED  BY <4>1, <4>2, <4>3
    <3> QED  BY <3>1, <3>2
  <2>7. x >= b <=> c <= r + f
    BY <2>4, <2>5, <2>6
  <2> QED  BY <2>3, <2>4, <2>7
<1>6. ASSUME Clean PROVE After = Before(n + 1)
  <2>1. s.deleted = SpentTo(n) /\ s.added = Made(n)
    BY <1>1, <1>3, <1>6 DEF Judges, Follows
  <2> QED  BY <1>1, <1>2, <2>1 DEF After, CommitChanges, Before
<1> QED  BY <1>3, <1>4, <1>5, <1>6

-----------------------------------------------------------------------------
(* The theorems                                                            *)

(* The block is not processed yet, or res is what commitTxs returns.       *)
Processed == Setup /\ (res = NoResult \/ res = CommitTxs(utxo, block, trusted, height))

LEMMA ProcessedAlways == Spec => []Processed
<1>1. Init => Processed
  <2> SUFFICES ASSUME Init PROVE Processed
    OBVIOUS
  <2>1. utxo \subseteq Real /\ IsFiniteSet(utxo)
    BY LedgerAssumption DEF Init
  <2>2. block \in Seq(TxId) /\ block # <<>>
    BY LedgerAssumption DEF Init
  <2>3. Len(block) >= 1
    BY <2>2
  <2>4. trusted \in BOOLEAN /\ height \in Nat /\ res = NoResult
    BY LedgerAssumption DEF Init
  <2> QED  BY <2>1, <2>2, <2>3, <2>4 DEF Processed, Setup, Coins
<1>2. Processed /\ [Next]_lvars => Processed'
  <2> SUFFICES ASSUME Processed, [Next]_lvars PROVE Processed'
    OBVIOUS
  <2>1. UNCHANGED <<utxo, block, trusted, height>>
    BY DEF Next, Process, lvars
  <2>2. Setup'
    BY <2>1 DEF Processed, Setup
  <2>3. CommitTxs(utxo, block, trusted, height)' = CommitTxs(utxo, block, trusted, height)
    BY <2>1
  <2>4. res' = res \/ res' = CommitTxs(utxo, block, trusted, height)
    BY DEF Next, Process, lvars
  <2> QED  BY <2>2, <2>3, <2>4 DEF Processed
<1> QED  BY <1>1, <1>2, PTL DEF Spec

LEMMA NotAccepted == ASSUME res = NoResult PROVE ~Accepted
  BY AreErrors DEF NoResult, Accepted

(* A block that only spends what came before is accepted with no failed    *)
(* input exactly when its transactions, one by one, follow the rule of the *)
(* ledger, and its changes are those of applying them one by one, as long  *)
(* as no sum can wrap around: commitTxs with its pool, its list of added   *)
(* and its list of deleted outputs does what a ledger should.              *)
THEOREM CommitTxsAgreesWithTheRule == Spec => []AgreesWithTheRule
<1>1. Processed => AgreesWithTheRule
  BY ResultAgrees DEF Processed, AgreesWithTheRule
<1> QED  BY <1>1, ProcessedAlways, PTL

(* No block makes money: what is unspent after a block that commitTxs      *)
(* accepts is worth no more than before and the reward, as long as no sum  *)
(* can wrap around; of a block with a failed input, which commitTxs        *)
(* forgets, this holds if it takes no output of a later transaction.       *)
THEOREM CommitTxsMakesNoValue == Spec => []NoValueFromNothing
<1>1. Processed => NoValueFromNothing
  BY ResultMakesNothing, NotAccepted DEF Processed, NoValueFromNothing
<1> QED  BY <1>1, ProcessedAlways, PTL

(* The changes of any accepted block, also one with a failed input or with *)
(* a transaction twice, are what the unspent database takes for possible,  *)
(* and undoing them gives the outputs back that the block did not create.  *)
THEOREM CommitTxsIsUndoable == Spec => []UndoableUpToOwnOutputs
<1>1. Processed => UndoableUpToOwnOutputs
  BY ResultIsUndoable, NotAccepted DEF Processed, UndoableUpToOwnOutputs
<1> QED  BY <1>1, ProcessedAlways, PTL
=============================================================================
