---------------------------- MODULE ChainProofs -----------------------------
(***************************************************************************)
(* Proofs about Chain, for every tree of blocks, whatever transactions are *)
(* in them, and every window of unwind records.  In this order:            *)
(*   - the operators on trees: the path to a node along the Parent         *)
(*     pointers, the child added or deleted, the farthest node;            *)
(*   - the inductive invariant ChainInv, and what follows from it alone:   *)
(*     RecordsFollowTip, SyncModeComesBack, PanicsAreCaused;               *)
(*   - commitTxs run on two ledgers, or with and without scripts: it gives *)
(*     one answer if the block cannot tell them apart;                     *)
(*   - LedgerInv, which holds until a block goes astray: LedgerReplays and *)
(*     OnlyValidBlocks;                                                    *)
(*   - BestInv, and that the chain is a BestChain: TipStaysBest.           *)
(***************************************************************************)
EXTENDS Chain, SequenceTheorems, WellFoundedInduction, TLAPS

TreeNode == [parent : NodeId, height : Nat, children : Seq(NodeId)]

(* Every node but the root has a parent in the tree, one lower. *)
IsTree(t) ==
  /\ Root \in DOMAIN t /\ DOMAIN t \subseteq NodeId
  /\ t \in [DOMAIN t -> TreeNode]
  /\ t[Root].height = 0 /\ t[Root].parent = Root
  /\ \A n \in DOMAIN t \ {Root} :
       t[n].parent \in DOMAIN t /\ t[n].height = t[t[n].parent].height + 1

(* The nodes a node lists as its children are in the tree, have it for     *)
(* their parent, and are listed once.                                      *)
KidsOK(t) ==
  \A n \in DOMAIN t :
    /\ \A c \in ToSet(t[n].children) : c \in DOMAIN t \ {Root} /\ t[c].parent = n
    /\ \A i, j \in DOMAIN t[n].children :
         t[n].children[i] = t[n].children[j] => i = j

(* No node is higher than top, for some top. *)
Bounded(t) == \E top \in Nat : \A n \in DOMAIN t : t[n].height <= top
-----------------------------------------------------------------------------
(* A set of naturals that is not empty has a least element: what           *)
(* inductions on the height of a node rest on.                             *)
LEMMA LeastNat ==
  ASSUME NEW Bad \in SUBSET Nat, Bad # {}
  PROVE  \E k \in Bad : \A j \in Bad : k <= j
<1>1. PICK k \in Bad : \A m \in Bad : ~ (<<m, k>> \in OpToRel(<, Nat))
  BY NatLessThanWellFounded, WFMin, Zenon
<1>2. \A m \in Bad : ~ (m < k)
  BY <1>1 DEF OpToRel
<1> QED  BY <1>2

(* The root and no other node has height 0. *)
LEMMA HeightZero ==
  ASSUME NEW t, IsTree(t), NEW n \in DOMAIN t
  PROVE  /\ t[n].height \in Nat /\ t[n].parent \in DOMAIN t
         /\ n = Root <=> t[n].height = 0
BY DEF IsTree, TreeNode

(* Paths exist below any height. *)
LEMMA PathExists ==
  ASSUME NEW t, IsTree(t), NEW top \in Nat
  PROVE  LET D == {m \in DOMAIN t : t[m].height <= top}
         IN  \E f : f = [m \in D |-> IF m = Root THEN <<m>> ELSE Append(f[t[m].parent], m)]
<1> DEFINE D(k) == {m \in DOMAIN t : t[m].height <= k}
           Solves(f, k) == f = [m \in D(k) |-> IF m = Root THEN <<m>>
                                               ELSE Append(f[t[m].parent], m)]
           Bad == {k \in Nat : ~ \E f : Solves(f, k)}
<1>1. ASSUME NEW k \in Bad, \A j \in Bad : k <= j
      PROVE  FALSE
  <2>1. k # 0
    <3> SUFFICES ASSUME k = 0 PROVE FALSE
      OBVIOUS
    <3>1. D(0) = {Root}
      BY HeightZero DEF IsTree
    <3>2. Solves([m \in D(0) |-> <<m>>], 0)
      BY <3>1
    <3> HIDE DEF Solves
    <3> QED  BY <3>2
  <2>2. k - 1 \in Nat /\ k - 1 \notin Bad
    <3>1. k \in Nat
      OBVIOUS
    <3>2. k - 1 \in Nat /\ ~ (k <= k - 1)
      BY <2>1, <3>1
    <3> HIDE DEF Bad
    <3> QED  BY <1>1, <3>2
  <2>3. PICK f : Solves(f, k - 1)
    BY <2>2
  <2> DEFINE g == [m \in D(k) |-> IF m = Root THEN <<m>> ELSE Append(f[t[m].parent], m)]
  <2>4. ASSUME NEW m \in D(k), m # Root
        PROVE  t[m].parent \in D(k - 1) /\ t[m].parent \in D(k)
    <3>1. t[m].parent \in DOMAIN t /\ t[m].height = t[t[m].parent].height + 1
      BY <2>4 DEF IsTree
    <3>2. t[m].height \in Nat /\ t[t[m].parent].height \in Nat
      BY <3>1, HeightZero
    <3> QED  BY <2>4, <3>1, <3>2
  <2>5. ASSUME NEW m \in D(k - 1)
        PROVE  g[m] = f[m]
    <3>1. m \in D(k)
      BY <2>2, HeightZero
    <3>2. f[m] = IF m = Root THEN <<m>> ELSE Append(f[t[m].parent], m)
      BY <2>3
    <3> QED  BY <3>1, <3>2
  <2>6. \A m \in D(k) : (IF m = Root THEN <<m>> ELSE Append(f[t[m].parent], m))
                         = IF m = Root THEN <<m>> ELSE Append(g[t[m].parent], m)
    BY <2>4, <2>5
  <2>7. Solves(g, k)
    <3> HIDE DEF D
    <3>1. g = [m \in D(k) |-> IF m = Root THEN <<m>> ELSE Append(g[t[m].parent], m)]
      BY <2>6
    <3> QED  BY <3>1
  <2>8. k \notin Bad
    <3> HIDE DEF Solves, g
    <3> QED  BY <2>7
  <2> QED  BY <1>1, <2>8
<1>2. Bad = {}
  <2> HIDE DEF Bad
  <2>1. Bad \in SUBSET Nat
    BY DEF Bad
  <2> QED  BY <1>1, <2>1, LeastNat
<1>3. \E f : Solves(f, top)
  <2> HIDE DEF Solves
  <2> QED  BY <1>2
<1> QED  BY <1>3

(* The path to a node is that to its parent and the node. *)
LEMMA PathStep ==
  ASSUME NEW t, IsTree(t), Bounded(t), NEW n \in DOMAIN t
  PROVE  PathIn(t, n) = IF n = Root THEN <<n>> ELSE Append(PathIn(t, t[n].parent), n)
<1> DEFINE Solves(f) == f = [m \in DOMAIN t |-> IF m = Root THEN <<m>>
                                                ELSE Append(f[t[m].parent], m)]
           path == CHOOSE f : Solves(f)
<1>1. \E f : Solves(f)
  <2>1. PICK top \in Nat : \A m \in DOMAIN t : t[m].height <= top
    BY DEF Bounded
  <2>2. {m \in DOMAIN t : t[m].height <= top} = DOMAIN t
    BY <2>1
  <2>3. \E f : f = [m \in {m \in DOMAIN t : t[m].height <= top} |->
                     IF m = Root THEN <<m>> ELSE Append(f[t[m].parent], m)]
    BY PathExists
  <2> QED  BY <2>2, <2>3
<1>2. Solves(path)
  <2> HIDE DEF Solves
  <2> QED  BY <1>1
<1>3. \A m \in DOMAIN t : PathIn(t, m) = path[m]
  BY DEF PathIn
<1>4. path[n] = IF n = Root THEN <<n>> ELSE Append(path[t[n].parent], n)
  <2> HIDE DEF path
  <2> QED  BY <1>2
<1>5. t[n].parent \in DOMAIN t
  BY HeightZero
<1> HIDE DEF path
<1> QED  BY <1>3, <1>4, <1>5
-----------------------------------------------------------------------------
(* What holds of the root, and of a node when it holds of its parent,      *)
(* holds of all nodes of a tree.                                           *)
LEMMA TreeInduction ==
  ASSUME NEW t, IsTree(t), NEW G, Root \in G,
         \A n \in DOMAIN t \ {Root} : t[n].parent \in G => n \in G
  PROVE  DOMAIN t \subseteq G
<1> DEFINE Bad == {k \in Nat : \E n \in DOMAIN t \ G : t[n].height = k}
<1>1. ASSUME NEW k \in Bad, \A j \in Bad : k <= j
      PROVE  FALSE
  <2>1. PICK n \in DOMAIN t \ G : t[n].height = k
    OBVIOUS
  <2>2. /\ t[n].parent \in DOMAIN t /\ t[n].height = t[t[n].parent].height + 1
        /\ t[t[n].parent].height \in Nat
    BY <2>1, HeightZero DEF IsTree
  <2>3. t[t[n].parent].height \notin Bad
    <3>1. ~ (k <= t[t[n].parent].height)
      BY <2>1, <2>2
    <3> HIDE DEF Bad
    <3> QED  BY <1>1, <3>1
  <2> QED  BY <2>1, <2>2, <2>3
<1>2. Bad = {}
  <2> HIDE DEF Bad
  <2>1. Bad \in SUBSET Nat
    BY DEF Bad
  <2> QED  BY <1>1, <2>1, LeastNat
<1> QED  BY <1>2, HeightZero

(* The path to a node has a node for each height up to its own. *)
LEMMA PathShape ==
  ASSUME NEW t, IsTree(t), Bounded(t), NEW n \in DOMAIN t
  PROVE  /\ PathIn(t, n) \in Seq(DOMAIN t)
         /\ Len(PathIn(t, n)) = t[n].height + 1
         /\ \A h \in 0..t[n].height : t[PathIn(t, n)[h + 1]].height = h
<1> DEFINE G == {m \in DOMAIN t : /\ PathIn(t, m) \in Seq(DOMAIN t)
                                 /\ Len(PathIn(t, m)) = t[m].height + 1
                                 /\ \A h \in 0..t[m].height :
                                      t[PathIn(t, m)[h + 1]].height = h}
<1>1. Root \in G
  <2>1. Root \in DOMAIN t /\ t[Root].height = 0 /\ PathIn(t, Root) = <<Root>>
    BY PathStep DEF IsTree
  <2>2. <<Root>> \in Seq(DOMAIN t) /\ Len(<<Root>>) = 0 + 1
    BY <2>1
  <2>3. \A h \in 0..0 : t[<<Root>>[h + 1]].height = h
    BY <2>1
  <2> QED  BY <2>1, <2>2, <2>3
<1>2. ASSUME NEW m \in DOMAIN t \ {Root}, t[m].parent \in G
      PROVE  m \in G
  <2> DEFINE p == t[m].parent  s == PathIn(t, p)
  <2>1. PathIn(t, m) = Append(s, m)
    BY PathStep
  <2>2. /\ s \in Seq(DOMAIN t) /\ Len(s) = t[p].height + 1
        /\ \A h \in 0..t[p].height : t[s[h + 1]].height = h
        /\ p \in DOMAIN t
    BY <1>2
  <2>3. t[m].height = t[p].height + 1 /\ t[p].height \in Nat
    BY <2>2, HeightZero DEF IsTree
  <2> HIDE DEF s, p
  <2>4. /\ Append(s, m) \in Seq(DOMAIN t) /\ Len(Append(s, m)) = t[m].height + 1
        /\ Append(s, m)[t[m].height + 1] = m
        /\ \A h \in 0..t[p].height : Append(s, m)[h + 1] = s[h + 1]
    BY <2>2, <2>3
  <2>5. \A h \in 0..t[m].height : t[Append(s, m)[h + 1]].height = h
    <3> TAKE h \in 0..t[m].height
    <3>1. h = t[m].height \/ h \in 0..t[p].height
      BY <2>3
    <3> QED  BY <2>2, <2>4, <3>1
  <2> QED  BY <2>1, <2>4, <2>5
<1>3. DOMAIN t \subseteq G
  <2> HIDE DEF G
  <2> QED  BY <1>1, <1>2, TreeInduction
<1> QED  BY <1>3

(* The ancestors of a node: at its own height the node itself, below those *)
(* of its parent.                                                          *)
LEMMA AncestorFacts ==
  ASSUME NEW t, IsTree(t), Bounded(t), NEW n \in DOMAIN t
  PROVE  /\ PathIn(t, n)[t[n].height + 1] = n
         /\ \A h \in 0..t[n].height : /\ PathIn(t, n)[h + 1] \in DOMAIN t
                                      /\ t[PathIn(t, n)[h + 1]].height = h
         /\ n # Root => \A h \in 0..t[t[n].parent].height :
                           PathIn(t, n)[h + 1] = PathIn(t, t[n].parent)[h + 1]
<1>1. /\ PathIn(t, n) \in Seq(DOMAIN t) /\ Len(PathIn(t, n)) = t[n].height + 1
      /\ \A h \in 0..t[n].height : t[PathIn(t, n)[h + 1]].height = h
      /\ t[n].height \in Nat /\ t[n].parent \in DOMAIN t
  BY PathShape, HeightZero
<1>2. \A h \in 0..t[n].height : PathIn(t, n)[h + 1] \in DOMAIN t
  BY <1>1
<1>3. CASE n = Root
  <2>1. PathIn(t, n) = <<n>> /\ t[n].height = 0
    BY <1>3, PathStep DEF IsTree
  <2> QED  BY <1>1, <1>2, <1>3, <2>1
<1>4. CASE n # Root
  <2> DEFINE p == t[n].parent  s == PathIn(t, p)
  <2>1. PathIn(t, n) = Append(s, n)
    BY <1>4, PathStep
  <2>2. s \in Seq(DOMAIN t) /\ Len(s) = t[p].height + 1
    BY <1>1, PathShape
  <2>3. t[n].height = t[p].height + 1 /\ t[p].height \in Nat
    BY <1>1, <1>4, HeightZero DEF IsTree
  <2>4. /\ Append(s, n)[t[n].height + 1] = n
        /\ \A h \in 0..t[p].height : Append(s, n)[h + 1] = s[h + 1]
    <3> HIDE DEF s, p
    <3> QED  BY <2>2, <2>3
  <2> QED  BY <1>1, <1>2, <2>1, <2>4
<1> QED  BY <1>3, <1>4

(* The parent of an ancestor is the ancestor one below. *)
LEMMA AncestorParent ==
  ASSUME NEW t, IsTree(t), Bounded(t), NEW n \in DOMAIN t, NEW h \in 1..t[n].height
  PROVE  /\ PathIn(t, n)[h + 1] # Root
         /\ t[PathIn(t, n)[h + 1]].parent = PathIn(t, n)[h]
<1> DEFINE G == {m \in DOMAIN t : \A k \in 1..t[m].height :
                   t[PathIn(t, m)[k + 1]].parent = PathIn(t, m)[k]}
<1>1. Root \in G
  BY DEF IsTree
<1>2. ASSUME NEW m \in DOMAIN t \ {Root}, t[m].parent \in G
      PROVE  m \in G
  <2> DEFINE p == t[m].parent
  <2>1. p \in DOMAIN t /\ t[m].height = t[p].height + 1 /\ t[p].height \in Nat
    BY <1>2, HeightZero DEF IsTree
  <2>2. /\ PathIn(t, m)[t[m].height + 1] = m
        /\ PathIn(t, p)[t[p].height + 1] = p
        /\ \A k \in 0..t[p].height : PathIn(t, m)[k + 1] = PathIn(t, p)[k + 1]
    BY <2>1, AncestorFacts
  <2>3. \A k \in 1..t[p].height : t[PathIn(t, p)[k + 1]].parent = PathIn(t, p)[k]
    BY <1>2
  <2> HIDE DEF p
  <2>4. ASSUME NEW k \in 1..t[m].height
        PROVE  t[PathIn(t, m)[k + 1]].parent = PathIn(t, m)[k]
    <3>0. t[m].parent = p
      BY DEF p
    <3>1. CASE k = t[m].height
      <4>1. PathIn(t, m)[k] = p
        <5>1. k = t[p].height + 1 /\ t[p].height \in 0..t[p].height
          BY <2>1, <3>1
        <5> QED  BY <2>2, <5>1
      <4> QED  BY <2>2, <3>0, <3>1, <4>1
    <3>2. CASE k # t[m].height
      <4>1. k \in 1..t[p].height /\ k \in 0..t[p].height /\ k - 1 \in 0..t[p].height
            /\ (k - 1) + 1 = k
        BY <2>1, <3>2
      <4>2. PathIn(t, m)[k + 1] = PathIn(t, p)[k + 1] /\ PathIn(t, m)[k] = PathIn(t, p)[k]
        BY <2>2, <4>1
      <4> QED  BY <2>3, <4>1, <4>2
    <3> QED  BY <3>1, <3>2
  <2> QED  BY <2>4
<1>3. DOMAIN t \subseteq G
  <2> HIDE DEF G
  <2> QED  BY <1>1, <1>2, TreeInduction
<1>4. t[PathIn(t, n)[h + 1]].height = h /\ PathIn(t, n)[h + 1] \in DOMAIN t
  <2>1. h \in 0..t[n].height
    BY HeightZero
  <2> QED  BY <2>1, AncestorFacts
<1>5. PathIn(t, n)[h + 1] # Root
  BY <1>4 DEF IsTree
<1> QED  BY <1>3, <1>5

(* An ancestor of an ancestor is an ancestor. *)
LEMMA AncestorOfAncestor ==
  ASSUME NEW t, IsTree(t), Bounded(t), NEW n \in DOMAIN t,
         NEW k \in 0..t[n].height, NEW h \in 0..k
  PROVE  PathIn(t, PathIn(t, n)[k + 1])[h + 1] = PathIn(t, n)[h + 1]
<1> DEFINE G == {m \in DOMAIN t : \A i \in 0..t[m].height : \A j \in 0..i :
                   PathIn(t, PathIn(t, m)[i + 1])[j + 1] = PathIn(t, m)[j + 1]}
<1>1. Root \in G
  <2>1. Root \in DOMAIN t /\ t[Root].height = 0 /\ PathIn(t, Root) = <<Root>>
    BY PathStep DEF IsTree
  <2> QED  BY <2>1
<1>2. ASSUME NEW m \in DOMAIN t \ {Root}, t[m].parent \in G
      PROVE  m \in G
  <2> DEFINE p == t[m].parent
  <2>1. p \in DOMAIN t /\ t[m].height = t[p].height + 1 /\ t[p].height \in Nat
    BY <1>2, HeightZero DEF IsTree
  <2>2. /\ PathIn(t, m)[t[m].height + 1] = m
        /\ \A i \in 0..t[p].height : PathIn(t, m)[i + 1] = PathIn(t, p)[i + 1]
    BY <2>1, AncestorFacts
  <2>3. \A i \in 0..t[p].height : \A j \in 0..i :
          PathIn(t, PathIn(t, p)[i + 1])[j + 1] = PathIn(t, p)[j + 1]
    BY <1>2
  <2> HIDE DEF p
  <2>4. ASSUME NEW i \in 0..t[m].height, NEW j \in 0..i
        PROVE  PathIn(t, PathIn(t, m)[i + 1])[j + 1] = PathIn(t, m)[j + 1]
    <3>1. CASE i = t[m].height
      BY <2>2, <3>1
    <3>2. CASE i # t[m].height
      <4>1. i \in 0..t[p].height /\ j \in 0..t[p].height
        BY <2>1, <3>2
      <4>2. PathIn(t, m)[i + 1] = PathIn(t, p)[i + 1] /\ PathIn(t, m)[j + 1] = PathIn(t, p)[j + 1]
        BY <2>2, <4>1
      <4> QED  BY <2>3, <4>1, <4>2
    <3> QED  BY <3>1, <3>2
  <2> QED  BY <2>4
<1>3. DOMAIN t \subseteq G
  <2> HIDE DEF G
  <2> QED  BY <1>1, <1>2, TreeInduction
<1> QED  BY <1>3

(* A tree that only loses or gains nodes keeps the paths to the others. *)
LEMMA PathKept ==
  ASSUME NEW s, IsTree(s), Bounded(s), NEW t, IsTree(t), Bounded(t),
         DOMAIN s \subseteq DOMAIN t, \A m \in DOMAIN s : t[m].parent = s[m].parent,
         NEW n \in DOMAIN s
  PROVE  PathIn(t, n) = PathIn(s, n)
<1> DEFINE G == {m \in DOMAIN s : PathIn(t, m) = PathIn(s, m)}
<1>1. Root \in G
  BY PathStep DEF IsTree
<1>2. ASSUME NEW m \in DOMAIN s \ {Root}, s[m].parent \in G
      PROVE  m \in G
  BY <1>2, PathStep
<1>3. DOMAIN s \subseteq G
  <2> HIDE DEF G
  <2> QED  BY <1>1, <1>2, TreeInduction
<1> QED  BY <1>3

-----------------------------------------------------------------------------
(* The farthest node                                                       *)

(* Of finitely many naturals there is a first largest one. *)
LEMMA FirstLargest ==
  ASSUME NEW len \in Nat \ {0}, NEW h \in [1..len -> Nat], NEW top \in Nat,
         \A i \in 1..len : h[i] <= top
  PROVE  \E i \in 1..len : \A j \in 1..len : h[j] < h[i] \/ (h[j] = h[i] /\ i <= j)
<1> DEFINE Gaps == {k \in Nat : \E i \in 1..len : h[i] = top - k}
<1>1. 1 \in 1..len
  OBVIOUS
<1>2. Gaps # {} /\ Gaps \in SUBSET Nat
  <2>1. top - h[1] \in Nat /\ h[1] = top - (top - h[1])
    BY <1>1
  <2> QED  BY <1>1, <2>1
<1>3. PICK k \in Gaps : \A g \in Gaps : k <= g
  <2> HIDE DEF Gaps
  <2> QED  BY <1>2, LeastNat
<1> DEFINE Largest == {i \in 1..len : h[i] = top - k}
<1>4. Largest # {} /\ Largest \in SUBSET Nat
  OBVIOUS
<1>5. PICK i \in Largest : \A j \in Largest : i <= j
  <2> HIDE DEF Largest
  <2> QED  BY <1>4, LeastNat
<1>6. \A j \in 1..len : h[j] <= top - k
  <2> TAKE j \in 1..len
  <2>1. top - h[j] \in Gaps
    <3>1. top - h[j] \in Nat /\ h[j] = top - (top - h[j])
      OBVIOUS
    <3> QED  BY <3>1
  <2>2. k <= top - h[j] /\ k \in Nat
    <3> HIDE DEF Gaps
    <3> QED  BY <1>2, <1>3, <2>1
  <2> QED  BY <2>2
<1>7. \A j \in 1..len : h[j] < h[i] \/ (h[j] = h[i] /\ i <= j)
  <2> TAKE j \in 1..len
  <2>1. h[i] = top - k /\ h[j] <= top - k /\ h[j] \in Nat /\ k \in Nat /\ i \in 1..len
    BY <1>5, <1>6
  <2>2. CASE h[j] = top - k
    <3>1. j \in Largest
      BY <2>2
    <3>2. i <= j
      <4> HIDE DEF Largest
      <4> QED  BY <1>5, <3>1
    <3> QED  BY <2>1, <2>2, <3>2
  <2>3. CASE h[j] # top - k
    <3> HIDE DEF Largest, Gaps
    <3> QED  BY <2>1, <2>3
  <2> QED  BY <2>2, <2>3
<1> QED  BY <1>5, <1>7

(* The local definitions of FindFarthestNode, by name. *)
FirstFarthest(far, kids) ==
  CHOOSE i \in DOMAIN kids : \A j \in DOMAIN kids :
    \/ Height(far[kids[j]]) < Height(far[kids[i]])
    \/ Height(far[kids[j]]) = Height(far[kids[i]]) /\ i <= j

Farther(far, n) ==
  FirstFarthest([k \in ToSet(Children(n)) |-> far[k]], Children(n))

FarthestBelow(far, n) ==
  IF Children(n) = <<>> THEN n ELSE far[Children(n)[Farther(far, n)]]

(* Among children whose farthest nodes are known there is a first one.     *)
LEMMA FirstFarthestIs ==
  ASSUME IsTree(tree), KidsOK(tree), Bounded(tree), NEW n \in DOMAIN tree, Children(n) # <<>>,
         NEW far, \A c \in ToSet(Children(n)) : far[c] \in DOMAIN tree
  PROVE  /\ Farther(far, n) \in DOMAIN Children(n)
         /\ \A j \in DOMAIN Children(n) :
              Height(far[Children(n)[j]]) <= Height(far[Children(n)[Farther(far, n)]])
<1> DEFINE kids == Children(n)  g == [k \in ToSet(kids) |-> far[k]]
           h == [i \in 1..Len(kids) |-> Height(far[kids[i]])]
<1>1. kids \in Seq(NodeId) /\ Len(kids) \in Nat \ {0} /\ DOMAIN kids = 1..Len(kids)
  <2>1. kids \in Seq(NodeId)
    BY DEF IsTree, TreeNode, Children
  <2> QED  BY <2>1
<1>2. \A i \in DOMAIN kids : kids[i] \in ToSet(kids) /\ g[kids[i]] = far[kids[i]]
  BY DEF ToSet
<1>3. PICK top \in Nat : \A m \in DOMAIN tree : tree[m].height <= top
  BY DEF Bounded
<1>4. h \in [1..Len(kids) -> Nat] /\ \A i \in 1..Len(kids) : h[i] <= top
  <2> SUFFICES ASSUME NEW i \in 1..Len(kids)
               PROVE  Height(far[kids[i]]) \in Nat /\ Height(far[kids[i]]) <= top
    OBVIOUS
  <2>1. far[kids[i]] \in DOMAIN tree
    BY <1>1, <1>2
  <2> QED  BY <2>1, <1>3, HeightZero DEF Height
<1>5. \E i \in 1..Len(kids) : \A j \in 1..Len(kids) : h[j] < h[i] \/ (h[j] = h[i] /\ i <= j)
  <2> HIDE DEF h, kids
  <2> QED  BY <1>1, <1>3, <1>4, FirstLargest
<1>6. \E i \in DOMAIN kids : \A j \in DOMAIN kids :
         \/ Height(g[kids[j]]) < Height(g[kids[i]])
         \/ Height(g[kids[j]]) = Height(g[kids[i]]) /\ i <= j
  <2> HIDE DEF g, kids
  <2> QED  BY <1>1, <1>2, <1>5, ZenonT(60)
<1>7. /\ Farther(far, n) \in DOMAIN kids
      /\ \A j \in DOMAIN kids :
         \/ Height(g[kids[j]]) < Height(g[kids[Farther(far, n)]])
         \/ Height(g[kids[j]]) = Height(g[kids[Farther(far, n)]]) /\ Farther(far, n) <= j
  <2> DEFINE Is(i) == \A j \in DOMAIN kids :
         \/ Height(g[kids[j]]) < Height(g[kids[i]])
         \/ Height(g[kids[j]]) = Height(g[kids[i]]) /\ i <= j
  <2>1. Farther(far, n) = CHOOSE i \in DOMAIN kids : Is(i)
    BY DEF Farther, FirstFarthest
  <2>2. \E i \in DOMAIN kids : Is(i)
    BY <1>6
  <2> HIDE DEF Is, kids
  <2>3. Farther(far, n) \in DOMAIN kids /\ Is(Farther(far, n))
    BY <2>1, <2>2
  <2> QED  BY <2>3 DEF Is
<1>8. \A j \in DOMAIN kids : Height(g[kids[j]]) \in Nat
  BY <1>1, <1>2, <1>4
<1> HIDE DEF g, kids, h
<1>9. \A j \in DOMAIN kids : Height(g[kids[j]]) <= Height(g[kids[Farther(far, n)]])
  <2> TAKE j \in DOMAIN kids
  <2>1. Height(g[kids[j]]) \in Nat /\ Height(g[kids[Farther(far, n)]]) \in Nat
    BY <1>7, <1>8
  <2> QED  BY <1>7, <2>1
<1>10. \A j \in DOMAIN kids : Height(far[kids[j]]) <= Height(far[kids[Farther(far, n)]])
  BY <1>2, <1>7, <1>9
<1> QED  BY <1>7, <1>10 DEF kids
(* Children are one higher than their node, so the farthest nodes below    *)
(* all nodes down to some height exist.                                    *)
LEMMA ChildFacts ==
  ASSUME IsTree(tree), KidsOK(tree), NEW n \in DOMAIN tree, NEW c \in ToSet(Children(n))
  PROVE  /\ c \in DOMAIN tree \ {Root} /\ Parent(c) = n
         /\ Height(c) = Height(n) + 1 /\ Height(n) \in Nat
<1>1. c \in DOMAIN tree \ {Root} /\ Parent(c) = n
  BY DEF KidsOK, Children, Parent
<1> QED  BY <1>1, HeightZero DEF IsTree, Height, Parent

(* Among the nodes at most k below the highest, which are finitely many    *)
(* levels, the recursion of FindFarthestNode has an answer for each.       *)
LEMMA FarthestExists ==
  ASSUME IsTree(tree), KidsOK(tree), Bounded(tree),
         NEW top \in Nat, \A n \in DOMAIN tree : Height(n) <= top, NEW k \in Nat
  PROVE  LET D == {n \in DOMAIN tree : top - Height(n) <= k}
         IN  \E f : /\ f = [n \in D |-> FarthestBelow(f, n)]
                    /\ \A n \in D : f[n] \in DOMAIN tree
<1> DEFINE D(i) == {n \in DOMAIN tree : top - Height(n) <= i}
           Solves(f, i) == /\ f = [n \in D(i) |-> FarthestBelow(f, n)]
                           /\ \A n \in D(i) : f[n] \in DOMAIN tree
           Bad == {i \in Nat : ~ \E f : Solves(f, i)}
<1>0. \A n \in DOMAIN tree : Height(n) \in Nat
  BY HeightZero DEF Height
<1>1. ASSUME NEW i \in Nat, i = 0 \/ \E f : Solves(f, i - 1)
      PROVE  \E f : Solves(f, i)
  <2>1. PICK f : i # 0 => Solves(f, i - 1)
    BY <1>1
  <2> DEFINE g == [n \in D(i) |-> FarthestBelow(f, n)]
  <2>2. ASSUME NEW n \in D(i), NEW c \in ToSet(Children(n))
        PROVE  i # 0 /\ c \in D(i - 1) /\ c \in D(i) /\ f[c] \in DOMAIN tree
               /\ f[c] = FarthestBelow(f, c)
    <3>1. c \in DOMAIN tree /\ Height(c) = Height(n) + 1 /\ Height(n) \in Nat
      BY <2>2, ChildFacts
    <3>2. Height(c) <= top
      BY <3>1
    <3>3. i # 0 /\ c \in D(i - 1) /\ c \in D(i)
      BY <3>1, <3>2
    <3>4. /\ f = [m \in D(i - 1) |-> FarthestBelow(f, m)]
          /\ \A m \in D(i - 1) : f[m] \in DOMAIN tree
      BY <2>1, <3>3
    <3> HIDE DEF D
    <3> QED  BY <3>3, <3>4
  <2>3. ASSUME NEW n \in D(i), NEW c \in ToSet(Children(n))
        PROVE  g[c] = f[c]
    BY <2>2
  <2>4. ASSUME NEW n \in D(i)
        PROVE  FarthestBelow(g, n) = FarthestBelow(f, n) /\ FarthestBelow(f, n) \in DOMAIN tree
    <3> HIDE DEF g, D
    <3>1. CASE Children(n) = <<>>
      BY <3>1 DEF FarthestBelow, D
    <3>2. CASE Children(n) # <<>>
      <4>1. [c \in ToSet(Children(n)) |-> g[c]] = [c \in ToSet(Children(n)) |-> f[c]]
        BY <2>3
      <4>2. Farther(g, n) = Farther(f, n)
        BY <4>1 DEF Farther
      <4>3. n \in DOMAIN tree /\ \A c \in ToSet(Children(n)) : f[c] \in DOMAIN tree
        BY <2>2 DEF D
      <4>4. Farther(f, n) \in DOMAIN Children(n)
        BY <3>2, <4>3, FirstFarthestIs
      <4>5. Children(n)[Farther(f, n)] \in ToSet(Children(n))
        BY <4>4 DEF ToSet
      <4> QED  BY <2>3, <3>2, <4>2, <4>3, <4>5 DEF FarthestBelow
    <3> QED  BY <3>1, <3>2
  <2>5. Solves(g, i)
    <3>1. g = [n \in D(i) |-> FarthestBelow(g, n)]
      <4>1. \A n \in D(i) : FarthestBelow(f, n) = FarthestBelow(g, n)
        BY <2>4
      <4> HIDE DEF D
      <4> QED  BY <4>1
    <3>2. \A n \in D(i) : g[n] \in DOMAIN tree
      BY <2>4
    <3> QED  BY <3>1, <3>2
  <2> HIDE DEF Solves, g
  <2> QED  BY <2>5
<1>2. ASSUME NEW i \in Bad, \A j \in Bad : i <= j
      PROVE  FALSE
  <2>1. i \in Nat /\ ~ \E f : Solves(f, i)
    <3> HIDE DEF Solves
    <3> QED  OBVIOUS
  <2>2. i # 0 /\ ~ \E f : Solves(f, i - 1)
    <3> HIDE DEF Solves
    <3> QED  BY <1>1, <2>1
  <2>3. i - 1 \in Nat /\ ~ (i <= i - 1)
    BY <2>1, <2>2
  <2>4. i - 1 \in Bad
    <3> HIDE DEF Solves
    <3> QED  BY <2>2, <2>3
  <2> HIDE DEF Bad
  <2> QED  BY <1>2, <2>3, <2>4
<1>3. Bad = {}
  <2> HIDE DEF Bad
  <2>1. Bad \in SUBSET Nat
    BY DEF Bad
  <2> QED  BY <1>2, <2>1, LeastNat
<1>4. \E f : Solves(f, k)
  <2> HIDE DEF Solves
  <2> QED  BY <1>3
<1> QED  BY <1>4
(* The nodes the Children lead to from n: all on the path to them are      *)
(* children of their parents.                                              *)
Below(n, m) ==
  /\ Height(n) <= Height(m) /\ AncestorAt(m, Height(n)) = n
  /\ \A h \in (Height(n) + 1)..Height(m) : IsChild(AncestorAt(m, h))

(* A node below n is n or below one of its children. *)
LEMMA BelowSplits ==
  ASSUME IsTree(tree), KidsOK(tree), Bounded(tree),
         NEW n \in DOMAIN tree, NEW m \in DOMAIN tree, Below(n, m), m # n
  PROVE  \E c \in ToSet(Children(n)) : Below(c, m)
<1>1. /\ Height(n) \in Nat /\ Height(m) \in Nat
      /\ \A h \in 0..Height(m) : AncestorAt(m, h) \in DOMAIN tree /\ Height(AncestorAt(m, h)) = h
      /\ AncestorAt(m, Height(m)) = m
  BY HeightZero, AncestorFacts DEF Height, AncestorAt, Path
<1>2. Height(n) + 1 \in 1..Height(m) /\ Height(n) + 1 \in (Height(n) + 1)..Height(m)
  BY <1>1 DEF Below
<1> DEFINE c == AncestorAt(m, Height(n) + 1)
<1>3. Parent(c) = n
  <2>1. Parent(c) = Path(m)[Height(n) + 1]
    BY <1>2, AncestorParent DEF Height, AncestorAt, Path, Parent
  <2> QED  BY <2>1 DEF Below, AncestorAt
<1>4. c \in ToSet(Children(n))
  BY <1>2, <1>3 DEF Below, IsChild
<1>5. Height(c) = Height(n) + 1 /\ AncestorAt(m, Height(c)) = c
  BY <1>1, <1>2
<1>6. Below(c, m)
  <2> HIDE DEF c
  <2>1. \A h \in (Height(c) + 1)..Height(m) : h \in (Height(n) + 1)..Height(m)
    BY <1>1, <1>5
  <2> QED  BY <1>1, <1>2, <1>5, <2>1 DEF Below
<1> QED  BY <1>4, <1>6

(* What is below a child is below the node.                                *)
LEMMA BelowChild ==
  ASSUME IsTree(tree), KidsOK(tree), Bounded(tree),
         NEW n \in DOMAIN tree, NEW c \in ToSet(Children(n)),
         NEW m \in DOMAIN tree, Below(c, m)
  PROVE  Below(n, m)
<1>1. /\ c \in DOMAIN tree \ {Root} /\ Parent(c) = n
      /\ Height(c) = Height(n) + 1 /\ Height(n) \in Nat
  BY ChildFacts
<1>2. Height(m) \in Nat /\ Height(n) + 1 \in 1..Height(m) /\ AncestorAt(m, Height(n) + 1) = c
  BY <1>1, HeightZero DEF Below, Height
<1>3. AncestorAt(m, Height(n)) = n
  <2>1. Parent(c) = Path(m)[Height(n) + 1]
    BY <1>2, AncestorParent DEF Height, AncestorAt, Path, Parent
  <2> QED  BY <1>1, <2>1 DEF AncestorAt
<1>4. \A h \in (Height(n) + 1)..Height(m) : IsChild(AncestorAt(m, h))
  <2> TAKE h \in (Height(n) + 1)..Height(m)
  <2>1. h = Height(n) + 1 \/ h \in (Height(c) + 1)..Height(m)
    BY <1>1, <1>2
  <2> QED  BY <1>1, <1>2, <2>1 DEF Below, IsChild
<1> QED  BY <1>1, <1>2, <1>3, <1>4 DEF Below

(* FindFarthestNode returns a node the Children lead to from the root, and *)
(* none of them is higher.                                                 *)
LEMMA FarthestNode ==
  ASSUME IsTree(tree), KidsOK(tree), Bounded(tree)
  PROVE  /\ FindFarthestNode \in DOMAIN tree /\ Below(Root, FindFarthestNode)
         /\ \A m \in DOMAIN tree : Below(Root, m) => Height(m) <= Height(FindFarthestNode)
<1> DEFINE Solves(f) == f = [n \in DOMAIN tree |-> FarthestBelow(f, n)]
           far == CHOOSE f : Solves(f)
<1>1. PICK top \in Nat : \A n \in DOMAIN tree : Height(n) <= top
  BY DEF Bounded, Height
<1>2. \A n \in DOMAIN tree : Height(n) \in Nat
  BY HeightZero DEF Height
<1>3. \E f : Solves(f)
  <2>1. {n \in DOMAIN tree : top - Height(n) <= top} = DOMAIN tree
    BY <1>1, <1>2
  <2>2. \E f : /\ f = [n \in {n \in DOMAIN tree : top - Height(n) <= top} |->
                          FarthestBelow(f, n)]
               /\ \A n \in {n \in DOMAIN tree : top - Height(n) <= top} :
                    f[n] \in DOMAIN tree
    BY <1>1, FarthestExists
  <2> QED  BY <2>1, <2>2
<1>4. Solves(far)
  <2> HIDE DEF Solves
  <2> QED  BY <1>3
<1>5. FindFarthestNode = far[Root]
  BY DEF FindFarthestNode, FarthestBelow, Farther, FirstFarthest
<1> DEFINE Right(n) == /\ far[n] \in DOMAIN tree /\ Below(n, far[n])
                       /\ \A m \in DOMAIN tree : Below(n, m) => Height(m) <= Height(far[n])
           Bad == {i \in Nat : \E n \in DOMAIN tree : Height(n) = top - i /\ ~Right(n)}
<1>6. ASSUME NEW n \in DOMAIN tree, \A c \in ToSet(Children(n)) : Right(c)
      PROVE  Right(n)
  <2>1. far[n] = FarthestBelow(far, n)
    <3> HIDE DEF far
    <3> QED  BY <1>4
  <2> HIDE DEF far
  <2>2. Below(n, n)
    <3>1. AncestorAt(n, Height(n)) = n
      BY AncestorFacts DEF AncestorAt, Path, Height
    <3> QED  BY <1>2, <3>1 DEF Below
  <2>3. CASE Children(n) = <<>>
    <3>1. far[n] = n
      BY <2>1, <2>3 DEF FarthestBelow
    <3>2. \A m \in DOMAIN tree : Below(n, m) => m = n
      BY <2>3, BelowSplits DEF ToSet
    <3> QED  BY <1>2, <2>2, <3>1, <3>2
  <2>4. CASE Children(n) # <<>>
    <3> DEFINE kids == Children(n)  best == kids[Farther(far, n)]
    <3>1. \A c \in ToSet(kids) : far[c] \in DOMAIN tree
      BY <1>6
    <3>2. /\ Farther(far, n) \in DOMAIN kids
          /\ \A j \in DOMAIN kids : Height(far[kids[j]]) <= Height(far[best])
      BY <2>4, <3>1, FirstFarthestIs
    <3>3. best \in ToSet(kids) /\ far[n] = far[best]
      BY <2>1, <2>4, <3>2 DEF ToSet, FarthestBelow
    <3>4. \A c \in ToSet(kids) : Height(far[c]) <= Height(far[n])
      BY <3>2, <3>3 DEF ToSet
    <3>5. far[n] \in DOMAIN tree /\ Below(n, far[n])
      BY <1>6, <3>3, BelowChild
    <3>6. ASSUME NEW m \in DOMAIN tree, Below(n, m)
          PROVE  Height(m) <= Height(far[n])
      <4>1. CASE m = n
        BY <3>5, <4>1 DEF Below
      <4>2. CASE m # n
        <5>1. PICK c \in ToSet(kids) : Below(c, m)
          BY <3>6, <4>2, BelowSplits
        <5>2. Height(m) <= Height(far[c]) /\ far[c] \in DOMAIN tree
          BY <1>6, <5>1
        <5> QED  BY <1>2, <3>4, <3>5, <5>2
      <4> QED  BY <4>1, <4>2
    <3> QED  BY <3>5, <3>6
  <2> QED  BY <2>3, <2>4
<1>7. ASSUME NEW i \in Bad, \A j \in Bad : i <= j
      PROVE  FALSE
  <2>1. PICK n \in DOMAIN tree : Height(n) = top - i /\ ~Right(n)
    OBVIOUS
  <2>2. PICK c \in ToSet(Children(n)) : ~Right(c)
    <3> HIDE DEF Right
    <3> QED  BY <1>6, <2>1
  <2>3. c \in DOMAIN tree /\ Height(c) = Height(n) + 1
    BY <2>2, ChildFacts
  <2>4. Height(n) \in Nat /\ Height(c) <= top /\ i \in Nat
    BY <1>1, <1>2, <2>3
  <2>5. i - 1 \in Nat /\ Height(c) = top - (i - 1) /\ ~ (i <= i - 1)
    <3> HIDE DEF Right, Bad
    <3> QED  BY <2>1, <2>3, <2>4
  <2>6. i - 1 \in Bad
    <3> HIDE DEF Right
    <3> QED  BY <2>2, <2>3, <2>5
  <2> HIDE DEF Bad
  <2> QED  BY <1>7, <2>5, <2>6
<1>8. Bad = {}
  <2> HIDE DEF Bad
  <2>1. Bad \in SUBSET Nat
    BY DEF Bad
  <2> QED  BY <1>7, <2>1, LeastNat
<1>9. Right(Root)
  <2>1. Root \in DOMAIN tree /\ Height(Root) = top - top
    BY DEF IsTree, Height
  <2> HIDE DEF Right
  <2> QED  BY <1>8, <2>1
<1> QED  BY <1>5, <1>9

-----------------------------------------------------------------------------
(* Adding and deleting nodes                                               *)

(* A list without one of its elements, when none is listed twice. *)
LEMMA RemoveOne ==
  ASSUME NEW S, NEW s \in Seq(S), \A i, j \in DOMAIN s : s[i] = s[j] => i = j,
         NEW n \in ToSet(s)
  PROVE  LET u == RemoveAt(s, CHOOSE i \in DOMAIN s : s[i] = n)
         IN  /\ u \in Seq(S)
             /\ ToSet(u) = ToSet(s) \ {n}
             /\ \A i, j \in DOMAIN u : u[i] = u[j] => i = j
<1> DEFINE at == CHOOSE i \in DOMAIN s : s[i] = n
           u == RemoveAt(s, at)
           old(i) == IF i < at THEN i ELSE i + 1
<1>1. at \in 1..Len(s) /\ s[at] = n /\ Len(s) \in Nat /\ DOMAIN s = 1..Len(s)
  <2>1. \E i \in DOMAIN s : s[i] = n
    BY DEF ToSet
  <2> QED  BY <2>1
<1> HIDE DEF at
<1>2. /\ u \in Seq(S) /\ Len(u) = Len(s) - 1 /\ DOMAIN u = 1..(Len(s) - 1)
      /\ \A i \in 1..(Len(s) - 1) : u[i] = s[old(i)]
  <2> DEFINE a == SubSeq(s, 1, at - 1)  b == SubSeq(s, at + 1, Len(s))
  <2>1. /\ a \in Seq(S) /\ Len(a) = at - 1 /\ \A i \in 1..(at - 1) : a[i] = s[i]
    BY <1>1
  <2>2. /\ b \in Seq(S) /\ Len(b) = Len(s) - at
        /\ \A i \in 1..(Len(s) - at) : b[i] = s[at + i]
    <3>1. at + 1 \in Int /\ Len(s) \in Int /\ \A i \in (at + 1)..Len(s) : s[i] \in S
      BY <1>1
    <3>2. /\ b \in Seq(S) /\ Len(b) = IF at + 1 <= Len(s) THEN Len(s) - (at + 1) + 1 ELSE 0
          /\ \A i \in 1..(Len(s) - (at + 1) + 1) : b[i] = s[at + 1 + i - 1]
      BY <3>1, SubSeqProperties
    <3>3. Len(s) - (at + 1) + 1 = Len(s) - at /\ \A i \in Nat : at + 1 + i - 1 = at + i
      BY <1>1
    <3> HIDE DEF b
    <3>4. Len(b) = Len(s) - at
      <4>1. CASE at + 1 <= Len(s)
        BY <1>1, <3>2, <3>3, <4>1
      <4>2. CASE ~ (at + 1 <= Len(s))
        <5>1. at = Len(s)
          <6>1. \A x, y \in Int : x <= y /\ ~ (x + 1 <= y) => x = y
            OBVIOUS
          <6>2. at \in Int /\ Len(s) \in Int /\ at <= Len(s)
            BY <1>1
          <6> QED  BY <4>2, <6>1, <6>2
        <5> QED  BY <1>1, <3>2, <4>2, <5>1
      <4> QED  BY <4>1, <4>2
    <3> QED  BY <3>2, <3>3, <3>4
  <2>3. u = a \o b
    BY DEF RemoveAt
  <2> HIDE DEF a, b, u
  <2>4. u \in Seq(S) /\ Len(u) = Len(s) - 1
    <3>1. a \o b \in Seq(S) /\ Len(a \o b) = Len(a) + Len(b)
      BY <2>1, <2>2, ConcatProperties
    <3> QED  BY <1>1, <2>1, <2>2, <2>3, <3>1
  <2>5. \A i \in 1..(Len(s) - 1) : u[i] = s[old(i)]
    <3> TAKE i \in 1..(Len(s) - 1)
    <3>1. CASE i < at
      <4>1. u[i] = a[i]
        BY <1>1, <2>1, <2>2, <2>3, <3>1
      <4> QED  BY <1>1, <2>1, <3>1, <4>1
    <3>2. CASE ~ (i < at)
      <4>1. i - (at - 1) \in 1..(Len(s) - at) /\ at + (i - (at - 1)) = i + 1
        BY <1>1, <3>2
      <4>2. u[i] = b[i - (at - 1)]
        BY <1>1, <2>1, <2>2, <2>3, <3>2
      <4> QED  BY <2>2, <3>2, <4>1, <4>2
    <3> QED  BY <3>1, <3>2
  <2> QED  BY <2>4, <2>5
<1> HIDE DEF u
<1>3. ToSet(u) = ToSet(s) \ {n}
  <2>1. ASSUME NEW c \in ToSet(u) PROVE c \in ToSet(s) \ {n}
    <3>1. PICK i \in 1..(Len(s) - 1) : c = s[old(i)]
      BY <1>2 DEF ToSet
    <3>2. old(i) \in 1..Len(s) /\ old(i) # at
      BY <1>1
    <3> QED  BY <1>1, <3>1, <3>2 DEF ToSet
  <2>2. ASSUME NEW c \in ToSet(s) \ {n} PROVE c \in ToSet(u)
    <3>1. PICK k \in 1..Len(s) : c = s[k] /\ k # at
      BY <1>1 DEF ToSet
    <3>2. CASE k < at
      <4>1. k \in 1..(Len(s) - 1) /\ old(k) = k
        BY <1>1, <3>2
      <4>2. u[k] = c
        BY <1>2, <3>1, <4>1
      <4> QED  BY <1>2, <4>1, <4>2 DEF ToSet
    <3>3. CASE ~ (k < at)
      <4>1. k - 1 \in 1..(Len(s) - 1) /\ old(k - 1) = k
        BY <1>1, <3>1, <3>3
      <4>2. u[k - 1] = c
        BY <1>2, <3>1, <4>1
      <4> QED  BY <1>2, <4>1, <4>2 DEF ToSet
    <3> QED  BY <3>2, <3>3
  <2> QED  BY <2>1, <2>2
<1>4. \A i, j \in DOMAIN u : u[i] = u[j] => i = j
  <2> TAKE i, j \in DOMAIN u
  <2> HAVE u[i] = u[j]
  <2>1. i \in 1..(Len(s) - 1) /\ j \in 1..(Len(s) - 1)
    BY <1>2
  <2>2. old(i) \in 1..Len(s) /\ old(j) \in 1..Len(s) /\ s[old(i)] = s[old(j)]
    BY <1>1, <1>2, <2>1
  <2>3. old(i) = old(j)
    <3> HIDE DEF old
    <3> QED  BY <1>1, <2>2
  <2> QED  BY <1>1, <2>1, <2>3
<1> QED  BY <1>2, <1>3, <1>4 DEF u, at

(* A list with one element more at its end. *)
LEMMA AppendOne ==
  ASSUME NEW S, NEW s \in Seq(S), \A i, j \in DOMAIN s : s[i] = s[j] => i = j,
         NEW n \in S, n \notin ToSet(s)
  PROVE  LET u == Append(s, n)
         IN  /\ u \in Seq(S)
             /\ ToSet(u) = ToSet(s) \cup {n}
             /\ \A i, j \in DOMAIN u : u[i] = u[j] => i = j
<1> DEFINE u == Append(s, n)
<1>1. /\ u \in Seq(S) /\ Len(u) = Len(s) + 1 /\ DOMAIN u = 1..(Len(s) + 1)
      /\ u[Len(s) + 1] = n /\ \A i \in 1..Len(s) : u[i] = s[i]
      /\ Len(s) \in Nat /\ DOMAIN s = 1..Len(s)
  OBVIOUS
<1> HIDE DEF u
<1>2. \A i \in DOMAIN u : i \in DOMAIN s \/ i = Len(s) + 1
  BY <1>1
<1>3. ToSet(u) = ToSet(s) \cup {n}
  <2>1. \A i \in DOMAIN s : i \in DOMAIN u
    BY <1>1
  <2>2. Len(s) + 1 \in DOMAIN u
    BY <1>1
  <2> QED  BY <1>1, <1>2, <2>1, <2>2 DEF ToSet
<1>4. \A i, j \in DOMAIN u : u[i] = u[j] => i = j
  BY <1>1, <1>2 DEF ToSet
<1> QED  BY <1>1, <1>3, <1>4 DEF u

(* t and u have the same nodes, but for n, with the same parents and       *)
(* heights.                                                                *)
SameShape(t, u) ==
  \A m \in DOMAIN t \cap DOMAIN u : u[m].parent = t[m].parent /\ u[m].height = t[m].height

(* The record of a node. *)
LEMMA NodeRecord ==
  ASSUME NEW p \in NodeId, NEW h \in Nat, NEW k \in Seq(NodeId)
  PROVE  [parent |-> p, height |-> h, children |-> k] \in TreeNode
BY DEF TreeNode

(* The tree u is t with one more node, n, the last child of parent. *)
HasNew(u, t, n, parent) ==
  /\ IsTree(u) /\ KidsOK(u) /\ Bounded(u) /\ SameShape(t, u)
  /\ DOMAIN u = DOMAIN t \cup {n}
  /\ u[n] = [parent |-> parent, height |-> t[parent].height + 1, children |-> <<>>]
  /\ ToSet(u[parent].children) = ToSet(t[parent].children) \cup {n}
  /\ \A m \in DOMAIN t \ {parent} : u[m] = t[m]

(* A new node under a parent. *)
LEMMA AddChildTree ==
  ASSUME NEW t, IsTree(t), KidsOK(t), Bounded(t),
         NEW parent \in DOMAIN t, NEW n \in NodeId, n \notin DOMAIN t
  PROVE  HasNew(AddChild(t, n, parent), t, n, parent)
<1> DEFINE u == AddChild(t, n, parent)
<1>1. n # parent /\ \A m \in DOMAIN t : t[m] \in TreeNode
  BY DEF IsTree
<1>2. /\ DOMAIN u = DOMAIN t \cup {n}
      /\ u[n] = [parent |-> parent, height |-> t[parent].height + 1, children |-> <<>>]
      /\ \A m \in DOMAIN t \ {parent} : u[m] = t[m]
      /\ u[parent] = [parent |-> t[parent].parent, height |-> t[parent].height,
                      children |-> Append(t[parent].children, n)]
  BY <1>1 DEF AddChild, TreeNode
<1> HIDE DEF u
<1>3. SameShape(t, u)
  BY <1>2 DEF SameShape
<1> DEFINE kids == t[parent].children
<1>4. /\ Append(kids, n) \in Seq(NodeId) /\ ToSet(Append(kids, n)) = ToSet(kids) \cup {n}
      /\ \A i, j \in DOMAIN Append(kids, n) : Append(kids, n)[i] = Append(kids, n)[j] => i = j
  <2>1. kids \in Seq(NodeId) /\ (\A i, j \in DOMAIN kids : kids[i] = kids[j] => i = j)
        /\ n \notin ToSet(kids)
    BY <1>1 DEF TreeNode, KidsOK
  <2> HIDE DEF kids
  <2> QED  BY <2>1, AppendOne
<1>5. \A m \in DOMAIN t : u[m].parent = t[m].parent /\ u[m].height = t[m].height
  BY <1>2
<1>6. IsTree(u)
  <2>1. \A m \in DOMAIN u : u[m] \in TreeNode
    <3> TAKE m \in DOMAIN u
    <3>1. CASE m = n
      <4>1. t[parent].height + 1 \in Nat /\ parent \in NodeId
        BY <1>1 DEF TreeNode, IsTree
      <4>2. <<>> \in Seq(NodeId)
        OBVIOUS
      <4> QED  BY <1>2, <3>1, <4>1, <4>2, NodeRecord, ZenonT(60)
    <3>2. CASE m = parent
      <4>1. t[parent].parent \in NodeId /\ t[parent].height \in Nat
        BY <1>1 DEF TreeNode
      <4>2. [parent |-> t[parent].parent, height |-> t[parent].height,
             children |-> Append(kids, n)] \in TreeNode
        <5> HIDE DEF kids
        <5> QED  BY <1>4, <4>1, NodeRecord
      <4> QED  BY <1>2, <3>2, <4>2
    <3>3. CASE m \in DOMAIN t \ {parent}
      BY <1>1, <1>2, <3>3
    <3> QED  BY <1>2, <3>1, <3>2, <3>3
  <2>2. u = [m \in DOMAIN u |-> u[m]]
    BY DEF u, AddChild
  <2>3. u \in [DOMAIN u -> TreeNode]
    BY <2>1, <2>2
  <2>4. \A m \in DOMAIN u \ {Root} :
          u[m].parent \in DOMAIN u /\ u[m].height = u[u[m].parent].height + 1
    <3> TAKE m \in DOMAIN u \ {Root}
    <3>1. CASE m = n
      BY <1>2, <1>5, <3>1
    <3>2. CASE m \in DOMAIN t
      BY <1>2, <1>5, <3>2 DEF IsTree
    <3> QED  BY <1>2, <3>1, <3>2
  <2> QED  BY <1>2, <1>5, <2>3, <2>4 DEF IsTree
<1>7. KidsOK(u)
  <2> SUFFICES ASSUME NEW m \in DOMAIN u
               PROVE  /\ \A c \in ToSet(u[m].children) : c \in DOMAIN u \ {Root} /\ u[c].parent = m
                      /\ \A i, j \in DOMAIN u[m].children :
                           u[m].children[i] = u[m].children[j] => i = j
    BY DEF KidsOK
  <2>1. CASE m = n
    <3>1. u[m].children = <<>>
      BY <1>2, <2>1
    <3> QED  BY <3>1 DEF ToSet
  <2>2. CASE m = parent
    <3>1. u[m].children = Append(kids, n)
      BY <1>2, <2>2
    <3>2. \A c \in ToSet(kids) : c \in DOMAIN t \ {Root} /\ t[c].parent = parent
      BY DEF KidsOK
    <3>3. n # Root
      BY DEF IsTree
    <3>4. u[n].parent = parent
      BY <1>2
    <3> HIDE DEF kids
    <3>5. \A c \in ToSet(Append(kids, n)) : c \in DOMAIN u \ {Root} /\ u[c].parent = m
      BY <1>2, <1>4, <1>5, <2>2, <3>2, <3>3, <3>4
    <3> QED  BY <1>4, <3>1, <3>5
  <2>3. CASE m \in DOMAIN t \ {parent}
    BY <1>2, <1>5, <2>3 DEF KidsOK
  <2> QED  BY <1>2, <2>1, <2>2, <2>3
<1>8. Bounded(u)
  <2>1. PICK top \in Nat : \A m \in DOMAIN t : t[m].height <= top
    BY DEF Bounded
  <2>2. \A m \in DOMAIN t : t[m].height \in Nat
    BY HeightZero
  <2>3. \A m \in DOMAIN u : u[m].height <= top + 1
    BY <1>2, <1>5, <2>1, <2>2
  <2> QED  BY <2>3 DEF Bounded
<1> QED  BY <1>2, <1>3, <1>4, <1>6, <1>7, <1>8 DEF u, HasNew

(* A node taken from its parent's children. *)
LEMMA DelChildTree ==
  ASSUME NEW t, IsTree(t), KidsOK(t), Bounded(t),
         NEW n \in DOMAIN t \ {Root}, n \in ToSet(t[t[n].parent].children)
  PROVE  LET u == DelChild(t, n)
         IN  /\ IsTree(u) /\ KidsOK(u) /\ Bounded(u) /\ SameShape(t, u)
             /\ DOMAIN u = DOMAIN t
             /\ ToSet(u[t[n].parent].children) = ToSet(t[t[n].parent].children) \ {n}
             /\ \A m \in DOMAIN t \ {t[n].parent} : u[m] = t[m]
<1> DEFINE p == t[n].parent  kids == t[p].children  less == RemoveAt(kids, CHOOSE i \in DOMAIN kids : kids[i] = n)
           u == DelChild(t, n)
<1>1. p \in DOMAIN t /\ \A m \in DOMAIN t : t[m] \in TreeNode
  BY DEF IsTree
<1>2. /\ DOMAIN u = DOMAIN t /\ \A m \in DOMAIN t \ {p} : u[m] = t[m]
      /\ u[p] = [parent |-> t[p].parent, height |-> t[p].height, children |-> less]
  <2>1. u = [t EXCEPT ![p].children = less]
    BY DEF DelChild
  <2> HIDE DEF less, u, p
  <2> QED  BY <1>1, <2>1 DEF TreeNode
<1>3. /\ less \in Seq(NodeId) /\ ToSet(less) = ToSet(kids) \ {n}
      /\ \A i, j \in DOMAIN less : less[i] = less[j] => i = j
  <2>1. kids \in Seq(NodeId) /\ (\A i, j \in DOMAIN kids : kids[i] = kids[j] => i = j)
        /\ n \in ToSet(kids)
    BY <1>1 DEF TreeNode, KidsOK
  <2> HIDE DEF kids
  <2> QED  BY <2>1, RemoveOne
<1>0. u = [m \in DOMAIN u |-> u[m]]
  BY DEF DelChild
<1> HIDE DEF u, less
<1>4. \A m \in DOMAIN t : u[m].parent = t[m].parent /\ u[m].height = t[m].height
  BY <1>2
<1>5. IsTree(u)
  <2>1. \A m \in DOMAIN u : u[m] \in TreeNode
    <3> TAKE m \in DOMAIN u
    <3>1. CASE m = p
      BY <1>1, <1>2, <1>3, <3>1 DEF TreeNode
    <3>2. CASE m # p
      BY <1>1, <1>2, <3>2
    <3> QED  BY <3>1, <3>2
  <2>2. u \in [DOMAIN u -> TreeNode]
    BY <1>0, <2>1
  <2> QED  BY <1>2, <1>4, <2>2 DEF IsTree
<1>6. KidsOK(u)
  <2> SUFFICES ASSUME NEW m \in DOMAIN u
               PROVE  /\ \A c \in ToSet(u[m].children) : c \in DOMAIN u \ {Root} /\ u[c].parent = m
                      /\ \A i, j \in DOMAIN u[m].children :
                           u[m].children[i] = u[m].children[j] => i = j
    BY DEF KidsOK
  <2>1. CASE m = p
    <3>1. u[m].children = less
      BY <1>2, <2>1
    <3>2. \A c \in ToSet(kids) : c \in DOMAIN t \ {Root} /\ t[c].parent = p
      BY <1>1 DEF KidsOK
    <3> HIDE DEF kids, p
    <3> QED  BY <1>2, <1>3, <1>4, <2>1, <3>1, <3>2
  <2>2. CASE m # p
    BY <1>2, <1>4, <2>2 DEF KidsOK
  <2> QED  BY <2>1, <2>2
<1>7. Bounded(u)
  BY <1>2, <1>4 DEF Bounded
<1> QED  BY <1>2, <1>3, <1>4, <1>5, <1>6, <1>7 DEF u, SameShape

(* A node nothing points to leaves the tree. *)
LEMMA DropTree ==
  ASSUME NEW t, IsTree(t), KidsOK(t), Bounded(t), NEW n \in DOMAIN t \ {Root},
         \A m \in DOMAIN t \ {Root} : t[m].parent # n,
         n \notin ToSet(t[t[n].parent].children)
  PROVE  LET u == DropBlock(t, n)
         IN  /\ IsTree(u) /\ KidsOK(u) /\ Bounded(u)
             /\ DOMAIN u = DOMAIN t \ {n} /\ \A m \in DOMAIN t \ {n} : u[m] = t[m]
<1> DEFINE u == DropBlock(t, n)
<1>1. DOMAIN u = DOMAIN t \ {n} /\ \A m \in DOMAIN t \ {n} : u[m] = t[m]
  BY DEF DropBlock
<1>2. IsTree(u)
  <2>1. u \in [DOMAIN u -> TreeNode]
    BY DEF IsTree, DropBlock
  <2> HIDE DEF u
  <2> QED  BY <1>1, <2>1 DEF IsTree
<1> HIDE DEF u
<1>3. KidsOK(u)
  BY <1>1 DEF KidsOK
<1>4. Bounded(u)
  BY <1>1 DEF Bounded
<1> QED  BY <1>1, <1>2, <1>3, <1>4 DEF u
-----------------------------------------------------------------------------
(* The chain                                                               *)

TreeOK == IsTree(tree) /\ KidsOK(tree) /\ Bounded(tree)

TrustedIn(map, b) == b \in DOMAIN map /\ map[b] = TRUE

(* Every node that is a child of its parent is the one BlockIndex has for  *)
(* its block, and each block of BlockIndex is in the block database, but   *)
(* for the genesis block and a block that is being added to the tip.       *)
IndexOK ==
  /\ Genesis \in DOMAIN BlockIndex /\ DOMAIN BlockIndex \subseteq Block
  /\ \A b \in DOMAIN BlockIndex : BlockIndex[b] \in DOMAIN tree /\ BlockIndex[b].block = b
  /\ \A n \in DOMAIN tree \ {Root} :
       /\ n.block # Genesis
       /\ IsChild(n) => n.block \in DOMAIN BlockIndex /\ BlockIndex[n.block] = n
  /\ blockIdxMap \in [DOMAIN blockIdxMap -> BOOLEAN]
  /\ DOMAIN blockIdxMap = DOMAIN BlockIndex
                            \ ({Genesis} \cup IF pc = "extend" THEN {cur.block} ELSE {})

(* A node that is no child of its parent hangs below the root, below a     *)
(* node that is no child itself, or below a trusted one: none of these can *)
(* be dropped from under it.                                               *)
LooseOK ==
  \A m \in DOMAIN tree \ {Root} :
    \/ IsChild(m) \/ Parent(m) = Root \/ ~IsChild(Parent(m))
    \/ TrustedIn(blockIdxMap, Parent(m).block)

(* Blocks of the active chain are trusted. *)
ActiveTrusted ==
  /\ BlockTreeEnd \in DOMAIN tree
  /\ \A h \in 1..Height(BlockTreeEnd) :
       TrustedIn(blockIdxMap, AncestorAt(BlockTreeEnd, h).block)

(* The unwind records are those of the newest blocks of the active chain,  *)
(* without a gap.                                                          *)
LedgerOK ==
  /\ lastBlockHeight = Height(BlockTreeEnd)
  /\ lastBlockHeight > 0 => lastBlockHeight \in DOMAIN unwind
  /\ \A h \in DOMAIN unwind :
       /\ h \in 1..lastBlockHeight /\ h + MaxHistory > lastBlockHeight
       /\ \A k \in h..lastBlockHeight : k \in DOMAIN unwind
       /\ unwind[h].hash = AncestorAt(BlockTreeEnd, h).block

(* Where the calls are: a block that extends the tip is its child; while   *)
(* the tip is undone, cur is an ancestor of dst, not above the tip; and    *)
(* blocks are parsed on the way to dst, unless dst hangs loose.            *)
CallOK ==
  /\ pc \in {"idle", "extend"} => dst = Root
  /\ pc = "extend" => /\ cur \in DOMAIN tree \ {Root} /\ Parent(cur) = BlockTreeEnd
                      /\ IsChild(cur) /\ Children(cur) = <<>>
  /\ pc \in {"undo", "parse"} => dst \in DOMAIN tree
  /\ pc = "undo" => /\ cur \in DOMAIN tree /\ Height(cur) <= Height(BlockTreeEnd)
                    /\ Height(cur) <= Height(dst) /\ AncestorAt(dst, Height(cur)) = cur
  /\ pc = "parse" /\ dst \in Attached(tree) =>
       /\ Height(BlockTreeEnd) <= Height(dst)
       /\ AncestorAt(dst, Height(BlockTreeEnd)) = BlockTreeEnd

(* The outermost call saved what the client had asked for. *)
SyncOK ==
  /\ prvSync \in Seq(BOOLEAN) /\ DoNotSync \in BOOLEAN /\ nosync \in BOOLEAN
  /\ pc \in {"idle", "extend"} => prvSync = <<>>
  /\ pc \in {"parse", "retarget"} => prvSync # <<>>
  /\ prvSync = <<>> => ~nosync /\ DoNotSync = asked
  /\ prvSync # <<>> => Head(prvSync) = asked

Good == TreeOK /\ IndexOK /\ LooseOK /\ ActiveTrusted /\ LedgerOK /\ CallOK /\ SyncOK

ChainInv ==
  /\ pc \in Panics \cup Running \cup {"idle"}
  /\ pc \notin Panics => Good
  /\ PanicsHaveCauses
-----------------------------------------------------------------------------
(* The initial state satisfies the inductive invariant. *)
LEMMA InitInv == Init => ChainInv
<1> SUFFICES ASSUME Init PROVE ChainInv
  OBVIOUS
<1>1. /\ DOMAIN tree = {Root} /\ DOMAIN BlockIndex = {Genesis} /\ DOMAIN blockIdxMap = {}
      /\ DOMAIN unwind = {} /\ BlockIndex[Genesis] = Root
      /\ tree[Root] = [parent |-> Root, height |-> 0, children |-> <<>>]
  BY DEF Init, EmptyDB
<1>2. Root \in NodeId /\ Root.block = Genesis
  BY ChainAssumption DEF NodeId, Root
<1>3. TreeOK
  <2>1. tree[Root] \in TreeNode
    <3>1. <<>> \in Seq(NodeId) /\ 0 \in Nat
      OBVIOUS
    <3>2. [parent |-> Root, height |-> 0, children |-> <<>>] \in TreeNode
      BY <1>2, <3>1, NodeRecord
    <3> QED  BY <1>1, <3>2
  <2>2. tree \in [DOMAIN tree -> TreeNode]
    BY <1>1, <2>1 DEF Init
  <2>3. IsTree(tree)
    BY <1>1, <1>2, <2>2 DEF IsTree
  <2>4. KidsOK(tree)
    BY <1>1 DEF KidsOK, ToSet
  <2>5. Bounded(tree)
    BY <1>1 DEF Bounded
  <2> QED  BY <2>3, <2>4, <2>5 DEF TreeOK
<1>4. pc = "idle" /\ BlockTreeEnd = Root /\ Height(Root) = 0
  BY <1>1 DEF Init, Height
<1>5. IndexOK
  BY <1>1, <1>2, <1>4, ChainAssumption DEF IndexOK, Init
<1>6. LooseOK /\ ActiveTrusted /\ LedgerOK /\ CallOK
  BY <1>1, <1>4 DEF LooseOK, ActiveTrusted, LedgerOK, CallOK, Init
<1>7. SyncOK
  <2>1. /\ prvSync = <<>> /\ DoNotSync \in BOOLEAN /\ nosync = FALSE
        /\ asked = DoNotSync /\ pc = "idle"
    BY ChainAssumption DEF Init
  <2>2. <<>> \in Seq(BOOLEAN)
    OBVIOUS
  <2> QED  BY <2>1, <2>2 DEF SyncOK
<1>8. pc \notin Panics /\ PanicsHaveCauses
  BY <1>4 DEF Panics, PanicsHaveCauses, PathPanics
<1> QED  BY <1>3, <1>4, <1>5, <1>6, <1>7, <1>8 DEF ChainInv, Good

(* What the lemmas on trees say of the nodes of the chain. *)
LEMMA NodeFacts ==
  ASSUME TreeOK, NEW n \in DOMAIN tree
  PROVE  /\ Height(n) \in Nat /\ Parent(n) \in DOMAIN tree /\ (n = Root <=> Height(n) = 0)
         /\ n # Root => Height(n) = Height(Parent(n)) + 1
         /\ AncestorAt(n, Height(n)) = n
         /\ \A h \in 0..Height(n) : /\ AncestorAt(n, h) \in DOMAIN tree
                                    /\ Height(AncestorAt(n, h)) = h
         /\ \A h \in 1..Height(n) : Parent(AncestorAt(n, h)) = AncestorAt(n, h - 1)
         /\ n # Root => \A h \in 0..Height(Parent(n)) :
                          AncestorAt(n, h) = AncestorAt(Parent(n), h)
<1>1. /\ Height(n) \in Nat /\ Parent(n) \in DOMAIN tree /\ (n = Root <=> Height(n) = 0)
      /\ n # Root => Height(n) = Height(Parent(n)) + 1
  BY HeightZero DEF TreeOK, IsTree, Height, Parent
<1>2. /\ AncestorAt(n, Height(n)) = n
      /\ \A h \in 0..Height(n) : /\ AncestorAt(n, h) \in DOMAIN tree
                                 /\ Height(AncestorAt(n, h)) = h
      /\ n # Root => \A h \in 0..Height(Parent(n)) :
                       AncestorAt(n, h) = AncestorAt(Parent(n), h)
  BY AncestorFacts DEF TreeOK, Height, Parent, AncestorAt, Path
<1>3. ASSUME NEW h \in 1..Height(n)
      PROVE  Parent(AncestorAt(n, h)) = AncestorAt(n, h - 1)
  <2>1. tree[PathIn(tree, n)[h + 1]].parent = PathIn(tree, n)[h]
    BY AncestorParent DEF TreeOK, Height
  <2>2. (h - 1) + 1 = h
    OBVIOUS
  <2> QED  BY <2>1, <2>2 DEF AncestorAt, Path, Parent
<1> QED  BY <1>1, <1>2, <1>3

(* The children lead to a node if every node on the way to it is a child.  *)
LEMMA AttachedIsBelow ==
  ASSUME TreeOK, NEW n \in DOMAIN tree
  PROVE  n \in Attached(tree) <=> \A h \in 1..Height(n) : IsChild(AncestorAt(n, h))
<1>1. /\ PathIn(tree, n) \in Seq(DOMAIN tree) /\ Len(PathIn(tree, n)) = Height(n) + 1
      /\ Height(n) \in Nat
  BY PathShape, HeightZero DEF TreeOK, Height
<1>2. n \in Attached(tree) <=> \A m \in ToSet(PathIn(tree, n)) \ {Root} : IsChild(m)
  BY DEF Attached, IsChild, Children, Parent
<1>3. ASSUME NEW m \in ToSet(PathIn(tree, n)) \ {Root}
      PROVE  \E h \in 1..Height(n) : m = AncestorAt(n, h)
  <2>1. PICK i \in 1..(Height(n) + 1) : m = PathIn(tree, n)[i]
    BY <1>1 DEF ToSet
  <2>2. i # 1
    <3>1. Height(AncestorAt(n, 0)) = 0 /\ AncestorAt(n, 0) \in DOMAIN tree
      BY <1>1, NodeFacts
    <3>2. AncestorAt(n, 0) = Root
      BY <3>1, NodeFacts
    <3> QED  BY <2>1, <3>2 DEF AncestorAt, Path
  <2>3. i - 1 \in 1..Height(n) /\ (i - 1) + 1 = i
    BY <1>1, <2>2
  <2> QED  BY <2>1, <2>3 DEF AncestorAt, Path
<1>4. ASSUME NEW h \in 1..Height(n)
      PROVE  AncestorAt(n, h) \in ToSet(PathIn(tree, n)) \ {Root}
  <2>1. h + 1 \in DOMAIN PathIn(tree, n)
    BY <1>1
  <2>2. AncestorAt(n, h) \in ToSet(PathIn(tree, n))
    BY <2>1 DEF AncestorAt, Path, ToSet
  <2>3. AncestorAt(n, h) # Root
    <3>1. h \in 0..Height(n)
      OBVIOUS
    <3>2. AncestorAt(n, h) \in DOMAIN tree /\ Height(AncestorAt(n, h)) = h
      BY <3>1, NodeFacts
    <3> QED  BY <3>2, NodeFacts
  <2> QED  BY <2>2, <2>3
<1> QED  BY <1>2, <1>3, <1>4
-----------------------------------------------------------------------------
(* Steps that leave the tree alone                                         *)

(* Then paths, heights and the nodes attached are the same. *)
LEMMA TreeUnchanged ==
  ASSUME TreeOK, UNCHANGED tree
  PROVE  /\ TreeOK'
         /\ \A n : Height(n)' = Height(n) /\ Parent(n)' = Parent(n)
                 /\ Children(n)' = Children(n) /\ IsChild(n)' = IsChild(n)
         /\ \A n, h : AncestorAt(n, h)' = AncestorAt(n, h)
         /\ Attached(tree)' = Attached(tree)
BY DEF TreeOK, Height, Parent, Children, IsChild, AncestorAt, Path

(* The index is right as long as the block database loses none of it. *)
LEMMA IndexKept ==
  ASSUME TreeOK, IndexOK, LooseOK, UNCHANGED <<tree, BlockIndex, blockIdxMap>>,
         pc # "extend", pc' # "extend"
  PROVE  IndexOK' /\ LooseOK'
<1>1. IndexOK'
  BY TreeUnchanged DEF IndexOK
<1>2. LooseOK'
  BY TreeUnchanged DEF LooseOK
<1> QED  BY <1>1, <1>2

(* The tip takes a node on top of it: its block is committed and trusted.  *)
LEMMA TipTakes ==
  ASSUME TreeOK, IndexOK, LooseOK, ActiveTrusted, LedgerOK,
         NEW n \in DOMAIN tree \ {Root}, Parent(n) = BlockTreeEnd,
         NEW changes, CommitBlockTxs(changes, n),
         n.block \in DOMAIN BlockIndex,
         pc = "extend" => cur = n, pc' # "extend",
         blockIdxMap' = SetBlock(blockIdxMap, n.block, TRUE),
         BlockTreeEnd' = n, UNCHANGED <<tree, BlockIndex>>
  PROVE  TreeOK' /\ IndexOK' /\ LooseOK' /\ ActiveTrusted' /\ LedgerOK'
<1>1. /\ Height(n) = Height(BlockTreeEnd) + 1 /\ Height(BlockTreeEnd) \in Nat
      /\ AncestorAt(n, Height(n)) = n /\ Height(n) \in Nat
      /\ \A h \in 0..Height(BlockTreeEnd) : AncestorAt(n, h) = AncestorAt(BlockTreeEnd, h)
  BY NodeFacts DEF ActiveTrusted
<1>2. /\ TreeOK' /\ \A m : /\ Height(m)' = Height(m) /\ Parent(m)' = Parent(m)
                            /\ IsChild(m)' = IsChild(m)
      /\ \A m, h : AncestorAt(m, h)' = AncestorAt(m, h)
  BY TreeUnchanged
<1>3. /\ DOMAIN blockIdxMap' = DOMAIN blockIdxMap \cup {n.block}
      /\ \A b \in DOMAIN blockIdxMap' :
           blockIdxMap'[b] = IF b = n.block THEN TRUE ELSE blockIdxMap[b]
  BY DEF SetBlock
<1>4. \A b : TrustedIn(blockIdxMap, b) \/ b = n.block => TrustedIn(blockIdxMap', b)
  BY <1>3 DEF TrustedIn
<1>5. IndexOK'
  <2>1. blockIdxMap' \in [DOMAIN blockIdxMap' -> BOOLEAN]
    <3>1. \A b \in DOMAIN blockIdxMap' : blockIdxMap'[b] \in BOOLEAN
      <4> TAKE b \in DOMAIN blockIdxMap'
      <4>1. CASE b = n.block
        BY <1>3, <4>1
      <4>2. CASE b # n.block
        <5>1. b \in DOMAIN blockIdxMap /\ blockIdxMap'[b] = blockIdxMap[b]
          BY <1>3, <4>2
        <5>2. blockIdxMap \in [DOMAIN blockIdxMap -> BOOLEAN]
          BY DEF IndexOK
        <5>3. blockIdxMap[b] \in BOOLEAN
          BY <5>1, <5>2, Zenon
        <5> QED  BY <5>1, <5>3, Zenon
      <4> QED  BY <4>1, <4>2
    <3>2. blockIdxMap' = [b \in DOMAIN blockIdxMap' |-> blockIdxMap'[b]]
      BY DEF SetBlock
    <3> QED  BY <3>1, <3>2
  <2>2. n.block # Genesis
    BY DEF IndexOK
  <2>3. DOMAIN blockIdxMap' = DOMAIN BlockIndex' \ {Genesis}
    BY <1>3, <2>2, ZenonT(60) DEF IndexOK
  <2> QED  BY <1>2, <2>1, <2>3 DEF IndexOK
<1>6. LooseOK'
  BY <1>2, <1>4 DEF LooseOK
<1>7. ActiveTrusted'
  <2>1. ASSUME NEW h \in 1..Height(n) PROVE TrustedIn(blockIdxMap', AncestorAt(n, h).block)
    <3>1. CASE h = Height(n)
      <4>1. AncestorAt(n, h).block = n.block
        BY <1>1, <3>1
      <4> QED  BY <1>4, <4>1
    <3>2. CASE h # Height(n)
      <4>1. h \in 1..Height(BlockTreeEnd) /\ h \in 0..Height(BlockTreeEnd)
        BY <1>1, <3>2
      <4> QED  BY <1>1, <1>4, <4>1 DEF ActiveTrusted
    <3> QED  BY <3>1, <3>2
  <2> QED  BY <1>2, <2>1 DEF ActiveTrusted
<1>8. LedgerOK'
  <2> DEFINE H == Height(n)
             rec == UnwindRecord(n.block, changes.added, changes.deleted)
  <2>1. /\ lastBlockHeight = H - 1 /\ lastBlockHeight' = H /\ H \in Nat \ {0}
        /\ unwind' = Pruned(PutRecord(unwind, H, rec), H)
    BY <1>1 DEF CommitBlockTxs, LedgerOK
  <2>2. rec.hash = n.block
    BY DEF UnwindRecord
  <2> HIDE DEF H, rec
  <2> USE ChainAssumption
  <2>3. /\ DOMAIN unwind' = (DOMAIN unwind \cup {H}) \ {H - MaxHistory}
        /\ \A h \in DOMAIN unwind' : unwind'[h] = IF h = H THEN rec ELSE unwind[h]
    <3>1. CASE H >= MaxHistory
      BY <2>1, <3>1 DEF Pruned, PutRecord, DelRecord
    <3>2. CASE ~ (H >= MaxHistory)
      <4>1. H - MaxHistory < 0
        BY <2>1, <3>2
      <4>2. H - MaxHistory \notin DOMAIN unwind \cup {H}
        BY <2>1, <4>1 DEF LedgerOK
      <4> QED  BY <2>1, <3>2, <4>2 DEF Pruned, PutRecord
    <3> QED  BY <3>1, <3>2
  <2>4. H \in DOMAIN unwind'
    BY <2>1, <2>3
  <2>5. ASSUME NEW h \in DOMAIN unwind'
        PROVE  /\ h \in 1..H /\ h + MaxHistory > H
               /\ \A k \in h..H : k \in DOMAIN unwind'
               /\ unwind'[h].hash = AncestorAt(n, h).block
    <3>1. CASE h = H
      <4>1. h \in 1..H /\ h + MaxHistory > H /\ \A k \in h..H : k = H
        BY <2>1, <3>1
      <4>2. unwind'[h].hash = AncestorAt(n, h).block
        BY <1>1, <2>2, <2>3, <3>1 DEF H
      <4> QED  BY <2>4, <4>1, <4>2
    <3>2. CASE h # H
      <4>1. /\ h \in DOMAIN unwind /\ h # H - MaxHistory
            /\ h \in 1..(H - 1) /\ h + MaxHistory > H - 1
            /\ \A k \in h..(H - 1) : k \in DOMAIN unwind
            /\ unwind[h].hash = AncestorAt(BlockTreeEnd, h).block
        BY <2>1, <2>3, <3>2 DEF LedgerOK
      <4>2. h \in 1..H /\ h + MaxHistory > H
        BY <2>1, <4>1
      <4>3. \A k \in h..H : k \in DOMAIN unwind'
        <5> TAKE k \in h..H
        <5>1. k # H - MaxHistory
          BY <2>1, <4>1, <4>2
        <5>2. k = H \/ k \in h..(H - 1)
          BY <2>1, <4>1
        <5> QED  BY <2>3, <4>1, <5>1, <5>2
      <4>4. AncestorAt(n, h) = AncestorAt(BlockTreeEnd, h)
        <5>1. h \in 0..Height(BlockTreeEnd)
          BY <1>1, <2>1, <4>1 DEF LedgerOK
        <5> QED  BY <1>1, <5>1
      <4> QED  BY <2>3, <3>2, <4>1, <4>2, <4>3, <4>4
    <3> QED  BY <3>1, <3>2
  <2> QED  BY <1>2, <2>1, <2>4, <2>5 DEF LedgerOK, H
<1> QED  BY <1>2, <1>5, <1>6, <1>7, <1>8

-----------------------------------------------------------------------------
(* Steps that change the tree                                              *)

(* A block that arrives gets a node that was never used. *)
LEMMA NewIdIsNew ==
  ASSUME NEW b \in Block, Fresh(b)
  PROVE  NewId(b) \in NodeId /\ NewId(b) \notin DOMAIN tree /\ NewId(b).block = b
<1> DEFINE Free == {g \in 0..MaxRejected : [block |-> b, gen |-> g] \notin DOMAIN tree}
           Is(g) == /\ [block |-> b, gen |-> g] \notin DOMAIN tree
                    /\ \A k \in 0..(g - 1) : [block |-> b, gen |-> k] \in DOMAIN tree
<1>1. Free # {} /\ Free \in SUBSET Nat
  BY ChainAssumption DEF Fresh
<1>2. PICK g \in Free : \A k \in Free : g <= k
  <2> HIDE DEF Free
  <2> QED  BY <1>1, LeastNat
<1>3. \E i \in 0..MaxRejected : Is(i)
  <2>1. g \in 0..MaxRejected /\ [block |-> b, gen |-> g] \notin DOMAIN tree
    OBVIOUS
  <2>2. ASSUME NEW k \in 0..(g - 1) PROVE [block |-> b, gen |-> k] \in DOMAIN tree
    <3>1. k \in 0..MaxRejected /\ ~ (g <= k)
      BY <2>1, ChainAssumption
    <3>2. k \notin Free
      <4> HIDE DEF Free
      <4> QED  BY <1>2, <3>1
    <3> QED  BY <3>1, <3>2
  <2> QED  BY <2>1, <2>2
<1>4. NewId(b) = [block |-> b, gen |-> CHOOSE i \in 0..MaxRejected : Is(i)]
  BY DEF NewId
<1> DEFINE i0 == CHOOSE i \in 0..MaxRejected : Is(i)
<1>5. i0 \in 0..MaxRejected /\ Is(i0)
  <2> HIDE DEF Is
  <2> QED  BY <1>3
<1> HIDE DEF i0
<1> QED  BY <1>4, <1>5 DEF NodeId, i0

(* The tree has one more node, the child of parent, and else is what it was. *)
Grown(b, n, parent) ==
  /\ n \in NodeId /\ n \notin DOMAIN tree /\ n.block = b /\ b # Genesis /\ n # Root
  /\ parent \in DOMAIN tree /\ parent.block = ParentOf[b] /\ b \notin DOMAIN BlockIndex
  /\ TreeOK' /\ DOMAIN tree' = DOMAIN tree \cup {n} /\ SameShape(tree, tree')
  /\ tree'[n] = [parent |-> parent, height |-> tree[parent].height + 1, children |-> <<>>]
  /\ ToSet(tree'[parent].children) = ToSet(tree[parent].children) \cup {n}
  /\ \A m \in DOMAIN tree \ {parent} : tree'[m] = tree[m]
  /\ \A m \in DOMAIN tree : Height(m)' = Height(m) /\ Parent(m)' = Parent(m)
  /\ Height(n)' = Height(parent) + 1 /\ Parent(n)' = parent /\ Children(n)' = <<>>
  /\ \A m \in DOMAIN tree : \A h : AncestorAt(m, h)' = AncestorAt(m, h)
  /\ \A m \in DOMAIN tree \ {Root} : IsChild(m)' <=> IsChild(m)
  /\ IsChild(n)'
  /\ DOMAIN BlockIndex' = DOMAIN BlockIndex \cup {b} /\ BlockIndex'[b] = n
  /\ \A c \in DOMAIN BlockIndex : BlockIndex'[c] = BlockIndex[c]

(* AcceptBlock: the new node is the child of a node of the index.          *)
LEMMA NodeAdded ==
  ASSUME Good, NEW b \in Block \ {Genesis}, AcceptBlock(b),
         NEW n, n = NewId(b), NEW parent, parent = BlockIndex[ParentOf[b]]
  PROVE  Grown(b, n, parent)
<1>1. /\ n \in NodeId /\ n \notin DOMAIN tree /\ n.block = b
      /\ parent \in DOMAIN tree /\ parent.block = ParentOf[b] /\ b \notin DOMAIN BlockIndex
      /\ b # Genesis /\ n # Root
  BY NewIdIsNew DEF AcceptBlock, Good, IndexOK, TreeOK, IsTree
<1>2. tree' = AddChild(tree, n, parent) /\ BlockIndex' = SetBlock(BlockIndex, b, n)
  BY DEF AcceptBlock
<1>3. /\ TreeOK' /\ DOMAIN tree' = DOMAIN tree \cup {n} /\ SameShape(tree, tree')
      /\ tree'[n] = [parent |-> parent, height |-> tree[parent].height + 1, children |-> <<>>]
      /\ ToSet(tree'[parent].children) = ToSet(tree[parent].children) \cup {n}
      /\ \A m \in DOMAIN tree \ {parent} : tree'[m] = tree[m]
  <2>0. IsTree(tree) /\ KidsOK(tree) /\ Bounded(tree) /\ n \in NodeId
    BY <1>1 DEF Good, TreeOK
  <2>1. HasNew(AddChild(tree, n, parent), tree, n, parent)
    BY <1>1, <2>0, AddChildTree, Zenon
  <2> QED  BY <1>2, <2>1 DEF TreeOK, HasNew
<1>4. /\ \A m \in DOMAIN tree : Height(m)' = Height(m) /\ Parent(m)' = Parent(m)
      /\ Height(n)' = Height(parent) + 1 /\ Parent(n)' = parent /\ Children(n)' = <<>>
  BY <1>3 DEF SameShape, Height, Parent, Children
<1>5. ASSUME NEW m \in DOMAIN tree, NEW h PROVE AncestorAt(m, h)' = AncestorAt(m, h)
  <2>1. PathIn(tree', m) = PathIn(tree, m)
    <3>1. \A k \in DOMAIN tree : tree'[k].parent = tree[k].parent
      BY <1>3 DEF SameShape
    <3> QED  BY <1>3, <3>1, PathKept DEF Good, TreeOK
  <2> QED  BY <2>1 DEF AncestorAt, Path
<1>6. /\ \A m \in DOMAIN tree \ {Root} : IsChild(m)' <=> IsChild(m)
      /\ IsChild(n)'
  <2>1. ASSUME NEW m \in DOMAIN tree \ {Root} PROVE IsChild(m)' <=> IsChild(m)
    <3>1. Parent(m) \in DOMAIN tree /\ m # n
      BY <1>1, NodeFacts DEF Good
    <3>2. CASE Parent(m) = parent
      BY <1>3, <1>4, <3>1, <3>2 DEF IsChild, Children
    <3>3. CASE Parent(m) # parent
      BY <1>3, <1>4, <3>1, <3>3 DEF IsChild, Children
    <3> QED  BY <3>2, <3>3
  <2>2. IsChild(n)'
    BY <1>3, <1>4 DEF IsChild, Children
  <2> QED  BY <2>1, <2>2
<1>7. /\ DOMAIN BlockIndex' = DOMAIN BlockIndex \cup {b} /\ BlockIndex'[b] = n
      /\ \A c \in DOMAIN BlockIndex : BlockIndex'[c] = BlockIndex[c]
  BY <1>1, <1>2 DEF SetBlock
<1> QED  BY <1>1, <1>3, <1>4, <1>5, <1>6, <1>7 DEF Grown

(* The block waits to extend the tip, or it is stored as a side block. *)
LEMMA AcceptKeeps ==
  ASSUME Good, NEW b \in Block \ {Genesis}, AcceptBlock(b)
  PROVE  Good' /\ pc' \in {"extend", "undo", "idle"}
<1>0. PICK n, parent, tip : n = NewId(b) /\ parent = BlockIndex[ParentOf[b]] /\ tip = BlockTreeEnd
  OBVIOUS
<1>18. Grown(b, n, parent)
  BY <1>0, NodeAdded
<1>1. /\ n \in NodeId /\ n \notin DOMAIN tree /\ n.block = b
      /\ parent \in DOMAIN tree /\ b \notin DOMAIN BlockIndex /\ tip \in DOMAIN tree
      /\ b # Genesis /\ n # Root /\ pc = "idle"
  BY <1>0, NewIdIsNew DEF AcceptBlock, Good, IndexOK, ActiveTrusted, TreeOK, IsTree
<1>2. /\ tree' = AddChild(tree, n, parent)
      /\ BlockIndex' = SetBlock(BlockIndex, b, n)
      /\ UNCHANGED <<BlockTreeEnd, ledgerVars, DoNotSync, prvSync, nosync, asked>>
      /\ \/ /\ parent = tip /\ pc' = "extend" /\ cur' = n /\ UNCHANGED <<dst, blockIdxMap>>
         \/ /\ blockIdxMap' = SetBlock(blockIdxMap, b, FALSE)
            /\ \/ /\ Height(parent) + 1 > Height(tip) /\ pc' = "undo" /\ dst' = n
                  /\ cur' = AncestorAt(parent, Height(tip))
               \/ pc' = "idle" /\ dst' = Root
  BY <1>0 DEF AcceptBlock, Return, histVars
<1>3. /\ TreeOK' /\ DOMAIN tree' = DOMAIN tree \cup {n} /\ SameShape(tree, tree')
      /\ tree'[n] = [parent |-> parent, height |-> tree[parent].height + 1, children |-> <<>>]
  BY <1>18 DEF Grown
<1>4. /\ \A m \in DOMAIN tree : Height(m)' = Height(m) /\ Parent(m)' = Parent(m)
      /\ Height(n)' = Height(parent) + 1 /\ Parent(n)' = parent /\ Children(n)' = <<>>
  BY <1>18 DEF Grown
<1>5. \A m \in DOMAIN tree : \A h : AncestorAt(m, h)' = AncestorAt(m, h)
  BY <1>18 DEF Grown
<1>6. /\ \A m \in DOMAIN tree \ {Root} : IsChild(m)' <=> IsChild(m)
      /\ IsChild(n)'
  BY <1>18 DEF Grown
<1>7. /\ b \notin DOMAIN blockIdxMap
      /\ \/ blockIdxMap' = blockIdxMap /\ pc' = "extend" /\ cur' = n
         \/ blockIdxMap' = SetBlock(blockIdxMap, b, FALSE) /\ pc' # "extend"
  BY <1>1, <1>2 DEF Good, IndexOK
<1>8. /\ DOMAIN BlockIndex' = DOMAIN BlockIndex \cup {b} /\ BlockIndex'[b] = n
      /\ \A c \in DOMAIN BlockIndex : BlockIndex'[c] = BlockIndex[c]
  BY <1>18 DEF Grown
<1>9. blockIdxMap' \in [DOMAIN blockIdxMap' -> BOOLEAN]
  <2>1. blockIdxMap \in [DOMAIN blockIdxMap -> BOOLEAN]
    BY DEF Good, IndexOK
  <2>2. \A c \in DOMAIN blockIdxMap : blockIdxMap[c] \in BOOLEAN
    BY <2>1, Zenon
  <2>3. CASE blockIdxMap' = SetBlock(blockIdxMap, b, FALSE)
    <3>1. ASSUME NEW c \in DOMAIN blockIdxMap \cup {b}
          PROVE  (IF c = b THEN FALSE ELSE blockIdxMap[c]) \in BOOLEAN
      BY <2>2, <3>1, Zenon
    <3> QED  BY <2>3, <3>1 DEF SetBlock
  <2> QED  BY <1>7, <2>1, <2>3
<1>10. IndexOK'
  <2>1. DOMAIN blockIdxMap' = DOMAIN BlockIndex' \ ({Genesis} \cup IF pc' = "extend" THEN {cur'.block} ELSE {})
    <3>1. DOMAIN blockIdxMap = DOMAIN BlockIndex \ {Genesis}
      BY <1>1 DEF Good, IndexOK
    <3>2. CASE blockIdxMap' = blockIdxMap /\ pc' = "extend" /\ cur' = n
      BY <1>1, <1>8, <3>1, <3>2
    <3>3. CASE blockIdxMap' = SetBlock(blockIdxMap, b, FALSE) /\ pc' # "extend"
      <4>1. DOMAIN blockIdxMap' = DOMAIN blockIdxMap \cup {b}
        BY <3>3 DEF SetBlock
      <4> QED  BY <1>1, <1>8, <3>1, <3>3, <4>1
    <3> QED  BY <1>7, <3>2, <3>3
  <2>2. \A c \in DOMAIN BlockIndex' : BlockIndex'[c] \in DOMAIN tree' /\ BlockIndex'[c].block = c
    BY <1>1, <1>3, <1>8 DEF Good, IndexOK
  <2>3. ASSUME NEW m \in DOMAIN tree' \ {Root}
        PROVE  /\ m.block # Genesis
               /\ IsChild(m)' => m.block \in DOMAIN BlockIndex' /\ BlockIndex'[m.block] = m
    <3>1. CASE m = n
      BY <1>1, <1>8, <3>1
    <3>2. CASE m # n
      BY <1>1, <1>3, <1>6, <1>8, <3>2 DEF Good, IndexOK
    <3> QED  BY <3>1, <3>2
  <2>4. Genesis \in DOMAIN BlockIndex' /\ DOMAIN BlockIndex' \subseteq Block
    BY <1>8 DEF Good, IndexOK
  <2> QED  BY <1>9, <2>1, <2>2, <2>3, <2>4 DEF IndexOK
<1>11. \A c : TrustedIn(blockIdxMap, c) => TrustedIn(blockIdxMap', c)
  BY <1>7 DEF TrustedIn, SetBlock
<1>12. LooseOK'
  <2>1. ASSUME NEW m \in DOMAIN tree' \ {Root}
        PROVE  \/ IsChild(m)' \/ Parent(m)' = Root \/ ~IsChild(Parent(m))'
               \/ TrustedIn(blockIdxMap', Parent(m)'.block)
    <3>1. CASE m = n
      BY <1>6, <3>1
    <3>2. CASE m # n
      <4>1. m \in DOMAIN tree \ {Root} /\ Parent(m)' = Parent(m) /\ Parent(m) \in DOMAIN tree
        BY <1>3, <1>4, <3>2, NodeFacts DEF Good
      <4>2. PICK p : p = Parent(m)
        OBVIOUS
      <4>3. p # Root => (IsChild(p)' <=> IsChild(p))
        BY <1>6, <4>1, <4>2
      <4>4. IsChild(m) \/ p = Root \/ ~IsChild(p) \/ TrustedIn(blockIdxMap, p.block)
        BY <4>1, <4>2 DEF Good, LooseOK
      <4>5. IsChild(Parent(m))' <=> IsChild(p)'
        BY <4>1, <4>2 DEF IsChild, Parent, Children
      <4> QED  BY <1>6, <1>11, <4>1, <4>2, <4>3, <4>4, <4>5
    <3> QED  BY <3>1, <3>2
  <2> QED  BY <2>1 DEF LooseOK
<1>17. /\ Height(BlockTreeEnd)' = Height(BlockTreeEnd)
      /\ \A h : AncestorAt(BlockTreeEnd, h)' = AncestorAt(BlockTreeEnd, h)
  <2>1. tip = BlockTreeEnd /\ tip = BlockTreeEnd'
    BY <1>0, <1>2
  <2>2. Height(tip)' = Height(tip) /\ \A h : AncestorAt(tip, h)' = AncestorAt(tip, h)
    BY <1>1, <1>4, <1>5
  <2> QED  BY <2>1, <2>2 DEF Height, AncestorAt, Path
<1>13. ActiveTrusted'
  BY <1>0, <1>1, <1>2, <1>3, <1>17, <1>11 DEF Good, ActiveTrusted
<1>14. LedgerOK'
  BY <1>2, <1>17 DEF Good, LedgerOK, ledgerVars
<1>15. CallOK'
  <2>1. CASE pc' = "extend"
    <3>1. parent = tip /\ cur' = n /\ dst' = Root
      BY <1>1, <1>2, <2>1 DEF Good, CallOK
    <3>2. n \in DOMAIN tree' \ {Root} /\ Parent(n)' = BlockTreeEnd' /\ IsChild(n)' /\ Children(n)' = <<>>
      BY <1>0, <1>1, <1>2, <1>3, <1>4, <1>6, <3>1
    <3> QED  BY <2>1, <3>1, <3>2 DEF CallOK, Parent, IsChild, Children
  <2>2. CASE pc' = "idle"
    BY <1>2, <2>2 DEF CallOK
  <2>3. CASE pc' = "undo"
    <3>1. /\ Height(parent) + 1 > Height(tip) /\ dst' = n
          /\ cur' = AncestorAt(parent, Height(tip))
      BY <1>2, <2>3
    <3>2. Height(parent) \in Nat /\ Height(tip) \in Nat /\ Height(tip) \in 0..Height(parent)
      BY <1>1, <3>1, NodeFacts DEF Good
    <3>3. cur' \in DOMAIN tree /\ Height(cur') = Height(tip)
      BY <1>1, <3>1, <3>2, NodeFacts DEF Good
    <3>4. tree'[cur'].height = Height(tip) /\ tree'[tip].height = Height(tip)
          /\ tree'[n].height = Height(parent) + 1 /\ cur' \in DOMAIN tree' /\ n \in DOMAIN tree'
      BY <1>1, <1>3, <1>4, <3>3 DEF Height, SameShape
    <3>5. PathIn(tree', n)[Height(tip) + 1] = PathIn(tree, parent)[Height(tip) + 1]
      <4>1. PathIn(tree', n)[Height(tip) + 1] = PathIn(tree', parent)[Height(tip) + 1]
        <5>1. tree'[n].parent = parent /\ tree'[parent].height = Height(parent) /\ n \in DOMAIN tree'
          BY <1>1, <1>3, <1>4 DEF Height, Parent
        <5>2. \A h \in 0..tree'[parent].height :
                PathIn(tree', n)[h + 1] = PathIn(tree', parent)[h + 1]
          BY <1>1, <1>3, <5>1, AncestorFacts DEF TreeOK
        <5> QED  BY <3>2, <5>1, <5>2
      <4>2. PathIn(tree', parent)[Height(tip) + 1] = PathIn(tree, parent)[Height(tip) + 1]
        BY <1>1, <1>5 DEF AncestorAt, Path
      <4> QED  BY <4>1, <4>2
    <3>7. PathIn(tree', dst')[tree'[cur'].height + 1] = cur'
      BY <3>1, <3>4, <3>5 DEF AncestorAt, Path
    <3>8. /\ cur' \in DOMAIN tree' /\ Height(cur)' <= Height(BlockTreeEnd)'
          /\ Height(cur)' <= Height(dst)' /\ AncestorAt(dst, Height(cur))' = cur'
          /\ dst' \in DOMAIN tree'
      BY <1>0, <1>2, <3>1, <3>2, <3>4, <3>7 DEF Height, AncestorAt, Path
    <3> QED  BY <2>3, <3>8 DEF CallOK
  <2> QED  BY <1>2, <2>1, <2>2, <2>3
<1>16. SyncOK'
  BY <1>1, <1>2 DEF Good, SyncOK
<1> QED  BY <1>2, <1>3, <1>10, <1>12, <1>13, <1>14, <1>15, <1>16 DEF Good

(* A map without a key it does not have is the same map. *)
LEMMA DropNothing ==
  ASSUME NEW map, map \in [DOMAIN map -> BOOLEAN], NEW b, b \notin DOMAIN map
  PROVE  DropBlock(map, b) = map
<1>1. DOMAIN map \ {b} = DOMAIN map
  OBVIOUS
<1>2. map = [x \in DOMAIN map |-> map[x]]
  OBVIOUS
<1> QED  BY <1>1, <1>2, Zenon DEF DropBlock

(* A child of the tip that is not trusted goes, from the tree as well if   *)
(* it has no children.                                                     *)
Removed(n) ==
  /\ n \in DOMAIN tree \ {Root} /\ IsChild(n) /\ Parent(n) = BlockTreeEnd
  /\ ~TrustedIn(blockIdxMap, n.block) /\ (pc = "extend" => cur = n) /\ pc' # "extend"
  /\ tree' = IF Children(n) = <<>> THEN DropBlock(DelChild(tree, n), n)
                                   ELSE DelChild(tree, n)
  /\ BlockIndex' = DropBlock(BlockIndex, n.block)
  /\ blockIdxMap' = DropBlock(blockIdxMap, n.block)
  /\ UNCHANGED BlockTreeEnd

(* Then nothing hangs below it.                                            *)
LEMMA ChildRemoved ==
  ASSUME TreeOK, IndexOK, LooseOK, ActiveTrusted, NEW n, Removed(n)
  PROVE  /\ TreeOK' /\ IndexOK' /\ LooseOK' /\ ActiveTrusted'
         /\ DOMAIN tree \ {n} \subseteq DOMAIN tree'
         /\ n \in DOMAIN tree' => Children(n) # <<>>
         /\ \A m \in DOMAIN tree \ {n} : Height(m)' = Height(m)
         /\ \A m \in DOMAIN tree \ {n} : \A h : AncestorAt(m, h)' = AncestorAt(m, h)
         /\ DOMAIN tree' \subseteq DOMAIN tree
         /\ \A m \in DOMAIN tree' : Height(m)' = Height(m) /\ Parent(m)' = Parent(m)
         /\ \A m \in DOMAIN tree' \ {Root} : IsChild(m)' <=> IsChild(m) /\ m # n
<1> USE DEF Removed
<1> DEFINE t == DelChild(tree, n)
<1>0. PICK tip : tip = BlockTreeEnd
  OBVIOUS
<1>1. tip \in DOMAIN tree /\ Parent(n) = tip /\ tip # n
  <2>1. tip \in DOMAIN tree /\ Parent(n) = tip
    BY <1>0 DEF ActiveTrusted
  <2>2. Height(n) = Height(tip) + 1 /\ Height(tip) \in Nat
    BY <2>1, NodeFacts
  <2> QED  BY <2>1, <2>2
<1>2. /\ IsTree(t) /\ KidsOK(t) /\ Bounded(t) /\ SameShape(tree, t)
      /\ DOMAIN t = DOMAIN tree
      /\ ToSet(t[tip].children) = ToSet(tree[tip].children) \ {n}
      /\ \A m \in DOMAIN tree \ {tip} : t[m] = tree[m]
  BY <1>1, DelChildTree DEF TreeOK, IsChild, Parent, Children
<1> HIDE DEF t
<1>3. /\ tree' = IF Children(n) = <<>> THEN DropBlock(t, n) ELSE t
      /\ t[n].parent = tip
      /\ \A m \in DOMAIN tree : t[m].parent = Parent(m) /\ t[m].height = Height(m)
  BY <1>1, <1>2 DEF t, SameShape, Parent, Height
<1>4. ASSUME Children(n) = <<>>
      PROVE  \A m \in DOMAIN tree \ {Root} : Parent(m) # n
  <2> SUFFICES ASSUME NEW m \in DOMAIN tree \ {Root}, Parent(m) = n PROVE FALSE
    OBVIOUS
  <2>1. ~IsChild(m)
    BY <1>4 DEF IsChild, ToSet
  <2> QED  BY <2>1 DEF LooseOK
<1>5. /\ IsTree(tree') /\ KidsOK(tree') /\ Bounded(tree')
      /\ DOMAIN tree' = IF Children(n) = <<>> THEN DOMAIN tree \ {n} ELSE DOMAIN tree
      /\ \A m \in DOMAIN tree' : tree'[m] = t[m]
  <2>1. CASE Children(n) = <<>>
    <3>1. \A m \in DOMAIN t \ {Root} : t[m].parent # n
      BY <1>2, <1>3, <1>4, <2>1
    <3>2. n \notin ToSet(t[t[n].parent].children) /\ n \in DOMAIN t \ {Root}
      BY <1>2, <1>3
    <3>3. LET u == DropBlock(t, n)
          IN  /\ IsTree(u) /\ KidsOK(u) /\ Bounded(u)
              /\ DOMAIN u = DOMAIN t \ {n} /\ \A m \in DOMAIN t \ {n} : u[m] = t[m]
      BY <1>2, <3>1, <3>2, DropTree
    <3> QED  BY <1>2, <1>3, <2>1, <3>3
  <2>2. CASE Children(n) # <<>>
    BY <1>2, <1>3, <2>2
  <2> QED  BY <2>1, <2>2
<1>6. /\ DOMAIN tree \ {n} \subseteq DOMAIN tree' /\ DOMAIN tree' \subseteq DOMAIN tree
      /\ \A m \in DOMAIN tree' : Height(m)' = Height(m) /\ Parent(m)' = Parent(m)
  BY <1>3, <1>5 DEF Height, Parent
<1>7. ASSUME NEW m \in DOMAIN tree \ {n}, NEW h
      PROVE  AncestorAt(m, h)' = AncestorAt(m, h)
  <2>1. \A k \in DOMAIN tree' : tree[k].parent = tree'[k].parent
    BY <1>6 DEF Parent
  <2>2. PathIn(tree, m) = PathIn(tree', m)
    BY <1>5, <1>6, <2>1, PathKept DEF TreeOK
  <2> QED  BY <2>2 DEF AncestorAt, Path
<1>8. \A m \in DOMAIN tree' \ {Root} : IsChild(m)' <=> IsChild(m) /\ m # n
  <2> TAKE m \in DOMAIN tree' \ {Root}
  <2>1. PICK p : p = Parent(m)
    OBVIOUS
  <2>2. m \in DOMAIN tree \ {Root} /\ p \in DOMAIN tree /\ tree'[m].parent = p
        /\ p \in DOMAIN tree'
    <3>1. m \in DOMAIN tree \ {Root} /\ p \in DOMAIN tree /\ tree'[m].parent = p
      BY <1>6, <2>1, NodeFacts DEF Parent
    <3> QED  BY <1>5, <3>1 DEF IsTree
  <2>3. CASE p = tip
    BY <1>2, <1>5, <2>1, <2>2, <2>3 DEF IsChild, Children, Parent
  <2>4. CASE p # tip
    <3>1. tree'[p] = tree[p] /\ m # n
      BY <1>1, <1>2, <1>5, <2>1, <2>2, <2>4
    <3> QED  BY <2>1, <2>2, <3>1 DEF IsChild, Children, Parent
  <2> QED  BY <2>3, <2>4
<1>9. BlockIndex[n.block] = n /\ n.block \in DOMAIN BlockIndex /\ n.block # Genesis
  BY DEF IndexOK
<1>10. /\ DOMAIN BlockIndex' = DOMAIN BlockIndex \ {n.block}
       /\ \A b \in DOMAIN BlockIndex' : BlockIndex'[b] = BlockIndex[b]
       /\ DOMAIN blockIdxMap' = DOMAIN blockIdxMap \ {n.block}
       /\ \A b \in DOMAIN blockIdxMap' : blockIdxMap'[b] = blockIdxMap[b]
  BY DEF DropBlock
<1>11. \A b : TrustedIn(blockIdxMap, b) => TrustedIn(blockIdxMap', b)
  BY <1>10 DEF TrustedIn
<1>12. IndexOK'
  <2>1. blockIdxMap' \in [DOMAIN blockIdxMap' -> BOOLEAN]
    <3>1. blockIdxMap \in [DOMAIN blockIdxMap -> BOOLEAN]
      BY DEF IndexOK
    <3>2. \A b \in DOMAIN blockIdxMap : blockIdxMap[b] \in BOOLEAN
      BY <3>1, Zenon
    <3> QED  BY <3>2, Zenon DEF DropBlock
  <2>2. DOMAIN blockIdxMap' = DOMAIN BlockIndex' \ {Genesis}
    BY <1>9, <1>10 DEF IndexOK
  <2>3. \A b \in DOMAIN BlockIndex' : BlockIndex'[b] \in DOMAIN tree' /\ BlockIndex'[b].block = b
    BY <1>6, <1>9, <1>10 DEF IndexOK
  <2>4. \A m \in DOMAIN tree' \ {Root} :
          /\ m.block # Genesis
          /\ IsChild(m)' => m.block \in DOMAIN BlockIndex' /\ BlockIndex'[m.block] = m
    BY <1>6, <1>8, <1>9, <1>10 DEF IndexOK
  <2>5. Genesis \in DOMAIN BlockIndex' /\ DOMAIN BlockIndex' \subseteq Block
    BY <1>9, <1>10 DEF IndexOK
  <2> QED  BY <2>1, <2>2, <2>3, <2>4, <2>5 DEF IndexOK
<1>13. LooseOK'
  <2>1. ASSUME NEW m \in DOMAIN tree' \ {Root}
        PROVE  \/ IsChild(m)' \/ Parent(m)' = Root \/ ~IsChild(Parent(m))'
               \/ TrustedIn(blockIdxMap', Parent(m)'.block)
    <3>1. PICK p : p = Parent(m)
      OBVIOUS
    <3>2. /\ m \in DOMAIN tree \ {Root} /\ p \in DOMAIN tree /\ Parent(m)' = p
          /\ p \in DOMAIN tree'
      <4>1. m \in DOMAIN tree \ {Root} /\ p \in DOMAIN tree /\ Parent(m)' = p
        BY <1>6, <3>1, NodeFacts
      <4> QED  BY <1>5, <4>1 DEF IsTree, Parent
    <3>3. IsChild(Parent(m))' <=> IsChild(p)'
      BY <3>2 DEF IsChild, Parent, Children
    <3>4. p # Root /\ IsChild(p)' => IsChild(p)
      BY <1>8, <3>2
    <3>5. CASE m = n
      <4>1. p = tip
        BY <1>1, <3>1, <3>5
      <4>2. p # Root => TrustedIn(blockIdxMap, p.block)
        <5>1. /\ Height(p) \in Nat /\ (p = Root <=> Height(p) = 0)
              /\ AncestorAt(p, Height(p)) = p
          BY <1>1, <4>1, NodeFacts
        <5>2. p # Root => Height(p) \in 1..Height(p)
          BY <5>1
        <5> QED  BY <1>0, <4>1, <5>1, <5>2 DEF ActiveTrusted
      <4> QED  BY <1>11, <3>2, <4>2
    <3>6. CASE m # n
      <4>1. IsChild(m) \/ p = Root \/ ~IsChild(p) \/ TrustedIn(blockIdxMap, p.block)
        BY <3>1, <3>2 DEF LooseOK
      <4> QED  BY <1>8, <1>11, <3>2, <3>3, <3>4, <3>6, <4>1
    <3> QED  BY <3>5, <3>6
  <2> QED  BY <2>1 DEF LooseOK
<1>14. ActiveTrusted'
  <2>1. tip = BlockTreeEnd /\ tip = BlockTreeEnd' /\ tip \in DOMAIN tree'
    BY <1>0, <1>1, <1>6
  <2>2. Height(tip)' = Height(tip) /\ \A h : AncestorAt(tip, h)' = AncestorAt(tip, h)
    BY <1>1, <1>6, <1>7, <2>1
  <2>3. Height(BlockTreeEnd)' = Height(BlockTreeEnd)
        /\ \A h : AncestorAt(BlockTreeEnd, h)' = AncestorAt(BlockTreeEnd, h)
    BY <2>1, <2>2 DEF Height, AncestorAt, Path
  <2> QED  BY <1>11, <2>1, <2>3 DEF ActiveTrusted
<1> QED  BY <1>5, <1>6, <1>7, <1>8, <1>12, <1>13, <1>14 DEF TreeOK

(* The height of the tip and the nodes below it stay what they were if its *)
(* own record does.                                                        *)
LEMMA LedgerKept ==
  ASSUME LedgerOK, UNCHANGED <<BlockTreeEnd, unwind, lastBlockHeight>>,
         \A m, h : m = BlockTreeEnd =>
           Height(m)' = Height(m) /\ AncestorAt(m, h)' = AncestorAt(m, h)
  PROVE  LedgerOK'
<1>1. PICK tip : tip = BlockTreeEnd
  OBVIOUS
<1>2. tip = BlockTreeEnd' /\ Height(tip)' = Height(tip)
      /\ \A h : AncestorAt(tip, h)' = AncestorAt(tip, h)
  BY <1>1
<1>3. Height(BlockTreeEnd)' = Height(BlockTreeEnd)
      /\ \A h : AncestorAt(BlockTreeEnd, h)' = AncestorAt(BlockTreeEnd, h)
  BY <1>1, <1>2 DEF Height, AncestorAt, Path
<1> QED  BY <1>3 DEF LedgerOK
-----------------------------------------------------------------------------
(* AcceptBlock on the tip                                                  *)

(* The block is committed. *)
LEMMA ExtendKeeps ==
  ASSUME Good, ExtendTip
  PROVE  Good' /\ pc' = "idle"
<1>1. /\ pc = "extend" /\ pc' = "idle" /\ dst' = Root /\ BlockTreeEnd' = cur
      /\ CommitBlockTxs(Changes(cur, FALSE), cur)
      /\ blockIdxMap' = SetBlock(blockIdxMap, cur.block, TRUE)
      /\ UNCHANGED <<tree, BlockIndex, DoNotSync, prvSync, asked>>
      /\ nosync' = (nosync /\ DoNotSync)
  BY DEF ExtendTip, Return, treeVars
<1>2. PICK n : n = cur
  OBVIOUS
<1>3. /\ n \in DOMAIN tree \ {Root} /\ Parent(n) = BlockTreeEnd /\ n.block \in DOMAIN BlockIndex
  BY <1>1, <1>2 DEF Good, CallOK, IndexOK
<1>4. TreeOK' /\ IndexOK' /\ LooseOK' /\ ActiveTrusted' /\ LedgerOK'
  <2>1. PICK changes : changes = Changes(cur, FALSE)
    OBVIOUS
  <2> QED  BY <1>1, <1>2, <1>3, <2>1, TipTakes DEF Good
<1>5. CallOK'
  BY <1>1 DEF CallOK
<1>6. SyncOK'
  <2>1. nosync = FALSE /\ nosync' = FALSE
    <3>1. nosync = FALSE
      BY <1>1 DEF Good, SyncOK
    <3> QED  BY <1>1, <3>1
  <2> QED  BY <1>1, <2>1 DEF Good, SyncOK
<1> QED  BY <1>1, <1>4, <1>5, <1>6 DEF Good

(* It is refused, and its node goes away. *)
LEMMA RefuseRemoves ==
  ASSUME Good, RefuseTip, NEW n, n = cur
  PROVE  Removed(n)
<1>1. /\ pc = "extend" /\ pc' = "idle"
      /\ tree' = DropBlock(DelChild(tree, cur), cur)
      /\ BlockIndex' = DropBlock(BlockIndex, cur.block)
      /\ UNCHANGED <<BlockTreeEnd, blockIdxMap>>
  BY DEF RefuseTip, Return
<1>2. /\ n \in DOMAIN tree \ {Root} /\ Parent(n) = BlockTreeEnd /\ IsChild(n)
      /\ Children(n) = <<>> /\ n.block \notin DOMAIN blockIdxMap
  BY <1>1 DEF Good, CallOK, IndexOK
<1>3. DropBlock(blockIdxMap, n.block) = blockIdxMap
  BY <1>2, DropNothing DEF Good, IndexOK
<1>4. ~TrustedIn(blockIdxMap, n.block)
  BY <1>2 DEF TrustedIn
<1> QED  BY <1>1, <1>2, <1>3, <1>4 DEF Removed

(* The tip and its records stay as they are.                               *)
LEMMA RefuseKeeps ==
  ASSUME Good, RefuseTip
  PROVE  Good' /\ pc' = "idle"
<1>1. /\ pc = "extend" /\ pc' = "idle" /\ dst' = Root
      /\ UNCHANGED <<BlockTreeEnd, unwind, lastBlockHeight, DoNotSync, prvSync, nosync, asked>>
  BY DEF RefuseTip, Return, ledgerVars, syncVars
<1>2. PICK n : n = cur
  OBVIOUS
<1>3. Removed(n)
  BY <1>2, RefuseRemoves
<1>6. /\ TreeOK' /\ IndexOK' /\ LooseOK' /\ ActiveTrusted'
      /\ \A m \in DOMAIN tree \ {n} : Height(m)' = Height(m)
      /\ \A m \in DOMAIN tree \ {n} : \A h : AncestorAt(m, h)' = AncestorAt(m, h)
  BY <1>3, ChildRemoved DEF Good
<1>7. BlockTreeEnd \in DOMAIN tree \ {n}
  <2>1. Height(n) = Height(BlockTreeEnd) + 1 /\ Height(BlockTreeEnd) \in Nat
    BY <1>3, NodeFacts DEF Good, ActiveTrusted, Removed
  <2> QED  BY <2>1 DEF Good, ActiveTrusted
<1>8. LedgerOK'
  BY <1>1, <1>6, <1>7, LedgerKept DEF Good
<1>9. CallOK'
  BY <1>1 DEF CallOK
<1>10. SyncOK'
  BY <1>1 DEF Good, SyncOK
<1> QED  BY <1>1, <1>6, <1>8, <1>9, <1>10 DEF Good
-----------------------------------------------------------------------------
(* MoveToBlock                                                             *)

(* The record of the tip is undone. *)
LEMMA UndoKeeps ==
  ASSUME Good, UndoBlock
  PROVE  Good' /\ pc' = "undo"
<1>1. /\ pc = "undo" /\ pc' = "undo" /\ UndoPanic(BlockTreeEnd) = ""
      /\ unwind' = DelRecord(unwind, lastBlockHeight)
      /\ lastBlockHeight' = lastBlockHeight - 1
      /\ BlockTreeEnd' = Parent(BlockTreeEnd) /\ cur' = Parent(cur)
      /\ UNCHANGED <<tree, BlockIndex, blockIdxMap, DoNotSync, prvSync, nosync, dst, asked>>
  BY DEF UndoBlock, UndoBlockTransactions, treeVars, syncVars, histVars
<1>2. PICK tip, c : tip = BlockTreeEnd /\ c = cur
  OBVIOUS
<1>3. tip \in DOMAIN tree /\ c \in DOMAIN tree /\ dst \in DOMAIN tree
  BY <1>1, <1>2 DEF Good, CallOK, ActiveTrusted
<1>4. tip # Root
  <2>1. lastBlockHeight - 1 \in DOMAIN unwind
    BY <1>1 DEF UndoPanic
  <2>2. lastBlockHeight - 1 \in 1..lastBlockHeight
    BY <2>1 DEF Good, LedgerOK
  <2>3. Height(tip) # 0 /\ lastBlockHeight = Height(tip)
    BY <1>2, <1>3, <2>2, NodeFacts DEF Good, LedgerOK
  <2> QED  BY <1>3, <2>3, NodeFacts DEF Good
<1> DEFINE p == Parent(tip)
<1>5. /\ p \in DOMAIN tree /\ Height(tip) = Height(p) + 1 /\ Height(p) \in Nat
      /\ \A h \in 0..Height(p) : AncestorAt(tip, h) = AncestorAt(p, h)
  BY <1>3, <1>4, NodeFacts DEF Good
<1>6. /\ TreeOK' /\ IndexOK' /\ LooseOK'
      /\ \A n : Height(n)' = Height(n)
      /\ \A n, h : AncestorAt(n, h)' = AncestorAt(n, h)
  BY <1>1, TreeUnchanged, IndexKept DEF Good
<1>7. BlockTreeEnd' = p /\ cur' = Parent(c)
  BY <1>1, <1>2
<1>8. PICK q : q = p
  OBVIOUS
<1>9. /\ Height(BlockTreeEnd)' = Height(q)
      /\ \A h : AncestorAt(BlockTreeEnd, h)' = AncestorAt(q, h)
  <2>1. BlockTreeEnd' = q /\ Height(q)' = Height(q) /\ \A h : AncestorAt(q, h)' = AncestorAt(q, h)
    BY <1>6, <1>7, <1>8
  <2> QED  BY <2>1 DEF Height, AncestorAt, Path
<1>10. ActiveTrusted'
  <2>1. \A h \in 1..Height(q) : /\ h \in 1..Height(tip)
                                 /\ AncestorAt(tip, h) = AncestorAt(q, h)
    BY <1>5, <1>8
  <2> QED  BY <1>1, <1>2, <1>5, <1>7, <1>8, <1>9, <2>1 DEF Good, ActiveTrusted
<1>11. LedgerOK'
  <2>1. lastBlockHeight = Height(tip) /\ lastBlockHeight' = Height(q) /\ Height(q) \in Nat
        /\ Height(tip) = Height(q) + 1
    <3>1. lastBlockHeight = Height(tip) /\ lastBlockHeight' = lastBlockHeight - 1
      BY <1>1, <1>2 DEF Good, LedgerOK
    <3>2. Height(q) \in Nat /\ Height(tip) = Height(q) + 1
      BY <1>5, <1>8
    <3> QED  BY <3>1, <3>2
  <2>2. /\ DOMAIN unwind' = DOMAIN unwind \ {Height(tip)}
        /\ \A h \in DOMAIN unwind' : unwind'[h] = unwind[h]
    BY <1>1, <2>1 DEF DelRecord
  <2>3. Height(q) \in DOMAIN unwind'
    <3>1. lastBlockHeight - 1 \in DOMAIN unwind
      BY <1>1 DEF UndoPanic
    <3> QED  BY <2>1, <2>2, <3>1
  <2>4. ASSUME NEW h \in DOMAIN unwind'
        PROVE  /\ h \in 1..Height(q) /\ h + MaxHistory > Height(q)
               /\ \A k \in h..Height(q) : k \in DOMAIN unwind'
               /\ unwind'[h].hash = AncestorAt(q, h).block
    <3>1. /\ h \in DOMAIN unwind /\ h # Height(tip) /\ h \in 1..Height(tip)
          /\ h + MaxHistory > Height(tip)
          /\ \A k \in h..Height(tip) : k \in DOMAIN unwind
          /\ unwind[h].hash = AncestorAt(tip, h).block
      BY <1>2, <2>1, <2>2 DEF Good, LedgerOK
    <3>2. h \in 1..Height(q) /\ h + MaxHistory > Height(q) /\ h \in 0..Height(q)
      BY <2>1, <3>1, ChainAssumption
    <3>3. \A k \in h..Height(q) : k \in DOMAIN unwind'
      BY <2>1, <2>2, <3>1
    <3>4. AncestorAt(tip, h) = AncestorAt(q, h)
      BY <1>5, <1>8, <3>2
    <3> QED  BY <2>2, <3>1, <3>2, <3>3, <3>4
  <2> QED  BY <1>9, <2>1, <2>3, <2>4 DEF LedgerOK
<1>12. CallOK'
  <2>1. /\ Height(c) <= Height(tip) /\ Height(c) <= Height(dst)
        /\ AncestorAt(dst, Height(c)) = c
    BY <1>1, <1>2 DEF Good, CallOK
  <2>2. PICK d : d = Parent(c)
    OBVIOUS
  <2>3. d \in DOMAIN tree /\ Height(d) <= Height(q) /\ Height(d) <= Height(dst)
        /\ AncestorAt(dst, Height(d)) = d
    <3>1. CASE c = Root
      <4>1. d = Root
        BY <2>2, <3>1 DEF Good, TreeOK, IsTree, Parent
      <4>2. Height(c) = 0
        BY <1>3, <3>1, NodeFacts DEF Good
      <4> QED  BY <1>3, <1>5, <1>8, <2>1, <3>1, <4>1, <4>2
    <3>2. CASE c # Root
      <4>1. d \in DOMAIN tree /\ Height(c) = Height(d) + 1 /\ Height(d) \in Nat
        BY <1>3, <2>2, <3>2, NodeFacts DEF Good
      <4>2. Height(d) <= Height(q) /\ Height(d) <= Height(dst)
            /\ Height(c) \in 1..Height(dst) /\ Height(c) - 1 = Height(d)
        <5>1. Height(dst) \in Nat
          BY <1>3, NodeFacts DEF Good
        <5> QED  BY <1>5, <1>8, <2>1, <4>1, <5>1
      <4>3. Parent(AncestorAt(dst, Height(c))) = AncestorAt(dst, Height(c) - 1)
        BY <1>3, <4>2, NodeFacts DEF Good
      <4> QED  BY <2>1, <2>2, <4>1, <4>2, <4>3
    <3> QED  BY <3>1, <3>2
  <2>4. cur' = d /\ dst' = dst /\ tree' = tree
    BY <1>1, <1>7, <2>2
  <2>5. Height(cur)' = Height(d) /\ Height(dst)' = Height(dst)
        /\ AncestorAt(dst, Height(cur))' = AncestorAt(dst, Height(d))
    BY <2>4 DEF Height, AncestorAt, Path
  <2> QED  BY <1>1, <1>3, <1>9, <2>3, <2>4, <2>5 DEF CallOK
<1>13. SyncOK'
  BY <1>1 DEF Good, SyncOK
<1> QED  BY <1>1, <1>6, <1>10, <1>11, <1>12, <1>13 DEF Good
(* The two met. *)
LEMMA StartParseKeeps ==
  ASSUME Good, StartParse
  PROVE  Good' /\ pc' = "parse"
<1>1. /\ pc = "undo" /\ pc' = "parse" /\ BlockTreeEnd = cur
      /\ prvSync' = Append(prvSync, DoNotSync) /\ DoNotSync' = TRUE
      /\ nosync' = (nosync \/ Height(dst) - Height(BlockTreeEnd) > NoSyncDistance)
      /\ UNCHANGED <<tree, BlockIndex, BlockTreeEnd, blockIdxMap, unwind, lastBlockHeight,
                     cur, dst, asked>>
  BY DEF StartParse, treeVars, ledgerVars, histVars
<1>2. /\ TreeOK' /\ IndexOK' /\ LooseOK'
      /\ \A n : Height(n)' = Height(n)
      /\ \A n, h : AncestorAt(n, h)' = AncestorAt(n, h)
  BY <1>1, TreeUnchanged, IndexKept DEF Good
<1>3. /\ Height(BlockTreeEnd)' = Height(BlockTreeEnd) /\ Height(dst)' = Height(dst)
      /\ \A h : AncestorAt(BlockTreeEnd, h)' = AncestorAt(BlockTreeEnd, h)
      /\ \A h : AncestorAt(dst, h)' = AncestorAt(dst, h)
  BY <1>1 DEF Height, AncestorAt, Path
<1>4. ActiveTrusted' /\ LedgerOK'
  BY <1>1, <1>3 DEF Good, ActiveTrusted, LedgerOK
<1>5. CallOK'
  <2>1. dst' \in DOMAIN tree'
    BY <1>1 DEF Good, CallOK
  <2>2. /\ Height(BlockTreeEnd)' <= Height(dst)'
        /\ AncestorAt(dst, Height(BlockTreeEnd)) = BlockTreeEnd
    BY <1>1, <1>3 DEF Good, CallOK
  <2>3. AncestorAt(dst, Height(BlockTreeEnd))' = BlockTreeEnd'
    BY <1>1, <2>2 DEF Height, AncestorAt, Path
  <2> QED  BY <1>1, <2>1, <2>2, <2>3 DEF CallOK
<1>6. SyncOK'
  <2>1. prvSync \in Seq(BOOLEAN) /\ DoNotSync \in BOOLEAN
    BY DEF Good, SyncOK
  <2>2. prvSync' \in Seq(BOOLEAN) /\ prvSync' # <<>>
    BY <1>1, <2>1
  <2>3. Head(prvSync') = IF prvSync = <<>> THEN DoNotSync ELSE Head(prvSync)
    <3>1. \A s \in Seq(BOOLEAN), x \in BOOLEAN :
            Head(Append(s, x)) = IF s = <<>> THEN x ELSE Head(s)
      OBVIOUS
    <3> QED  BY <1>1, <2>1, <3>1
  <2>4. CASE prvSync = <<>>
    <3>1. Head(prvSync') = asked'
      BY <1>1, <2>3, <2>4, Zenon DEF Good, SyncOK
    <3> QED  BY <1>1, <2>2, <3>1 DEF SyncOK
  <2>5. CASE prvSync # <<>>
    <3>1. Head(prvSync') = asked'
      BY <1>1, <2>3, <2>5, Zenon DEF Good, SyncOK
    <3> QED  BY <1>1, <2>2, <3>1 DEF SyncOK
  <2> QED  BY <2>4, <2>5
<1> QED  BY <1>1, <1>2, <1>4, <1>5, <1>6 DEF Good
-----------------------------------------------------------------------------
(* ParseTillBlock                                                          *)

(* FindNextNodePathTo does not panic. *)
WayFound == NextPanic(BlockTreeEnd, dst) = ""

(* The next node on the way is one above the tip. *)
LEMMA NextNode ==
  ASSUME Good, pc = "parse", WayFound
  PROVE  Nxt \in DOMAIN tree \ {Root} /\ Parent(Nxt) = BlockTreeEnd
<1>1. /\ BlockTreeEnd \in DOMAIN tree /\ dst \in DOMAIN tree
      /\ Height(BlockTreeEnd) \in Nat /\ Height(dst) \in Nat
  BY NodeFacts DEF Good, CallOK, ActiveTrusted
<1> DEFINE kids == Children(BlockTreeEnd)
<1>2. /\ Height(dst) > Height(BlockTreeEnd) /\ kids # <<>>
      /\ Len(kids) > 1 => AncestorAt(dst, Height(BlockTreeEnd)) = BlockTreeEnd
  <2>1. /\ ~ (Height(dst) <= Height(BlockTreeEnd)) /\ kids # <<>>
        /\ Len(kids) > 1 => AncestorAt(dst, Height(BlockTreeEnd)) = BlockTreeEnd
    BY Zenon DEF WayFound, NextPanic
  <2> QED  BY <1>1, <2>1
<1>3. kids \in Seq(NodeId)
  BY <1>1 DEF Good, TreeOK, IsTree, TreeNode, Children
<1>4. CASE Len(kids) = 1
  <2>1. Nxt = kids[1]
    BY <1>4 DEF Nxt, FindNextNodePathTo
  <2>2. kids[1] \in ToSet(kids)
    <3> HIDE DEF kids
    <3> QED  BY <1>3, <1>4 DEF ToSet
  <2> QED  BY <1>1, <2>1, <2>2, ChildFacts DEF Good, TreeOK
<1>5. CASE Len(kids) # 1
  <2>1. Len(kids) > 1
    <3> HIDE DEF kids
    <3>1. Len(kids) # 0 /\ Len(kids) \in Nat
      BY <1>2, <1>3, EmptySeq
    <3>2. \A x \in Nat : x # 0 /\ x # 1 => x > 1
      OBVIOUS
    <3> QED  BY <1>5, <3>1, <3>2
  <2> DEFINE h == Height(BlockTreeEnd) + 1
  <2>2. Nxt = AncestorAt(dst, h)
    BY <1>5 DEF Nxt, FindNextNodePathTo
  <2>3. h \in 1..Height(dst) /\ h \in 0..Height(dst) /\ h - 1 = Height(BlockTreeEnd)
    <3>1. \A x, y \in Nat : y > x => x + 1 \in 1..y /\ x + 1 \in 0..y /\ (x + 1) - 1 = x
      OBVIOUS
    <3> HIDE DEF kids
    <3> QED  BY <1>1, <1>2, <3>1
  <2>4. /\ AncestorAt(dst, h) \in DOMAIN tree /\ Height(AncestorAt(dst, h)) = h
        /\ Parent(AncestorAt(dst, h)) = AncestorAt(dst, h - 1)
    <3> HIDE DEF h
    <3> QED  BY <1>1, <2>3, NodeFacts DEF Good
  <2>5. AncestorAt(dst, h) # Root
    <3>1. h # 0
      <4> HIDE DEF h
      <4> QED  BY <2>3
    <3> HIDE DEF h
    <3> QED  BY <2>4, <3>1, NodeFacts DEF Good
  <2> QED  BY <1>2, <2>1, <2>2, <2>3, <2>4, <2>5
<1> QED  BY <1>4, <1>5

(* If the children lead to dst, they do so by way of it. *)
LEMMA NextOnTheWay ==
  ASSUME Good, pc = "parse", dst \in Attached(tree), BlockTreeEnd # dst
  PROVE  /\ WayFound
         /\ Nxt = AncestorAt(dst, Height(BlockTreeEnd) + 1) /\ IsChild(Nxt)
         /\ Height(BlockTreeEnd) + 1 \in 1..Height(dst)
         /\ Nxt.block \in DOMAIN blockIdxMap
<1> DEFINE tip == BlockTreeEnd  h == Height(tip) + 1  kids == Children(tip)
<1>1. /\ tip \in DOMAIN tree /\ dst \in DOMAIN tree /\ Height(tip) \in Nat
      /\ Height(dst) \in Nat /\ AncestorAt(dst, Height(dst)) = dst
  BY NodeFacts DEF Good, CallOK, ActiveTrusted
<1>2. Height(tip) <= Height(dst) /\ AncestorAt(dst, Height(tip)) = tip
  BY DEF Good, CallOK
<1>3. Height(tip) # Height(dst)
  BY <1>1, <1>2
<1>4. h \in 1..Height(dst) /\ h - 1 = Height(tip)
  BY <1>1, <1>2, <1>3
<1>5. Parent(AncestorAt(dst, h)) = tip /\ IsChild(AncestorAt(dst, h))
  <2>1. Parent(AncestorAt(dst, h)) = AncestorAt(dst, h - 1)
    <3> HIDE DEF h
    <3> QED  BY <1>1, <1>4, NodeFacts DEF Good
  <2>2. IsChild(AncestorAt(dst, h))
    <3> HIDE DEF h
    <3> QED  BY <1>1, <1>4, AttachedIsBelow DEF Good
  <2> QED  BY <1>2, <1>4, <2>1, <2>2
<1>6. AncestorAt(dst, h) \in ToSet(kids)
  BY <1>5 DEF IsChild
<1>7. kids \in Seq(NodeId) /\ kids # <<>> /\ DOMAIN kids = 1..Len(kids)
  <2>1. kids \in Seq(NodeId)
    BY <1>1 DEF Good, TreeOK, IsTree, TreeNode, Children
  <2> QED  BY <1>6, <2>1 DEF ToSet
<1>8. WayFound
  <2>1. ~ (Height(dst) <= Height(tip))
    <3>1. \A x, y \in Nat : x <= y /\ x # y => ~ (y <= x)
      OBVIOUS
    <3> HIDE DEF tip
    <3> QED  BY <1>1, <1>2, <1>3, <3>1
  <2> QED  BY <1>2, <1>7, <2>1, Zenon DEF WayFound, NextPanic
<1>9. Nxt = AncestorAt(dst, h)
  <2>1. CASE Len(kids) = 1
    <3>1. kids[1] = AncestorAt(dst, h)
      BY <1>6, <1>7, <2>1 DEF ToSet
    <3> QED  BY <2>1, <3>1 DEF Nxt, FindNextNodePathTo
  <2>2. CASE Len(kids) # 1
    BY <2>2 DEF Nxt, FindNextNodePathTo
  <2> QED  BY <2>1, <2>2
<1>10. Nxt \in DOMAIN tree \ {Root}
  BY <1>8, NextNode
<1>11. Nxt.block \in DOMAIN blockIdxMap
  BY <1>5, <1>9, <1>10 DEF Good, IndexOK
<1> QED  BY <1>4, <1>5, <1>8, <1>9, <1>11
(* A block is applied. *)
LEMMA ParseKeeps ==
  ASSUME Good, ParseBlock
  PROVE  Good' /\ pc' = "parse"
<1>1. /\ pc = "parse" /\ pc' = "parse" /\ BlockTreeEnd # dst /\ WayFound
      /\ Nxt.block \in DOMAIN blockIdxMap
      /\ CommitBlockTxs(NextChanges, Nxt)
      /\ blockIdxMap' = SetBlock(blockIdxMap, Nxt.block, TRUE) /\ BlockTreeEnd' = Nxt
      /\ UNCHANGED <<tree, BlockIndex, DoNotSync, prvSync, nosync, dst, asked>>
  BY Zenon DEF ParseBlock, Fetched, WayFound, treeVars, callVars, histVars
<1>2. PICK n : n = Nxt
  OBVIOUS
<1>3. n \in DOMAIN tree \ {Root} /\ Parent(n) = BlockTreeEnd
  BY <1>1, <1>2, NextNode
<1>4. TreeOK' /\ IndexOK' /\ LooseOK' /\ ActiveTrusted' /\ LedgerOK'
  <2>1. PICK changes : changes = NextChanges
    OBVIOUS
  <2>2. n.block \in DOMAIN BlockIndex
    BY <1>1, <1>2 DEF Good, IndexOK
  <2> QED  BY <1>1, <1>2, <1>3, <2>1, <2>2, TipTakes DEF Good
<1>5. CallOK'
  <2>1. dst' = dst /\ dst \in DOMAIN tree /\ Attached(tree') = Attached(tree) /\ tree' = tree
    BY <1>1 DEF Good, CallOK
  <2>2. ASSUME dst \in Attached(tree)
        PROVE  Height(n) <= Height(dst) /\ AncestorAt(dst, Height(n)) = n
    <3>1. n = AncestorAt(dst, Height(BlockTreeEnd) + 1) /\ Height(BlockTreeEnd) + 1 \in 1..Height(dst)
      BY <1>1, <1>2, <2>2, NextOnTheWay
    <3>2. Height(n) = Height(BlockTreeEnd) + 1 /\ Height(BlockTreeEnd) \in Nat
      BY <1>3, NodeFacts DEF Good, ActiveTrusted
    <3> QED  BY <3>1, <3>2
  <2>3. /\ Height(BlockTreeEnd)' = Height(n) /\ Height(dst)' = Height(dst)
        /\ AncestorAt(dst, Height(BlockTreeEnd))' = AncestorAt(dst, Height(n))
    BY <1>1, <1>2, <2>1 DEF Height, AncestorAt, Path
  <2> QED  BY <1>1, <1>2, <2>1, <2>2, <2>3 DEF CallOK
<1>6. SyncOK'
  BY <1>1 DEF Good, SyncOK
<1> QED  BY <1>1, <1>4, <1>5, <1>6 DEF Good

(* A block fails, and with it goes its branch. *)
LEMMA DeleteRemoves ==
  ASSUME Good, DeleteBranch, NEW n, n = Nxt
  PROVE  Removed(n)
<1>1. /\ pc = "parse" /\ pc' = "retarget" /\ WayFound /\ IsChild(n)
      /\ ~blockIdxMap[n.block]
      /\ BlockIndex' = DropBlock(BlockIndex, n.block)
      /\ blockIdxMap' = DropBlock(blockIdxMap, n.block)
      /\ tree' = IF Children(n) = <<>> THEN DropBlock(DelChild(tree, n), n)
                                       ELSE DelChild(tree, n)
      /\ UNCHANGED BlockTreeEnd
  BY Zenon DEF DeleteBranch, Fetched, WayFound
<1>2. n \in DOMAIN tree \ {Root} /\ Parent(n) = BlockTreeEnd
  BY <1>1, NextNode
<1>3. ~TrustedIn(blockIdxMap, n.block)
  BY <1>1, Zenon DEF TrustedIn
<1> QED  BY <1>1, <1>2, <1>3 DEF Removed

(* So do they here, and the call goes on with the farthest node.           *)
LEMMA DeleteKeeps ==
  ASSUME Good, DeleteBranch
  PROVE  Good' /\ pc' = "retarget"
<1>1. /\ pc' = "retarget"
      /\ UNCHANGED <<BlockTreeEnd, unwind, lastBlockHeight, DoNotSync, prvSync, nosync, asked>>
      /\ pc = "parse"
  BY Zenon DEF DeleteBranch, Fetched, ledgerVars, histVars
<1>2. PICK n : n = Nxt
  OBVIOUS
<1>3. Removed(n)
  BY <1>2, DeleteRemoves
<1>5. /\ TreeOK' /\ IndexOK' /\ LooseOK' /\ ActiveTrusted'
      /\ \A m \in DOMAIN tree \ {n} : Height(m)' = Height(m)
      /\ \A m \in DOMAIN tree \ {n} : \A h : AncestorAt(m, h)' = AncestorAt(m, h)
  BY <1>3, ChildRemoved DEF Good
<1>6. BlockTreeEnd \in DOMAIN tree \ {n}
  <2>1. Height(n) = Height(BlockTreeEnd) + 1 /\ Height(BlockTreeEnd) \in Nat
    BY <1>3, NodeFacts DEF Good, ActiveTrusted, Removed
  <2> QED  BY <2>1 DEF Good, ActiveTrusted
<1>7. LedgerOK'
  BY <1>1, <1>5, <1>6, LedgerKept DEF Good
<1>8. CallOK'
  BY <1>1 DEF CallOK
<1>9. SyncOK'
  BY <1>1 DEF Good, SyncOK
<1> QED  BY <1>1, <1>5, <1>7, <1>8, <1>9 DEF Good

(* The chain is off to the farthest node there is now. *)
LEMMA RetargetKeeps ==
  ASSUME Good, Retarget
  PROVE  Good' /\ pc' = "undo"
<1>1. /\ pc = "retarget" /\ pc' = "undo" /\ nosync' = FALSE
      /\ dst' = FindFarthestNode /\ cur' = MoveStart(FindFarthestNode)
      /\ UNCHANGED <<tree, BlockIndex, BlockTreeEnd, blockIdxMap, unwind, lastBlockHeight,
                     DoNotSync, prvSync, asked>>
  BY DEF Retarget, treeVars, ledgerVars, histVars
<1>2. PICK far, tip : far = FindFarthestNode /\ tip = BlockTreeEnd
  OBVIOUS
<1>3. /\ far \in DOMAIN tree /\ tip \in DOMAIN tree /\ Height(far) \in Nat
      /\ Height(tip) \in Nat /\ AncestorAt(far, Height(far)) = far
      /\ \A h \in 0..Height(far) : /\ AncestorAt(far, h) \in DOMAIN tree
                                   /\ Height(AncestorAt(far, h)) = h
  <2>1. far \in DOMAIN tree /\ tip \in DOMAIN tree
    BY <1>2, FarthestNode DEF Good, TreeOK, ActiveTrusted
  <2> QED  BY <2>1, NodeFacts DEF Good
<1>4. /\ TreeOK' /\ IndexOK' /\ LooseOK'
      /\ \A n : Height(n)' = Height(n)
      /\ \A n, h : AncestorAt(n, h)' = AncestorAt(n, h)
  BY <1>1, TreeUnchanged, IndexKept DEF Good
<1>5. /\ Height(BlockTreeEnd)' = Height(BlockTreeEnd)
      /\ \A h : AncestorAt(BlockTreeEnd, h)' = AncestorAt(BlockTreeEnd, h)
  BY <1>1 DEF Height, AncestorAt, Path
<1>6. ActiveTrusted' /\ LedgerOK'
  BY <1>1, <1>5 DEF Good, ActiveTrusted, LedgerOK
<1>7. CallOK'
  <2>1. PICK c : c = cur'
    OBVIOUS
  <2>2. c = IF Height(far) > Height(tip) THEN AncestorAt(far, Height(tip)) ELSE far
    BY <1>1, <1>2, <2>1 DEF MoveStart
  <2>3. /\ c \in DOMAIN tree /\ Height(c) <= Height(tip) /\ Height(c) <= Height(far)
        /\ AncestorAt(far, Height(c)) = c
    <3>1. CASE Height(far) > Height(tip)
      <4>1. Height(tip) \in 0..Height(far)
        BY <1>3, <3>1
      <4> QED  BY <1>3, <2>2, <3>1, <4>1
    <3>2. CASE ~ (Height(far) > Height(tip))
      BY <1>3, <2>2, <3>2
    <3> QED  BY <3>1, <3>2
  <2>4. cur' = c /\ dst' = far /\ tree' = tree /\ BlockTreeEnd' = tip
    BY <1>1, <1>2, <2>1
  <2>5. Height(cur)' = Height(c) /\ Height(dst)' = Height(far) /\ Height(BlockTreeEnd)' = Height(tip)
        /\ AncestorAt(dst, Height(cur))' = AncestorAt(far, Height(c))
    BY <2>4 DEF Height, AncestorAt, Path
  <2> QED  BY <1>1, <1>3, <2>3, <2>4, <2>5 DEF CallOK
<1>8. SyncOK'
  <2>1. prvSync # <<>> /\ nosync' \in BOOLEAN
    BY <1>1 DEF Good, SyncOK
  <2> QED  BY <1>1, <2>1 DEF Good, SyncOK
<1> QED  BY <1>1, <1>4, <1>6, <1>7, <1>8 DEF Good

(* All calls return. *)
LEMMA ReturnKeeps ==
  ASSUME Good, ParseReturns
  PROVE  Good' /\ pc' = "idle"
<1>1. /\ pc = "parse" /\ pc' = "idle" /\ nosync' = FALSE /\ dst' = Root
      /\ DoNotSync' = Head(prvSync) /\ prvSync' = <<>>
      /\ UNCHANGED <<tree, BlockIndex, BlockTreeEnd, blockIdxMap, unwind, lastBlockHeight, asked>>
  BY DEF ParseReturns, Return, treeVars, ledgerVars
<1>2. /\ TreeOK' /\ IndexOK' /\ LooseOK'
  BY <1>1, TreeUnchanged, IndexKept DEF Good
<1>3. /\ Height(BlockTreeEnd)' = Height(BlockTreeEnd)
      /\ \A h : AncestorAt(BlockTreeEnd, h)' = AncestorAt(BlockTreeEnd, h)
  BY <1>1 DEF Height, AncestorAt, Path
<1>4. ActiveTrusted' /\ LedgerOK'
  BY <1>1, <1>3 DEF Good, ActiveTrusted, LedgerOK
<1>5. CallOK'
  BY <1>1 DEF CallOK
<1>6. SyncOK'
  <2>1. prvSync # <<>> /\ prvSync \in Seq(BOOLEAN) /\ Head(prvSync) = asked
    BY <1>1 DEF Good, SyncOK
  <2>2. Head(prvSync) \in BOOLEAN /\ <<>> \in Seq(BOOLEAN)
    BY <2>1
  <2> QED  BY <1>1, <2>1, <2>2 DEF SyncOK
<1> QED  BY <1>1, <1>2, <1>4, <1>5, <1>6 DEF Good

(* Chain.Sync: the client asks to sync. *)
LEMMA SyncKeeps ==
  ASSUME Good, SyncAll
  PROVE  Good' /\ pc' = "idle"
<1>1. /\ pc = "idle" /\ pc' = "idle" /\ nosync' = FALSE /\ DoNotSync' = FALSE /\ asked' = FALSE
      /\ UNCHANGED <<tree, BlockIndex, BlockTreeEnd, blockIdxMap, unwind, lastBlockHeight,
                     prvSync, cur, dst>>
  BY DEF SyncAll, treeVars, ledgerVars, callVars
<1>2. /\ TreeOK' /\ IndexOK' /\ LooseOK'
  BY <1>1, TreeUnchanged, IndexKept DEF Good
<1>3. /\ Height(BlockTreeEnd)' = Height(BlockTreeEnd)
      /\ \A h : AncestorAt(BlockTreeEnd, h)' = AncestorAt(BlockTreeEnd, h)
  BY <1>1 DEF Height, AncestorAt, Path
<1>4. ActiveTrusted' /\ LedgerOK'
  BY <1>1, <1>3 DEF Good, ActiveTrusted, LedgerOK
<1>5. CallOK'
  BY <1>1 DEF Good, CallOK
<1>6. SyncOK'
  BY <1>1 DEF Good, SyncOK
<1> QED  BY <1>1, <1>2, <1>4, <1>5, <1>6 DEF Good

-----------------------------------------------------------------------------
(* The panics                                                              *)

(* A block of the tip has the height that is committed next. *)
LEMMA NoUnexpectedHeight ==
  ASSUME Good, NEW n \in DOMAIN tree \ {Root}, Parent(n) = BlockTreeEnd
  PROVE  ~CommitPanics(n)
<1>1. Height(n) = Height(BlockTreeEnd) + 1 /\ Height(BlockTreeEnd) \in Nat
  BY NodeFacts DEF Good, ActiveTrusted
<1> QED  BY <1>1 DEF Good, LedgerOK, CommitPanics

(* A block on the tip is a child of the tip, and has the height the        *)
(* unspent database expects.                                               *)
LEMMA ExtendHasNoPanic ==
  ASSUME Good, pc = "extend"
  PROVE  ExtendPanic = ""
<1>1. cur \in DOMAIN tree \ {Root} /\ Parent(cur) = BlockTreeEnd /\ IsChild(cur)
  BY DEF Good, CallOK
<1>2. ~CommitPanics(cur)
  <2>1. PICK n : n = cur
    OBVIOUS
  <2> QED  BY <1>1, <2>1, NoUnexpectedHeight
<1> QED  BY <1>1, <1>2, Zenon DEF ExtendPanic

(* An undo finds the record of the tip, and if it does not find that of    *)
(* the parent it has taken the last one.                                   *)
LEMMA UndoPanics ==
  ASSUME Good, pc = "undo", BlockTreeEnd # cur
  PROVE  /\ UndoPanic(BlockTreeEnd) \in {"", "Parent data not found"}
         /\ lastBlockHeight - 1 \notin DOMAIN unwind =>
              DOMAIN DelRecord(unwind, lastBlockHeight) = {}
<1>1. /\ BlockTreeEnd \in DOMAIN tree /\ cur \in DOMAIN tree
      /\ Height(cur) <= Height(BlockTreeEnd) /\ lastBlockHeight = Height(BlockTreeEnd)
  BY DEF Good, CallOK, ActiveTrusted, LedgerOK
<1>2. Height(BlockTreeEnd) # 0 /\ Height(BlockTreeEnd) \in Nat
  BY <1>1, NodeFacts DEF Good
<1>3. lastBlockHeight \in DOMAIN unwind
  BY <1>1, <1>2 DEF Good, LedgerOK
<1>4. UndoPanic(BlockTreeEnd) \in {"", "Parent data not found"}
  BY <1>1, <1>3, Zenon DEF UndoPanic
<1>5. ASSUME lastBlockHeight - 1 \notin DOMAIN unwind, NEW h \in DOMAIN unwind
      PROVE  h = lastBlockHeight
  <2>1. h \in 1..lastBlockHeight /\ \A k \in h..lastBlockHeight : k \in DOMAIN unwind
    BY DEF Good, LedgerOK
  <2>2. lastBlockHeight - 1 \notin h..lastBlockHeight
    BY <1>5, <2>1
  <2> QED  BY <1>1, <1>2, <2>1, <2>2
<1> QED  BY <1>4, <1>5 DEF DelRecord

(* What ends ParseTillBlock, other than a trusted block that fails, are    *)
(* the ways to a block that hangs loose.                                   *)
LEMMA ParsePanics ==
  ASSUME Good, pc = "parse", BlockTreeEnd # dst
  PROVE  \/ ParsePanic = "" \/ ParsePanic = "if block is trusted, how can be invalid"
         \/ ParsePanic \in PathPanics /\ dst \notin Attached(tree)
<1>1. WayFound => ~CommitPanics(Nxt)
  <2>1. PICK n : n = Nxt
    OBVIOUS
  <2> QED  BY <2>1, NextNode, NoUnexpectedHeight
<1>2. dst \in Attached(tree) => WayFound /\ IsChild(Nxt) /\ Nxt.block \in DOMAIN blockIdxMap
  BY NextOnTheWay
<1>3. NextPanic(BlockTreeEnd, dst) \in {"", "End block is not higher then current",
                                        "Unknown path to block", "nil pointer"}
  BY Zenon DEF NextPanic
<1>4. CASE ~WayFound
  <2>1. ParsePanic = NextPanic(BlockTreeEnd, dst) /\ NextPanic(BlockTreeEnd, dst) # ""
    BY <1>4, Zenon DEF ParsePanic, WayFound
  <2>2. ParsePanic \in PathPanics
    BY <1>3, <2>1, Zenon DEF PathPanics
  <2> QED  BY <1>2, <1>4, <2>2, Zenon
<1>5. CASE WayFound /\ Nxt.block \notin DOMAIN blockIdxMap
  <2>1. ParsePanic = "Db.BlockGet"
    BY <1>5, Zenon DEF ParsePanic, WayFound
  <2> QED  BY <1>2, <1>5, <2>1, Zenon DEF PathPanics
<1>6. CASE WayFound /\ Nxt.block \in DOMAIN blockIdxMap /\ ~IsChild(Nxt)
  <2>1. ParsePanic = "" \/ ParsePanic = "index out of range"
    BY <1>1, <1>6, Zenon DEF ParsePanic, WayFound
  <2> QED  BY <1>2, <1>6, <2>1, Zenon DEF PathPanics
<1>7. CASE WayFound /\ Nxt.block \in DOMAIN blockIdxMap /\ IsChild(Nxt)
  BY <1>1, <1>7, Zenon DEF ParsePanic, WayFound
<1> QED  BY <1>4, <1>5, <1>6, <1>7, Zenon

(* The process ends for one of the causes the property names. *)
LEMMA PanicKeeps ==
  ASSUME Good, CallPanics
  PROVE  pc' \in Panics /\ PanicsHaveCauses'
<1> DEFINE m == CallPanic
<1>1. /\ m # "" /\ pc' = m /\ UNCHANGED <<dst, tree>>
      /\ IF m = "Parent data not found" THEN UndoBlockTransactions ELSE UNCHANGED ledgerVars
  BY Zenon DEF CallPanics, Panic, treeVars
<1>2. \/ pc = "extend" /\ m = ExtendPanic
      \/ pc = "undo" /\ BlockTreeEnd # cur /\ m = UndoPanic(BlockTreeEnd)
      \/ pc = "parse" /\ BlockTreeEnd # dst /\ m = ParsePanic
  BY <1>1, Zenon DEF CallPanic
<1>3. \/ m = "Parent data not found" /\ pc = "undo" /\ BlockTreeEnd # cur
           /\ UndoPanic(BlockTreeEnd) = "Parent data not found"
      \/ m = "if block is trusted, how can be invalid"
      \/ m \in PathPanics /\ dst \notin Attached(tree)
  <2>1. CASE pc = "extend" /\ m = ExtendPanic
    BY <1>1, <2>1, ExtendHasNoPanic, Zenon
  <2>2. CASE pc = "undo" /\ BlockTreeEnd # cur /\ m = UndoPanic(BlockTreeEnd)
    BY <1>1, <2>2, UndoPanics, Zenon
  <2>3. CASE pc = "parse" /\ BlockTreeEnd # dst /\ m = ParsePanic
    BY <1>1, <2>3, ParsePanics, Zenon
  <2> QED  BY <1>2, <2>1, <2>2, <2>3, Zenon
<1> HIDE DEF m
<1>4. CASE m = "Parent data not found" /\ pc = "undo" /\ BlockTreeEnd # cur
           /\ UndoPanic(BlockTreeEnd) = "Parent data not found"
  <2>1. lastBlockHeight - 1 \notin DOMAIN unwind
    BY <1>4, Zenon DEF UndoPanic
  <2>2. DOMAIN unwind' = {}
    <3>1. unwind' = DelRecord(unwind, lastBlockHeight)
      BY <1>1, <1>4, Zenon DEF UndoBlockTransactions
    <3> QED  BY <1>4, <2>1, <3>1, UndoPanics, Zenon
  <2> QED  BY <1>1, <1>4, <2>2, Zenon DEF PanicsHaveCauses, PathPanics, Panics
<1>5. CASE m = "if block is trusted, how can be invalid"
  BY <1>1, <1>5, Zenon DEF PanicsHaveCauses, PathPanics, Panics
<1>6. CASE m \in PathPanics /\ dst \notin Attached(tree)
  <2>1. dst' \notin Attached(tree')
    BY <1>1, <1>6, Zenon
  <2> QED  BY <1>1, <1>6, <2>1, Zenon DEF PanicsHaveCauses, PathPanics, Panics
<1> QED  BY <1>3, <1>4, <1>5, <1>6, Zenon
-----------------------------------------------------------------------------
(* The theorems                                                            *)

(* In a panic nothing happens any more.                                    *)
LEMMA PanicsStay ==
  ASSUME pc \in Panics, [Next]_vars
  PROVE  UNCHANGED vars
<1>1. pc \notin {"idle", "extend", "undo", "parse", "retarget"}
  BY DEF Panics
<1>2. ~ \E b \in Block \ {Genesis} : AcceptBlock(b)
  BY <1>1 DEF AcceptBlock
<1>3. ~ (ExtendTip \/ RefuseTip \/ UndoBlock \/ StartParse)
  BY <1>1 DEF ExtendTip, RefuseTip, UndoBlock, StartParse
<1>4. ~ (ParseBlock \/ DeleteBranch \/ Retarget \/ ParseReturns \/ SyncAll)
  BY <1>1 DEF ParseBlock, DeleteBranch, Fetched, Retarget, ParseReturns, SyncAll
<1>5. ~CallPanics
  BY <1>1, Zenon DEF CallPanics, CallPanic
<1> QED  BY <1>2, <1>3, <1>4, <1>5 DEF Next, CallStep

(* Every step preserves the inductive invariant.                           *)
LEMMA NextInv ==
  ASSUME ChainInv, [Next]_vars
  PROVE  ChainInv'
<1> DEFINE Calm == {"idle"} \cup Running
<1>1. \A x \in Calm : x \notin Panics
  BY DEF Running, Panics
<1>2. ASSUME Good', pc' \in Calm
      PROVE  ChainInv'
  <2>1. PanicsHaveCauses'
    BY <1>2 DEF PanicsHaveCauses, PathPanics, Running
  <2> QED  BY <1>2, <2>1 DEF ChainInv
<1>3. CASE pc \in Calm
  <2>1. Good
    BY <1>1, <1>3 DEF ChainInv
  <2> USE DEF Running
  <2>2. ASSUME NEW b \in Block \ {Genesis}, AcceptBlock(b) PROVE ChainInv'
    BY <1>2, <2>1, <2>2, AcceptKeeps
  <2>3. CASE ExtendTip
    BY <1>2, <2>1, <2>3, ExtendKeeps
  <2>4. CASE RefuseTip
    BY <1>2, <2>1, <2>4, RefuseKeeps
  <2>5. CASE UndoBlock
    BY <1>2, <2>1, <2>5, UndoKeeps
  <2>6. CASE StartParse
    BY <1>2, <2>1, <2>6, StartParseKeeps
  <2>7. CASE ParseBlock
    BY <1>2, <2>1, <2>7, ParseKeeps
  <2>8. CASE DeleteBranch
    BY <1>2, <2>1, <2>8, DeleteKeeps
  <2>9. CASE Retarget
    BY <1>2, <2>1, <2>9, RetargetKeeps
  <2>10. CASE ParseReturns
    BY <1>2, <2>1, <2>10, ReturnKeeps
  <2>11. CASE SyncAll
    BY <1>2, <2>1, <2>11, SyncKeeps
  <2>12. CASE CallPanics
    <3>1. pc' \in Panics /\ PanicsHaveCauses'
      BY <2>1, <2>12, PanicKeeps
    <3> QED  BY <3>1 DEF ChainInv
  <2>13. CASE UNCHANGED vars
    <3>1. Good'
      <4>1. UNCHANGED <<tree, BlockIndex, BlockTreeEnd, blockIdxMap, unwind, lastBlockHeight,
                        DoNotSync, prvSync, nosync, pc, cur, dst, asked>>
        BY <2>13 DEF vars, treeVars, ledgerVars, syncVars, callVars, histVars
      <4> USE <4>1 DEF Height, AncestorAt, Path, Parent, IsChild, Children
      <4>2. TreeOK' /\ IndexOK' /\ LooseOK'
        BY <2>1 DEF Good, TreeOK, IndexOK, LooseOK
      <4>3. ActiveTrusted' /\ LedgerOK'
        BY <2>1 DEF Good, ActiveTrusted, LedgerOK
      <4>4. CallOK' /\ SyncOK'
        BY <2>1 DEF Good, CallOK, SyncOK
      <4> QED  BY <4>2, <4>3, <4>4 DEF Good
    <3>2. pc' = pc
      BY <2>13 DEF vars, callVars
    <3> QED  BY <1>2, <1>3, <3>1, <3>2
  <2> QED  BY <2>2, <2>3, <2>4, <2>5, <2>6, <2>7, <2>8, <2>9, <2>10, <2>11, <2>12, <2>13
           DEF Next, CallStep
<1>4. CASE pc \in Panics
  <2>1. UNCHANGED <<pc, tree, dst, unwind>>
    BY <1>4, PanicsStay DEF vars, treeVars, ledgerVars, callVars
  <2> QED  BY <1>4, <2>1 DEF ChainInv, PanicsHaveCauses
<1> QED  BY <1>3, <1>4 DEF ChainInv

(* The inductive invariant: the tree with its index, the active chain with *)
(* its records, the place of the call, and what it saved.                  *)
THEOREM ChainInvariant == Spec => []ChainInv
BY InitInv, NextInv, PTL DEF Spec

(* The unwind records are those of the newest blocks of the active chain,  *)
(* at every step of every reorganisation.                                  *)
THEOREM RecordsFollowTip == Spec => []UnwindFollowsTip
<1>1. ChainInv => UnwindFollowsTip
  BY DEF ChainInv, Good, LedgerOK, UnwindFollowsTip
<1> QED  BY <1>1, ChainInvariant, PTL

(* When a call of AcceptBlock has returned, DoNotSync is what the client   *)
(* last set, and the unspent database syncs.                               *)
THEOREM SyncModeComesBack == Spec => []SyncModeRestored
<1>1. ChainInv => SyncModeRestored
  <2> SUFFICES ASSUME ChainInv, pc = "idle" PROVE ~nosync /\ DoNotSync = asked /\ prvSync = <<>>
    BY DEF SyncModeRestored
  <2>1. SyncOK
    BY DEF ChainInv, Good, Panics
  <2> QED  BY <2>1 DEF SyncOK
<1> QED  BY <1>1, ChainInvariant, PTL

(* The assertions of the unspent database on heights and records never     *)
(* fail, and a reorganisation that ends in a panic had reached the oldest  *)
(* record or a branch that hangs loose.                                    *)
THEOREM PanicsAreCaused == Spec => []PanicsHaveCauses
<1>1. ChainInv => PanicsHaveCauses
  BY DEF ChainInv
<1> QED  BY <1>1, ChainInvariant, PTL

(* MoveToBlock and ParseTillBlock call each other, and each step of theirs *)
(* brings a call nearer to its end: a block that fails is out of           *)
(* BlockIndex, and while no other one is, the call goes from one stage to  *)
(* the next, undoes the tip, or parses one of the blocks left up to dst.   *)
Stage == [retarget |-> 3, undo |-> 2, parse |-> 1, extend |-> 0]

ComesNearer ==
  \/ pc \notin Running \/ pc' \notin Running
  \/ DOMAIN BlockIndex' \subseteq DOMAIN BlockIndex /\ DOMAIN BlockIndex' # DOMAIN BlockIndex
  \/ UNCHANGED treeVars /\ Stage[pc'] < Stage[pc]
  \/ /\ UNCHANGED treeVars /\ pc = "undo" /\ pc' = "undo"
     /\ Height(BlockTreeEnd') < Height(BlockTreeEnd)
  \/ /\ UNCHANGED <<treeVars, dst>> /\ pc = "parse" /\ pc' = "parse"
     /\ Height(BlockTreeEnd) < Height(BlockTreeEnd') /\ Height(BlockTreeEnd') <= Height(dst)

CallsComeNearer == [][ComesNearer]_vars

(* What each step of a running call brings nearer.                         *)
LEMMA StepComesNearer ==
  ASSUME ChainInv, Next
  PROVE  ComesNearer
<1> SUFFICES ASSUME pc \in Running, pc' \in Running
             PROVE  ComesNearer
  BY Zenon DEF ComesNearer
<1>1. Good /\ pc \notin Panics /\ pc # "idle"
  BY DEF ChainInv, Running, Panics
<1>2. /\ Stage["retarget"] = 3 /\ Stage["undo"] = 2 /\ Stage["parse"] = 1
  BY DEF Stage
<1>3. BlockTreeEnd \in DOMAIN tree /\ TreeOK /\ Height(BlockTreeEnd) \in Nat
  BY <1>1, NodeFacts DEF Good, ActiveTrusted
<1>4. CASE UndoBlock
  <2>1. pc = "undo" /\ pc' = "undo" /\ UNCHANGED treeVars /\ BlockTreeEnd' = Parent(BlockTreeEnd)
    BY <1>4, Zenon DEF UndoBlock
  <2>2. BlockTreeEnd # Root
    <3>1. BlockTreeEnd # cur /\ cur \in DOMAIN tree /\ Height(cur) <= Height(BlockTreeEnd)
      BY <1>1, <1>4, <2>1, Zenon DEF UndoBlock, Good, CallOK
    <3>2. Height(cur) \in Nat /\ (Height(cur) = 0 => cur = Root) /\ (BlockTreeEnd = Root => Height(BlockTreeEnd) = 0)
      BY <1>3, <3>1, NodeFacts
    <3> QED  BY <3>1, <3>2
  <2>3. Height(BlockTreeEnd) = Height(Parent(BlockTreeEnd)) + 1 /\ Height(Parent(BlockTreeEnd)) \in Nat
    <3>1. Parent(BlockTreeEnd) \in DOMAIN tree
      BY <1>3, NodeFacts
    <3> QED  BY <1>3, <2>2, <3>1, NodeFacts
  <2>4. Height(BlockTreeEnd') < Height(BlockTreeEnd)
    BY <2>1, <2>3
  <2> QED  BY <2>1, <2>4 DEF ComesNearer
<1>5. CASE StartParse
  <2>1. pc = "undo" /\ pc' = "parse" /\ UNCHANGED treeVars
    BY <1>5, Zenon DEF StartParse
  <2> QED  BY <1>2, <2>1 DEF ComesNearer
<1>6. CASE Retarget
  <2>1. pc = "retarget" /\ pc' = "undo" /\ UNCHANGED treeVars
    BY <1>6, Zenon DEF Retarget
  <2> QED  BY <1>2, <2>1 DEF ComesNearer
<1>7. CASE ParseBlock
  <2>1. /\ pc = "parse" /\ pc' = "parse" /\ WayFound /\ BlockTreeEnd' = Nxt
        /\ UNCHANGED <<treeVars, dst>> /\ NextPanic(BlockTreeEnd, dst) = ""
    BY <1>7, Zenon DEF ParseBlock, Fetched, WayFound, callVars
  <2>2. PICK n : n = Nxt
    OBVIOUS
  <2>3. n \in DOMAIN tree \ {Root} /\ Parent(n) = BlockTreeEnd
    BY <1>1, <2>1, <2>2, NextNode
  <2>4. Height(n) = Height(BlockTreeEnd) + 1
    BY <1>3, <2>3, NodeFacts
  <2>5. Height(dst) \in Nat /\ ~(Height(dst) <= Height(BlockTreeEnd))
    <3>1. dst \in DOMAIN tree
      BY <1>1, <2>1 DEF Good, CallOK
    <3>2. ~(Height(dst) <= Height(BlockTreeEnd))
      BY <2>1, Zenon DEF NextPanic
    <3> QED  BY <1>3, <3>1, <3>2, NodeFacts
  <2>6. Height(BlockTreeEnd) < Height(n) /\ Height(n) <= Height(dst)
    BY <1>3, <2>4, <2>5
  <2> QED  BY <2>1, <2>2, <2>6 DEF ComesNearer
<1>8. CASE DeleteBranch
  <2>1. PICK n : n = Nxt
    OBVIOUS
  <2>2. Removed(n)
    BY <1>1, <1>8, <2>1, DeleteRemoves
  <2>3. /\ BlockIndex' = DropBlock(BlockIndex, n.block) /\ IsChild(n)
        /\ n \in DOMAIN tree \ {Root}
    BY <2>2 DEF Removed
  <2>4. n.block \in DOMAIN BlockIndex
    BY <1>1, <2>3 DEF Good, IndexOK
  <2>5. DOMAIN BlockIndex' = DOMAIN BlockIndex \ {n.block}
    BY <2>3 DEF DropBlock
  <2> QED  BY <2>4, <2>5 DEF ComesNearer
<1>9. ~(ExtendTip \/ RefuseTip \/ ParseReturns)
  BY Zenon DEF ExtendTip, RefuseTip, ParseReturns, Return, Running
<1>10. ~(SyncAll \/ \E b \in Block \ {Genesis} : AcceptBlock(b))
  BY <1>1, Zenon DEF SyncAll, AcceptBlock
<1>11. ~CallPanics
  <2>1. CASE CallPanics
    <3>1. pc' \in Panics
      BY <1>1, <2>1, PanicKeeps
    <3> QED  BY <3>1 DEF Panics, Running
  <2> QED  BY <2>1
<1> QED  BY <1>4, <1>5, <1>6, <1>7, <1>8, <1>9, <1>10, <1>11, Zenon DEF Next, CallStep

(* Every step of AcceptBlock brings the call nearer to its end, whatever   *)
(* blocks turn out to be invalid on the way: for any tree of blocks.       *)
THEOREM CallsRunDown == Spec => CallsComeNearer
<1>1. ChainInv /\ [Next]_vars => [ComesNearer]_vars
  BY StepComesNearer
<1> QED  BY <1>1, ChainInvariant, PTL DEF Spec, CallsComeNearer

(* What holds of the genesis block, and of a block when it holds of its    *)
(* parent, holds of all blocks.                                            *)
LEMMA BlockInduction ==
  ASSUME NEW G, Genesis \in G, \A b \in Block \ {Genesis} : ParentOf[b] \in G => b \in G
  PROVE  Block \subseteq G
<1> DEFINE S == Block \ G
<1>1. ASSUME S # {} PROVE FALSE
  <2>1. S \in SUBSET (Block \ {Genesis})
    OBVIOUS
  <2>2. PICK b \in S : ParentOf[b] \notin S
    <3> HIDE DEF S
    <3> QED  BY <1>1, <2>1, ChainAssumption
  <2>3. b \in Block \ {Genesis} /\ ParentOf[b] \in Block
    BY ChainAssumption
  <2> QED  BY <2>2, <2>3
<1> QED  BY <1>1

(* f is what a recursion along the branches gives on D, which has with a   *)
(* block its parent: base for the genesis block, and for another one       *)
(* step[b] of what it gives for the parent.                                *)
Follows(f, D, base, step) ==
  /\ D \subseteq Block /\ Genesis \in D
  /\ \A b \in D \ {Genesis} : ParentOf[b] \in D
  /\ f = [b \in D |-> IF b = Genesis THEN base ELSE step[b][f[ParentOf[b]]]]

(* There is one answer for each block. *)
LEMMA FollowsOnce ==
  ASSUME NEW base, NEW step,
         NEW f, NEW D, Follows(f, D, base, step), NEW g, NEW E, Follows(g, E, base, step)
  PROVE  \A b \in D \cap E : f[b] = g[b]
<1> DEFINE G == {b \in Block : b \in D \cap E => f[b] = g[b]}
<1>1. Genesis \in G
  BY ChainAssumption DEF Follows
<1>2. ASSUME NEW b \in Block \ {Genesis}, ParentOf[b] \in G
      PROVE  b \in G
  <2>1. SUFFICES ASSUME b \in D \cap E PROVE f[b] = g[b]
    OBVIOUS
  <2>2. ParentOf[b] \in D \cap E
    BY <2>1 DEF Follows
  <2>3. f[b] = step[b][f[ParentOf[b]]] /\ g[b] = step[b][g[ParentOf[b]]]
    BY <2>1, <2>2 DEF Follows
  <2> QED  BY <1>2, <2>2, <2>3
<1>3. Block \subseteq G
  <2> HIDE DEF G
  <2> QED  BY <1>1, <1>2, BlockInduction
<1> QED  BY <1>3 DEF Follows

(* And there is one. *)
LEMMA FollowsSome ==
  ASSUME NEW base, NEW step, NEW c \in Block
  PROVE  \E f, D : Follows(f, D, base, step) /\ c \in D
<1> DEFINE G == {b \in Block : \E f, D : Follows(f, D, base, step) /\ b \in D}
<1>1. Genesis \in G
  <2> DEFINE f == [b \in {Genesis} |-> base]
  <2>1. Genesis \in Block
    BY ChainAssumption
  <2>2. Follows(f, {Genesis}, base, step)
    BY <2>1 DEF Follows
  <2> QED  BY <2>1, <2>2
<1>2. ASSUME NEW b \in Block \ {Genesis}, ParentOf[b] \in G
      PROVE  b \in G
  <2>1. PICK f, D : Follows(f, D, base, step) /\ ParentOf[b] \in D
    BY <1>2
  <2>2. CASE b \in D
    BY <2>1, <2>2
  <2>3. CASE b \notin D
    <3> DEFINE E == D \cup {b}
               g == [x \in E |-> IF x = Genesis THEN base ELSE step[x][f[ParentOf[x]]]]
    <3>1. /\ E \subseteq Block /\ Genesis \in E
          /\ \A x \in E \ {Genesis} : ParentOf[x] \in D /\ ParentOf[x] \in E
      BY <2>1 DEF Follows
    <3>2. \A x \in D : g[x] = f[x]
      BY <2>1 DEF Follows
    <3>3. \A x \in E : (IF x = Genesis THEN base ELSE step[x][f[ParentOf[x]]])
                        = IF x = Genesis THEN base ELSE step[x][g[ParentOf[x]]]
      BY <3>1, <3>2
    <3>4. g = [x \in E |-> IF x = Genesis THEN base ELSE step[x][g[ParentOf[x]]]]
      <4> HIDE DEF E
      <4> QED  BY <3>3
    <3>5. Follows(g, E, base, step)
      <4> HIDE DEF E, g
      <4> QED  BY <3>1, <3>4 DEF Follows
    <3> QED  BY <3>5
  <2> QED  BY <2>2, <2>3
<1>3. Block \subseteq G
  <2> HIDE DEF G
  <2> QED  BY <1>1, <1>2, BlockInduction
<1> QED  BY <1>3

Along(f, X, base, step) ==
  /\ f \in [Block -> X]
  /\ \A b \in Block : f[b] = IF b = Genesis THEN base ELSE step[b][f[ParentOf[b]]]

(* So a recursion along the branches has an answer; and its values are in  *)
(* X if base is and the steps stay in X.                                   *)
LEMMA BranchRecursion ==
  ASSUME NEW X, NEW base \in X, NEW step \in [Block \ {Genesis} -> [X -> X]]
  PROVE  \E f : Along(f, X, base, step)
<1> DEFINE A(b) == CHOOSE v : \E f, D : Follows(f, D, base, step) /\ b \in D /\ v = f[b]
           F == [b \in Block |-> A(b)]
<1>1. ASSUME NEW f, NEW D, Follows(f, D, base, step), NEW b \in D
      PROVE  F[b] = f[b]
  <2>1. \E v : \E g, E : Follows(g, E, base, step) /\ b \in E /\ v = g[b]
    BY <1>1
  <2>2. PICK g, E : Follows(g, E, base, step) /\ b \in E /\ A(b) = g[b]
    BY <2>1
  <2>3. g[b] = f[b]
    BY <1>1, <2>2, FollowsOnce
  <2>4. b \in Block
    BY <1>1 DEF Follows
  <2> QED  BY <2>2, <2>3, <2>4
<1>2. ASSUME NEW b \in Block
      PROVE  F[b] = IF b = Genesis THEN base ELSE step[b][F[ParentOf[b]]]
  <2>1. PICK f, D : Follows(f, D, base, step) /\ b \in D
    BY FollowsSome
  <2>2. F[b] = f[b]
    BY <1>1, <2>1
  <2>3. b # Genesis => ParentOf[b] \in D /\ F[ParentOf[b]] = f[ParentOf[b]]
    <3>1. b # Genesis => ParentOf[b] \in D
      BY <2>1 DEF Follows
    <3> HIDE DEF F
    <3> QED  BY <1>1, <2>1, <3>1
  <2>4. f[b] = IF b = Genesis THEN base ELSE step[b][f[ParentOf[b]]]
    BY <2>1 DEF Follows
  <2> HIDE DEF F
  <2> QED  BY <2>2, <2>3, <2>4
<1> DEFINE G == {b \in Block : F[b] \in X}
<1>3. Block \subseteq G
  <2>1. Genesis \in G
    BY <1>2, ChainAssumption
  <2>2. ASSUME NEW b \in Block \ {Genesis}, ParentOf[b] \in G PROVE b \in G
    <3>1. F[ParentOf[b]] \in X /\ step[b] \in [X -> X]
      BY <2>2
    <3>2. F[b] = step[b][F[ParentOf[b]]]
      BY <1>2
    <3> QED  BY <3>1, <3>2
  <2> HIDE DEF G
  <2> QED  BY <2>1, <2>2, BlockInduction
<1>4. F \in [Block -> X]
  <2>1. F = [b \in Block |-> F[b]]
    OBVIOUS
  <2>2. \A b \in Block : F[b] \in X
    BY <1>3
  <2> HIDE DEF F
  <2> QED  BY <2>1, <2>2
<1> HIDE DEF F
<1> QED  BY <1>2, <1>4 DEF Along

(* The height of a block is one more than that of its parent. *)
LEMMA HeightOfIs ==
  /\ Best!HeightOf \in [Block -> Nat] /\ Best!HeightOf[Genesis] = 0
  /\ \A b \in Block \ {Genesis} : Best!HeightOf[b] = Best!HeightOf[ParentOf[b]] + 1
<1> DEFINE step == [b \in Block \ {Genesis} |-> [h \in Nat |-> h + 1]]
           Solves(f) == f = [b \in Block |-> IF b = Genesis THEN 0 ELSE f[ParentOf[b]] + 1]
<1>1. step \in [Block \ {Genesis} -> [Nat -> Nat]]
  OBVIOUS
<1>2. PICK f : Along(f, Nat, 0, step)
  <2>1. 0 \in Nat
    OBVIOUS
  <2> HIDE DEF step
  <2> QED  BY <1>1, <2>1, BranchRecursion, Zenon
<1>3. Solves(f)
  <2>1. \A b \in Block \ {Genesis} : f[ParentOf[b]] \in Nat
    BY <1>2, ChainAssumption DEF Along
  <2>2. \A b \in Block : f[b] = IF b = Genesis THEN 0 ELSE f[ParentOf[b]] + 1
    BY <1>2, <2>1 DEF Along
  <2> QED  BY <1>2, <2>2 DEF Along
<1>4. Best!HeightOf = CHOOSE g : Solves(g)
  BY DEF Best!HeightOf
<1>5. Solves(Best!HeightOf)
  <2> HIDE DEF Solves
  <2> QED  BY <1>3, <1>4
<1> DEFINE H == Best!HeightOf
<1>6. \A b \in Block : H[b] = IF b = Genesis THEN 0 ELSE H[ParentOf[b]] + 1
  <2> HIDE DEF H
  <2> QED  BY <1>5 DEF H
<1> DEFINE G == {b \in Block : H[b] \in Nat}
<1>7. Block \subseteq G
  <2> HIDE DEF H
  <2>1. Genesis \in G
    BY <1>6, ChainAssumption
  <2>2. ASSUME NEW b \in Block \ {Genesis}, ParentOf[b] \in G PROVE b \in G
    BY <1>6, <2>2
  <2> HIDE DEF G
  <2> QED  BY <2>1, <2>2, BlockInduction
<1>8. H = [b \in Block |-> H[b]]
  BY <1>5
<1>9. Genesis \in Block
  BY ChainAssumption
<1> HIDE DEF H
<1>10. H \in [Block -> Nat] /\ H[Genesis] = 0
       /\ \A b \in Block \ {Genesis} : H[b] = H[ParentOf[b]] + 1
  BY <1>6, <1>7, <1>8, <1>9
<1> QED  BY <1>10 DEF H
-----------------------------------------------------------------------------
(* The ledger of a branch                                                  *)

(* What holds of 0, and of a number if it holds of the one before, holds   *)
(* up to len.                                                              *)
LEMMA Induct ==
  ASSUME NEW len \in Nat, NEW G \in SUBSET (0..len), 0 \in G,
         \A n \in 1..len : n - 1 \in G => n \in G
  PROVE  G = 0..len
<1> DEFINE Bad == (0..len) \ G
<1>1. ASSUME Bad # {} PROVE FALSE
  <2>1. Bad \in SUBSET Nat
    OBVIOUS
  <2>2. PICK k \in Bad : \A j \in Bad : k <= j
    <3> HIDE DEF Bad
    <3> QED  BY <1>1, <2>1, LeastNat
  <2>3. k \in 1..len /\ k - 1 \in 0..len /\ ~(k <= k - 1)
    OBVIOUS
  <2>4. k - 1 \in G
    BY <2>2, <2>3
  <2> QED  BY <2>3, <2>4
<1> QED  BY <1>1

(* The loop over the inputs of a transaction, input by input.              *)
LEMMA InputsLoop ==
  ASSUME NEW s, NEW u, NEW block, NEW trusted, NEW t, Len(Ins[t]) \in Nat
  PROVE  \E f : /\ f[0] = [s EXCEPT !.txinsum = 0]
                /\ \A j \in 1..Len(Ins[t]) :
                     f[j] = SpendInput(f[j - 1], u, block, trusted, t, j)
                /\ SpendInputs(s, u, block, trusted, t) = f[Len(Ins[t])]
<1> DEFINE len == Len(Ins[t])
           base == [s EXCEPT !.txinsum = 0]
           Does(f, k) == /\ f = [j \in 0..k |-> f[j]] /\ f[0] = base
                         /\ \A j \in 1..k : f[j] = SpendInput(f[j - 1], u, block, trusted, t, j)
           Solves(f) == f = [j \in 0..len |->
                               IF j = 0 THEN base
                               ELSE SpendInput(f[j - 1], u, block, trusted, t, j)]
           G == {k \in 0..len : \E f : Does(f, k)}
<1>1. len \in Nat
  OBVIOUS
<1> HIDE DEF len, base
<1>2. 0 \in G
  <2> DEFINE f == [j \in 0..0 |-> base]
  <2>1. f = [j \in 0..0 |-> f[j]] /\ f[0] = base
        /\ \A j \in 1..0 : f[j] = SpendInput(f[j - 1], u, block, trusted, t, j)
    OBVIOUS
  <2> HIDE DEF f
  <2> QED  BY <1>1, <2>1
<1>3. ASSUME NEW k \in 1..len, k - 1 \in G PROVE k \in G
  <2>1. PICK f : Does(f, k - 1)
    BY <1>3
  <2> DEFINE last == SpendInput(f[k - 1], u, block, trusted, t, k)
             g == [j \in 0..k |-> IF j = k THEN last ELSE f[j]]
  <2> HIDE DEF last
  <2>2. g = [j \in 0..k |-> g[j]]
    OBVIOUS
  <2>3. 0 \in 0..k /\ 0 # k /\ g[0] = base
    BY <1>1, <2>1
  <2>4. ASSUME NEW j \in 1..k PROVE g[j] = SpendInput(g[j - 1], u, block, trusted, t, j)
    <3>1. j - 1 \in 0..k /\ j - 1 # k /\ g[j - 1] = f[j - 1]
      BY <1>1
    <3>2. CASE j = k
      <4>1. g[j] = last
        BY <3>2
      <4> HIDE DEF g
      <4> QED  BY <3>1, <3>2, <4>1 DEF last
    <3>3. CASE j # k
      <4>1. j \in 1..(k - 1) /\ g[j] = f[j]
        BY <1>1, <3>3
      <4> HIDE DEF g
      <4> QED  BY <2>1, <3>1, <4>1
    <3> QED  BY <3>2, <3>3
  <2> HIDE DEF g
  <2>5. Does(g, k)
    BY <2>2, <2>3, <2>4
  <2>6. k \in 0..len
    BY <1>1
  <2> HIDE DEF Does
  <2> QED  BY <2>5, <2>6
<1>4. PICK f : Does(f, len)
  <2>1. G \in SUBSET (0..len) /\ \A k \in 1..len : k - 1 \in G => k \in G
    BY <1>3
  <2>2. G = 0..len
    <3> HIDE DEF G
    <3> QED  BY <1>1, <1>2, <2>1, Induct
  <2>3. len \in G
    <3> HIDE DEF G
    <3> QED  BY <1>1, <2>2
  <2> QED  BY <2>3
<1>5. Solves(f)
  <2>1. ASSUME NEW j \in 0..len
        PROVE  f[j] = IF j = 0 THEN base ELSE SpendInput(f[j - 1], u, block, trusted, t, j)
    <3>1. j = 0 \/ j \in 1..len
      BY <1>1
    <3> QED  BY <1>4, <3>1
  <2>2. f = [j \in 0..len |-> f[j]]
    BY <1>4
  <2> QED  BY <2>1, <2>2
<1>6. SpendInputs(s, u, block, trusted, t) = (CHOOSE g : Solves(g))[len]
  BY DEF SpendInputs, base, len
<1>7. PICK g : g = CHOOSE h : Solves(h)
  OBVIOUS
<1>8. Solves(g)
  <2> HIDE DEF Solves
  <2> QED  BY <1>5, <1>7
<1>9. SpendInputs(s, u, block, trusted, t) = g[len]
  <2> HIDE DEF Solves
  <2> QED  BY <1>6, <1>7
<1>10. g[0] = base /\ \A j \in 1..len : g[j] = SpendInput(g[j - 1], u, block, trusted, t, j)
  BY <1>1, <1>8
<1> QED  BY <1>9, <1>10 DEF len, base

(* The loop over the transactions of a block, one by one.                  *)
LEMMA TurnsLoop ==
  ASSUME NEW u, NEW block, Len(block) \in Nat, NEW trusted, NEW h
  PROVE  \E f : /\ f[0] = StartBlock(block, h)
                /\ \A i \in 1..Len(block) : f[i] = CommitTx(f[i - 1], u, block, trusted, i)
                /\ CommitTxs(u, block, trusted, h)
                     = [err |-> BlockError(f[Len(block)]), e |-> f[Len(block)].e,
                        added |-> f[Len(block)].added, deleted |-> f[Len(block)].deleted]
<1> DEFINE len == Len(block)
           base == StartBlock(block, h)
           Does(f, k) == /\ f = [j \in 0..k |-> f[j]] /\ f[0] = base
                         /\ \A j \in 1..k : f[j] = CommitTx(f[j - 1], u, block, trusted, j)
           Solves(f) == f = [j \in 0..len |->
                               IF j = 0 THEN base
                               ELSE CommitTx(f[j - 1], u, block, trusted, j)]
           G == {k \in 0..len : \E f : Does(f, k)}
           Result(s) == [err |-> BlockError(s), e |-> s.e, added |-> s.added,
                         deleted |-> s.deleted]
<1>1. len \in Nat
  OBVIOUS
<1> HIDE DEF len, base, Result
<1>2. 0 \in G
  <2> DEFINE f == [j \in 0..0 |-> base]
  <2>1. f = [j \in 0..0 |-> f[j]] /\ f[0] = base
        /\ \A j \in 1..0 : f[j] = CommitTx(f[j - 1], u, block, trusted, j)
    OBVIOUS
  <2> HIDE DEF f
  <2> QED  BY <1>1, <2>1
<1>3. ASSUME NEW k \in 1..len, k - 1 \in G PROVE k \in G
  <2>1. PICK f : Does(f, k - 1)
    BY <1>3
  <2> DEFINE last == CommitTx(f[k - 1], u, block, trusted, k)
             g == [j \in 0..k |-> IF j = k THEN last ELSE f[j]]
  <2> HIDE DEF last
  <2>2. g = [j \in 0..k |-> g[j]]
    OBVIOUS
  <2>3. 0 \in 0..k /\ 0 # k /\ g[0] = base
    BY <1>1, <2>1
  <2>4. ASSUME NEW j \in 1..k PROVE g[j] = CommitTx(g[j - 1], u, block, trusted, j)
    <3>1. j - 1 \in 0..k /\ j - 1 # k /\ g[j - 1] = f[j - 1]
      BY <1>1
    <3>2. CASE j = k
      <4>1. g[j] = last
        BY <3>2
      <4> HIDE DEF g
      <4> QED  BY <3>1, <3>2, <4>1 DEF last
    <3>3. CASE j # k
      <4>1. j \in 1..(k - 1) /\ g[j] = f[j]
        BY <1>1, <3>3
      <4> HIDE DEF g
      <4> QED  BY <2>1, <3>1, <4>1
    <3> QED  BY <3>2, <3>3
  <2> HIDE DEF g
  <2>5. Does(g, k)
    BY <2>2, <2>3, <2>4
  <2>6. k \in 0..len
    BY <1>1
  <2> HIDE DEF Does
  <2> QED  BY <2>5, <2>6
<1>4. PICK f : Does(f, len)
  <2>1. G \in SUBSET (0..len) /\ \A k \in 1..len : k - 1 \in G => k \in G
    BY <1>3
  <2>2. G = 0..len
    <3> HIDE DEF G
    <3> QED  BY <1>1, <1>2, <2>1, Induct
  <2>3. len \in G
    <3> HIDE DEF G
    <3> QED  BY <1>1, <2>2
  <2> QED  BY <2>3
<1>5. Solves(f)
  <2>1. ASSUME NEW j \in 0..len
        PROVE  f[j] = IF j = 0 THEN base ELSE CommitTx(f[j - 1], u, block, trusted, j)
    <3>1. j = 0 \/ j \in 1..len
      BY <1>1
    <3> QED  BY <1>4, <3>1
  <2>2. f = [j \in 0..len |-> f[j]]
    BY <1>4
  <2> QED  BY <2>1, <2>2
<1>6. CommitTxs(u, block, trusted, h) = Result((CHOOSE g : Solves(g))[len])
  BY DEF CommitTxs, base, len, Result
<1>7. PICK g : g = CHOOSE x : Solves(x)
  OBVIOUS
<1>8. Solves(g)
  <2> HIDE DEF Solves
  <2> QED  BY <1>5, <1>7
<1>9. CommitTxs(u, block, trusted, h) = Result(g[len])
  <2> HIDE DEF Solves
  <2> QED  BY <1>6, <1>7
<1>10. g[0] = base /\ \A j \in 1..len : g[j] = CommitTx(g[j - 1], u, block, trusted, j)
  BY <1>1, <1>8
<1> QED  BY <1>9, <1>10 DEF len, base, Result

(* The state of commitTxs, by its fields. *)
Fields == {"added", "deleted", "pool", "sumblockin", "sumblockout", "txinsum",
           "scripts", "e", "err", "stop"}

(* What the fields are when a block starts,                                *)
LEMMA StartIs ==
  ASSUME NEW block, NEW h
  PROVE  LET s == StartBlock(block, h)
         IN  /\ DOMAIN s = Fields /\ s.added = {} /\ s.deleted = {} /\ s.scripts = TRUE
             /\ s.pool = UNION {TxOuts(t) : t \in Txs(block)} /\ s.err = NoError
  BY DEF StartBlock, Fields

Taken(r, s, u, trusted, t, j) ==
  LET o == Ins[t][j]
  IN  /\ DOMAIN r = Fields
      /\ r.deleted = s.deleted \cup {o}
      /\ r.pool = IF o \in u THEN s.pool ELSE s.pool \ {o}
      /\ r.txinsum = (s.txinsum + Value(o)) % Word
      /\ r.scripts = (s.scripts /\ (trusted \/ <<t, j>> \notin BadScript))
      /\ r.added = s.added /\ r.sumblockin = s.sumblockin
      /\ r.sumblockout = s.sumblockout
      /\ r.e = s.e /\ r.err = s.err /\ r.stop = s.stop

(* what an input taken makes of them,                                      *)
LEMMA TakeInputIs ==
  ASSUME NEW s, DOMAIN s = Fields, NEW u, NEW trusted, NEW t, NEW j
  PROVE  Taken(TakeInput(s, u, trusted, t, j), s, u, trusted, t, j)
  BY DEF TakeInput, Fields, Taken

OutputsAdded(r, s, t) ==
  /\ DOMAIN r = Fields
  /\ r.added = s.added \cup (TxOuts(t) \ s.deleted)
  /\ r.deleted = s.deleted \ TxOuts(t)
  /\ r.sumblockin = (s.sumblockin + s.txinsum) % Word
  /\ r.sumblockout = (s.sumblockout + SumOuts(t)) % Word
  /\ r.pool = s.pool /\ r.txinsum = s.txinsum /\ r.scripts = s.scripts
  /\ r.e = s.e /\ r.err = s.err /\ r.stop = s.stop

(* the outputs added,                                                      *)
LEMMA AddOutputsIs ==
  ASSUME NEW s, DOMAIN s = Fields, NEW t
  PROVE  OutputsAdded(AddOutputs(s, t), s, t)
  BY DEF AddOutputs, Fields, OutputsAdded

TxEnded(r, s, t, coinbase) ==
  /\ DOMAIN r = Fields
  /\ r.err = IF ~coinbase /\ SumOuts(t) > s.txinsum
               THEN "More spent than at the input" ELSE NoError
  /\ r.stop = (s.e # NoError)
  /\ r.added = s.added /\ r.deleted = s.deleted /\ r.pool = s.pool
  /\ r.sumblockin = s.sumblockin /\ r.sumblockout = s.sumblockout
  /\ r.txinsum = s.txinsum /\ r.scripts = s.scripts /\ r.e = s.e

(* and the end of a transaction.                                           *)
LEMMA EndTxIs ==
  ASSUME NEW s, DOMAIN s = Fields, NEW t, NEW coinbase
  PROVE  TxEnded(EndTx(s, t, coinbase), s, t, coinbase)
  BY DEF EndTx, Fields, TxEnded

(* What the inputs of the i-th transaction make of the state. *)
SpentBy(s, u, block, trusted, i) ==
  IF i = 1 THEN [s EXCEPT !.txinsum = 0] ELSE SpendInputs(s, u, block, trusted, block[i])

(* A turn of the loop over the transactions, in these terms.               *)
LEMMA TurnIs ==
  ASSUME NEW s, NEW u, NEW block, NEW trusted, NEW i
  PROVE  LET spent == SpentBy(s, u, block, trusted, i)
         IN  CommitTx(s, u, block, trusted, i)
               = IF s.err # NoError \/ s.stop THEN s
                 ELSE IF ~spent.scripts THEN [spent EXCEPT !.err = "VerifyScripts failed"]
                 ELSE EndTx(AddOutputs(spent, block[i]), block[i], i = 1)
  BY DEF CommitTx, SpentBy
-----------------------------------------------------------------------------
(* Two ledgers                                                             *)

(* The ledgers u and v differ in nothing the block can tell: u has, beyond *)
(* v, outputs that the block spends only after it made them itself.        *)
NotTold(u, v, block) ==
  /\ v \subseteq u
  /\ \A o \in u \ v :
       /\ o \in TxOuts(o.tx)
       /\ \A i \in 2..Len(block) :
            o \in ToSet(Ins[block[i]]) => \E k \in 1..(i - 1) : o.tx = block[k]

(* A transaction of the block whose turn is among the first n.             *)
TurnOver(t, block, n) == \E k \in 1..n : t = block[k]

(* The states of the same loop on u and on v after n turns.                *)
Alike(s, r) ==
  /\ DOMAIN s = Fields /\ DOMAIN r = Fields
  /\ s.added = r.added /\ s.deleted = r.deleted
  /\ s.sumblockin = r.sumblockin /\ s.sumblockout = r.sumblockout
  /\ s.txinsum = r.txinsum /\ s.scripts = r.scripts
  /\ s.e = r.e /\ s.err = r.err /\ s.stop = r.stop

InStep(s, r, u, v, block, n) ==
  /\ Alike(s, r)
  /\ r.pool \subseteq s.pool
  /\ \A o \in s.pool \ r.pool : o \in r.deleted /\ TurnOver(o.tx, block, n)
  /\ \A o \in u \ v : o.tx \in Txs(block) =>
       o \in r.pool \/ (o \in r.deleted /\ TurnOver(o.tx, block, n))

(* They stay in step at an input.                                          *)
LEMMA InputInStep ==
  ASSUME NEW u, NEW v, NEW block \in Seq(TxId), NotTold(u, v, block), NEW trusted,
         NEW i \in 2..Len(block), NEW j \in DOMAIN Ins[block[i]],
         NEW s, NEW r, InStep(s, r, u, v, block, i - 1)
  PROVE  InStep(SpendInput(s, u, block, trusted, block[i], j),
                SpendInput(r, v, block, trusted, block[i], j), u, v, block, i - 1)
<1> DEFINE t == block[i]
           o == Ins[t][j]
           es == InputError(s, u, block, o)
           er == InputError(r, v, block, o)
           ts == TakeInput(s, u, trusted, t, j)
           tr == TakeInput(r, v, trusted, t, j)
<1>0. Alike(s, r) /\ DOMAIN s = Fields /\ DOMAIN r = Fields
  BY DEF InStep, Alike
<1>1. o \in u \ v => o.tx \in Txs(block) /\ TurnOver(o.tx, block, i - 1)
  <2>1. o \in ToSet(Ins[block[i]])
    BY DEF ToSet
  <2>2. ASSUME o \in u \ v PROVE \E k \in 1..(i - 1) : o.tx = block[k]
    BY <2>1, <2>2 DEF NotTold
  <2>3. \A k \in 1..(i - 1) : block[k] \in Txs(block)
    BY DEF Txs, ToSet
  <2> QED  BY <2>2, <2>3 DEF TurnOver
<1>2. es = er
  <2>1. o \notin s.deleted => (o \in u \cup s.pool <=> o \in v \cup r.pool)
    BY <1>0, <1>1 DEF InStep, Alike, NotTold
  <2>2. s.deleted = r.deleted
    BY <1>0 DEF Alike
  <2> QED  BY <2>1, <2>2 DEF InputError
<1>3. ASSUME er = NoError PROVE InStep(ts, tr, u, v, block, i - 1)
  <2>1. o \notin r.deleted
    BY <1>3 DEF InputError, NoError
  <2>2. Taken(ts, s, u, trusted, t, j) /\ Taken(tr, r, v, trusted, t, j)
    <3> HIDE DEF t
    <3> QED  BY <1>0, TakeInputIs
  <2> HIDE DEF ts, tr, t
  <2>3. Alike(ts, tr)
    BY <1>0, <2>2 DEF Alike, Taken
  <2>8. /\ ts.deleted = s.deleted \cup {o} /\ tr.deleted = r.deleted \cup {o}
        /\ ts.pool = IF o \in u THEN s.pool ELSE s.pool \ {o}
        /\ tr.pool = IF o \in v THEN r.pool ELSE r.pool \ {o}
    BY <2>2 DEF Taken
  <2> HIDE DEF o, er, es
  <2>4. s.deleted = r.deleted
    BY <1>0 DEF Alike
  <2>5. tr.pool \subseteq ts.pool
    BY <2>8 DEF InStep, NotTold
  <2>6. \A x \in ts.pool \ tr.pool : x \in tr.deleted /\ TurnOver(x.tx, block, i - 1)
    BY <1>1, <2>8 DEF InStep, NotTold
  <2>7. \A x \in u \ v : x.tx \in Txs(block) =>
          x \in tr.pool \/ (x \in tr.deleted /\ TurnOver(x.tx, block, i - 1))
    BY <1>1, <2>8 DEF InStep
  <2> QED  BY <2>3, <2>5, <2>6, <2>7 DEF InStep
<1>4. ASSUME er # NoError
      PROVE  InStep([s EXCEPT !.e = er], [r EXCEPT !.e = er], u, v, block, i - 1)
  <2> DEFINE fs == [s EXCEPT !.e = er]
             fr == [r EXCEPT !.e = er]
  <2>1. /\ DOMAIN fs = Fields /\ fs.pool = s.pool /\ fs.deleted = s.deleted
        /\ fs.added = s.added /\ fs.sumblockin = s.sumblockin
        /\ fs.sumblockout = s.sumblockout /\ fs.txinsum = s.txinsum
        /\ fs.scripts = s.scripts /\ fs.e = er /\ fs.err = s.err /\ fs.stop = s.stop
    BY <1>0 DEF Fields
  <2>2. /\ DOMAIN fr = Fields /\ fr.pool = r.pool /\ fr.deleted = r.deleted
        /\ fr.added = r.added /\ fr.sumblockin = r.sumblockin
        /\ fr.sumblockout = r.sumblockout /\ fr.txinsum = r.txinsum
        /\ fr.scripts = r.scripts /\ fr.e = er /\ fr.err = r.err /\ fr.stop = r.stop
    BY <1>0 DEF Fields
  <2> HIDE DEF fs, fr, er
  <2>3. Alike(fs, fr)
    BY <1>0, <2>1, <2>2 DEF Alike
  <2>4. InStep(fs, fr, u, v, block, i - 1)
    BY <2>1, <2>2, <2>3 DEF InStep
  <2> QED  BY <2>4 DEF fs, fr
<1>5. s.e = r.e
  BY <1>0 DEF Alike
<1>6. SpendInput(s, u, block, trusted, block[i], j)
        = IF s.e # NoError THEN s ELSE IF es # NoError THEN [s EXCEPT !.e = es] ELSE ts
  BY DEF SpendInput
<1>7. SpendInput(r, v, block, trusted, block[i], j)
        = IF r.e # NoError THEN r ELSE IF er # NoError THEN [r EXCEPT !.e = er] ELSE tr
  BY DEF SpendInput
<1> HIDE DEF es, er, ts, tr, t, o
<1> QED  BY <1>2, <1>3, <1>4, <1>5, <1>6, <1>7

(* Resetting one number, or setting the error, of both keeps them in step. *)
LEMMA ResetInStep ==
  ASSUME NEW s, NEW r, NEW u, NEW v, NEW block, NEW n, InStep(s, r, u, v, block, n)
  PROVE  /\ InStep([s EXCEPT !.txinsum = 0], [r EXCEPT !.txinsum = 0], u, v, block, n)
         /\ InStep([s EXCEPT !.err = "VerifyScripts failed"],
                   [r EXCEPT !.err = "VerifyScripts failed"], u, v, block, n)
<1>1. ASSUME NEW x, NEW y, DOMAIN x = Fields, DOMAIN y = Fields,
             x.pool = s.pool, y.pool = r.pool, x.deleted = s.deleted, y.deleted = r.deleted,
             Alike(x, y)
      PROVE  InStep(x, y, u, v, block, n)
  BY <1>1 DEF InStep
<1>2. DOMAIN s = Fields /\ DOMAIN r = Fields /\ Alike(s, r)
  BY DEF InStep, Alike
<1>3. InStep([s EXCEPT !.txinsum = 0], [r EXCEPT !.txinsum = 0], u, v, block, n)
  <2> DEFINE x == [s EXCEPT !.txinsum = 0]
             y == [r EXCEPT !.txinsum = 0]
  <2>1. /\ DOMAIN x = Fields /\ x.pool = s.pool /\ x.deleted = s.deleted
        /\ x.added = s.added /\ x.sumblockin = s.sumblockin /\ x.sumblockout = s.sumblockout
        /\ x.txinsum = 0 /\ x.scripts = s.scripts /\ x.e = s.e /\ x.err = s.err
        /\ x.stop = s.stop
    BY <1>2 DEF Fields
  <2>2. /\ DOMAIN y = Fields /\ y.pool = r.pool /\ y.deleted = r.deleted
        /\ y.added = r.added /\ y.sumblockin = r.sumblockin /\ y.sumblockout = r.sumblockout
        /\ y.txinsum = 0 /\ y.scripts = r.scripts /\ y.e = r.e /\ y.err = r.err
        /\ y.stop = r.stop
    BY <1>2 DEF Fields
  <2> HIDE DEF x, y
  <2>3. Alike(x, y)
    BY <1>2, <2>1, <2>2 DEF Alike
  <2>4. InStep(x, y, u, v, block, n)
    BY <1>1, <2>1, <2>2, <2>3
  <2> QED  BY <2>4 DEF x, y
<1>4. InStep([s EXCEPT !.err = "VerifyScripts failed"],
             [r EXCEPT !.err = "VerifyScripts failed"], u, v, block, n)
  <2> DEFINE x == [s EXCEPT !.err = "VerifyScripts failed"]
             y == [r EXCEPT !.err = "VerifyScripts failed"]
  <2>1. /\ DOMAIN x = Fields /\ x.pool = s.pool /\ x.deleted = s.deleted
        /\ x.added = s.added /\ x.sumblockin = s.sumblockin /\ x.sumblockout = s.sumblockout
        /\ x.txinsum = s.txinsum /\ x.scripts = s.scripts /\ x.e = s.e
        /\ x.err = "VerifyScripts failed" /\ x.stop = s.stop
    BY <1>2 DEF Fields
  <2>2. /\ DOMAIN y = Fields /\ y.pool = r.pool /\ y.deleted = r.deleted
        /\ y.added = r.added /\ y.sumblockin = r.sumblockin /\ y.sumblockout = r.sumblockout
        /\ y.txinsum = r.txinsum /\ y.scripts = r.scripts /\ y.e = r.e
        /\ y.err = "VerifyScripts failed" /\ y.stop = r.stop
    BY <1>2 DEF Fields
  <2> HIDE DEF x, y
  <2>3. Alike(x, y)
    BY <1>2, <2>1, <2>2 DEF Alike
  <2>4. InStep(x, y, u, v, block, n)
    BY <1>1, <2>1, <2>2, <2>3
  <2> QED  BY <2>4 DEF x, y
<1> QED  BY <1>3, <1>4

(* They stay in step over all inputs of a transaction.                     *)
LEMMA SpentInStep ==
  ASSUME NEW u, NEW v, NEW block \in Seq(TxId), NotTold(u, v, block), NEW trusted,
         NEW i \in 1..Len(block),
         NEW s, NEW r, InStep(s, r, u, v, block, i - 1)
  PROVE  InStep(SpentBy(s, u, block, trusted, i), SpentBy(r, v, block, trusted, i),
                u, v, block, i - 1)
<1>1. CASE i = 1
  BY <1>1, ResetInStep DEF SpentBy
<1>2. CASE i # 1
  <2> DEFINE t == block[i]
             len == Len(Ins[t])
  <2>1. t \in TxId /\ i \in 2..Len(block)
    BY <1>2
  <2>2. len \in Nat /\ DOMAIN Ins[t] = 1..len
    BY <2>1, TxAssumption
  <2>3. PICK f : /\ f[0] = [s EXCEPT !.txinsum = 0]
                 /\ \A j \in 1..len : f[j] = SpendInput(f[j - 1], u, block, trusted, t, j)
                 /\ SpendInputs(s, u, block, trusted, t) = f[len]
    <3> HIDE DEF t
    <3> QED  BY <2>2, InputsLoop DEF len
  <2>4. PICK g : /\ g[0] = [r EXCEPT !.txinsum = 0]
                 /\ \A j \in 1..len : g[j] = SpendInput(g[j - 1], v, block, trusted, t, j)
                 /\ SpendInputs(r, v, block, trusted, t) = g[len]
    <3> HIDE DEF t
    <3> QED  BY <2>2, InputsLoop DEF len
  <2> DEFINE G == {j \in 0..len : InStep(f[j], g[j], u, v, block, i - 1)}
  <2> HIDE DEF len
  <2>5. 0 \in G
    <3>1. InStep([s EXCEPT !.txinsum = 0], [r EXCEPT !.txinsum = 0], u, v, block, i - 1)
      BY ResetInStep
    <3>2. InStep(f[0], g[0], u, v, block, i - 1)
      BY <2>3, <2>4, <3>1
    <3> QED  BY <2>2, <3>2
  <2>6. ASSUME NEW j \in 1..len, j - 1 \in G PROVE j \in G
    <3>1. InStep(f[j - 1], g[j - 1], u, v, block, i - 1) /\ j \in 0..len
      BY <2>2, <2>6
    <3>2. j \in DOMAIN Ins[block[i]]
      BY <2>2
    <3>3. f[j] = SpendInput(f[j - 1], u, block, trusted, t, j)
          /\ g[j] = SpendInput(g[j - 1], v, block, trusted, t, j)
      BY <2>3, <2>4
    <3>4. InStep(SpendInput(f[j - 1], u, block, trusted, block[i], j),
                 SpendInput(g[j - 1], v, block, trusted, block[i], j), u, v, block, i - 1)
      BY <2>1, <3>1, <3>2, InputInStep
    <3> QED  BY <3>1, <3>3, <3>4
  <2>7. len \in G
    <3>1. G \in SUBSET (0..len)
      OBVIOUS
    <3> HIDE DEF G
    <3>2. G = 0..len
      BY <2>2, <2>5, <2>6, <3>1, Induct
    <3> QED  BY <2>2, <3>2
  <2>8. InStep(f[len], g[len], u, v, block, i - 1)
    BY <2>7
  <2>9. SpentBy(s, u, block, trusted, i) = f[len] /\ SpentBy(r, v, block, trusted, i) = g[len]
    BY <1>2, <2>3, <2>4 DEF SpentBy
  <2> QED  BY <2>8, <2>9
<1> QED  BY <1>1, <1>2

(* They stay in step over the end of a turn: no output of the transaction  *)
(* in whose turn it is made them differ.                                   *)
LEMMA AddedInStep ==
  ASSUME NEW u, NEW v, NEW block \in Seq(TxId), IsInjective(block),
         NEW i \in 1..Len(block),
         NEW s, NEW r, InStep(s, r, u, v, block, i - 1)
  PROVE  InStep(EndTx(AddOutputs(s, block[i]), block[i], i = 1),
                EndTx(AddOutputs(r, block[i]), block[i], i = 1), u, v, block, i)
<1> DEFINE t == block[i]
           as == AddOutputs(s, t)
           ar == AddOutputs(r, t)
           es == EndTx(as, t, i = 1)
           er == EndTx(ar, t, i = 1)
<1>1. DOMAIN s = Fields /\ DOMAIN r = Fields /\ Alike(s, r)
  BY DEF InStep, Alike
<1>2. OutputsAdded(as, s, t) /\ OutputsAdded(ar, r, t)
  BY <1>1, AddOutputsIs
<1>3. TxEnded(es, as, t, i = 1) /\ TxEnded(er, ar, t, i = 1)
  <2>1. DOMAIN as = Fields /\ DOMAIN ar = Fields
    BY <1>2 DEF OutputsAdded
  <2> QED  BY <2>1, EndTxIs
<1>4. \A x : TurnOver(x.tx, block, i - 1) => x \notin TxOuts(t) /\ TurnOver(x.tx, block, i)
  <2> TAKE x
  <2> SUFFICES ASSUME TurnOver(x.tx, block, i - 1)
               PROVE  x \notin TxOuts(t) /\ TurnOver(x.tx, block, i)
    OBVIOUS
  <2>1. PICK k \in 1..(i - 1) : x.tx = block[k]
    BY DEF TurnOver
  <2>2. k \in DOMAIN block /\ i \in DOMAIN block /\ k # i /\ k \in 1..i
    OBVIOUS
  <2>3. x.tx # t
    BY <2>1, <2>2 DEF IsInjective
  <2>4. \A y \in TxOuts(t) : y.tx = t
    BY DEF TxOuts
  <2> QED  BY <2>1, <2>2, <2>3, <2>4 DEF TurnOver
<1>5. Txs(block) = Txs(block)
  OBVIOUS
<1> HIDE DEF t, as, ar, es, er
<1>6. Alike(as, ar)
  BY <1>1, <1>2 DEF Alike, OutputsAdded
<1>7. Alike(es, er)
  <2>1. as.e = ar.e /\ as.txinsum = ar.txinsum
    BY <1>6 DEF Alike
  <2>2. es.err = er.err
    <3>1. es.err = IF ~(i = 1) /\ SumOuts(t) > as.txinsum
                     THEN "More spent than at the input" ELSE NoError
      BY <1>3, Zenon DEF TxEnded
    <3>2. er.err = IF ~(i = 1) /\ SumOuts(t) > ar.txinsum
                     THEN "More spent than at the input" ELSE NoError
      BY <1>3, Zenon DEF TxEnded
    <3>3. (~(i = 1) /\ SumOuts(t) > as.txinsum) = (~(i = 1) /\ SumOuts(t) > ar.txinsum)
      BY <2>1, Zenon
    <3>4. CASE ~(i = 1) /\ SumOuts(t) > as.txinsum
      BY <3>1, <3>2, <3>3, <3>4, Zenon
    <3>5. CASE ~(~(i = 1) /\ SumOuts(t) > as.txinsum)
      BY <3>1, <3>2, <3>3, <3>5, Zenon
    <3> QED  BY <3>4, <3>5, Zenon
  <2>3. es.stop = er.stop
    BY <1>3, <2>1 DEF TxEnded
  <2>4. /\ es.added = er.added /\ es.deleted = er.deleted
        /\ es.sumblockin = er.sumblockin /\ es.sumblockout = er.sumblockout
        /\ es.txinsum = er.txinsum /\ es.e = er.e
    BY <1>3, <1>6 DEF TxEnded, Alike
  <2>5. es.scripts = er.scripts
    BY <1>3, <1>6 DEF TxEnded, Alike
  <2>6. DOMAIN es = Fields /\ DOMAIN er = Fields
    BY <1>3 DEF TxEnded
  <2> QED  BY <2>2, <2>3, <2>4, <2>5, <2>6 DEF Alike
<1>8. /\ es.pool = s.pool /\ er.pool = r.pool
      /\ es.deleted = s.deleted \ TxOuts(t) /\ er.deleted = r.deleted \ TxOuts(t)
  BY <1>2, <1>3 DEF OutputsAdded, TxEnded
<1>9. InStep(es, er, u, v, block, i)
  BY <1>4, <1>7, <1>8 DEF InStep
<1> QED  BY <1>9 DEF es, er, as, ar, t

(* and over a turn: *)
LEMMA TurnInStep ==
  ASSUME NEW u, NEW v, NEW block \in Seq(TxId), IsInjective(block),
         NotTold(u, v, block), NEW trusted,
         NEW i \in 1..Len(block),
         NEW s, NEW r, InStep(s, r, u, v, block, i - 1)
  PROVE  InStep(CommitTx(s, u, block, trusted, i), CommitTx(r, v, block, trusted, i),
                u, v, block, i)
<1> DEFINE ss == SpentBy(s, u, block, trusted, i)
           sr == SpentBy(r, v, block, trusted, i)
<1>1. InStep(ss, sr, u, v, block, i - 1)
  BY SpentInStep
<1>2. s.err = r.err /\ s.stop = r.stop /\ ss.scripts = sr.scripts
  BY <1>1 DEF InStep, Alike
<1>3. ASSUME NEW x, NEW y, InStep(x, y, u, v, block, i - 1) PROVE InStep(x, y, u, v, block, i)
  <2>1. \A z : TurnOver(z, block, i - 1) => TurnOver(z, block, i)
    BY DEF TurnOver
  <2> QED  BY <1>3, <2>1 DEF InStep
<1>4. InStep([ss EXCEPT !.err = "VerifyScripts failed"],
             [sr EXCEPT !.err = "VerifyScripts failed"], u, v, block, i)
  <2> HIDE DEF ss, sr
  <2> QED  BY <1>1, <1>3, ResetInStep
<1>5. InStep(EndTx(AddOutputs(ss, block[i]), block[i], i = 1),
             EndTx(AddOutputs(sr, block[i]), block[i], i = 1), u, v, block, i)
  <2> HIDE DEF ss, sr
  <2> QED  BY <1>1, AddedInStep
<1>6. CommitTx(s, u, block, trusted, i)
        = IF s.err # NoError \/ s.stop THEN s
          ELSE IF ~ss.scripts THEN [ss EXCEPT !.err = "VerifyScripts failed"]
          ELSE EndTx(AddOutputs(ss, block[i]), block[i], i = 1)
  BY TurnIs, Zenon
<1>7. CommitTx(r, v, block, trusted, i)
        = IF r.err # NoError \/ r.stop THEN r
          ELSE IF ~sr.scripts THEN [sr EXCEPT !.err = "VerifyScripts failed"]
          ELSE EndTx(AddOutputs(sr, block[i]), block[i], i = 1)
  BY TurnIs, Zenon
<1>8. InStep(s, r, u, v, block, i)
  BY <1>3
<1> HIDE DEF ss, sr
<1> QED  BY <1>2, <1>4, <1>5, <1>6, <1>7, <1>8

(* commitTxs answers the same on both.                                     *)
LEMMA SameAnswer ==
  ASSUME NEW u, NEW v, NEW block \in Seq(TxId), IsInjective(block),
         NotTold(u, v, block), NEW trusted, NEW h
  PROVE  CommitTxs(u, block, trusted, h) = CommitTxs(v, block, trusted, h)
<1>1. Len(block) \in Nat
  OBVIOUS
<1>2. PICK f : /\ f[0] = StartBlock(block, h)
               /\ \A i \in 1..Len(block) : f[i] = CommitTx(f[i - 1], u, block, trusted, i)
               /\ CommitTxs(u, block, trusted, h)
                    = [err |-> BlockError(f[Len(block)]), e |-> f[Len(block)].e,
                       added |-> f[Len(block)].added, deleted |-> f[Len(block)].deleted]
  BY <1>1, TurnsLoop
<1>3. PICK g : /\ g[0] = StartBlock(block, h)
               /\ \A i \in 1..Len(block) : g[i] = CommitTx(g[i - 1], v, block, trusted, i)
               /\ CommitTxs(v, block, trusted, h)
                    = [err |-> BlockError(g[Len(block)]), e |-> g[Len(block)].e,
                       added |-> g[Len(block)].added, deleted |-> g[Len(block)].deleted]
  BY <1>1, TurnsLoop
<1> DEFINE G == {i \in 0..Len(block) : InStep(f[i], g[i], u, v, block, i)}
<1>4. 0 \in G
  <2> DEFINE s == StartBlock(block, h)
  <2>1. DOMAIN s = Fields /\ s.pool = UNION {TxOuts(t) : t \in Txs(block)}
    BY StartIs
  <2> HIDE DEF s
  <2>2. InStep(s, s, u, v, block, 0)
    BY <2>1 DEF InStep, Alike, NotTold
  <2> QED  BY <1>1, <1>2, <1>3, <2>2 DEF s
<1>5. ASSUME NEW i \in 1..Len(block), i - 1 \in G PROVE i \in G
  <2>1. InStep(f[i - 1], g[i - 1], u, v, block, i - 1) /\ i \in 0..Len(block)
    BY <1>1, <1>5
  <2>2. f[i] = CommitTx(f[i - 1], u, block, trusted, i)
        /\ g[i] = CommitTx(g[i - 1], v, block, trusted, i)
    BY <1>2, <1>3
  <2>3. InStep(CommitTx(f[i - 1], u, block, trusted, i),
               CommitTx(g[i - 1], v, block, trusted, i), u, v, block, i)
    BY <2>1, TurnInStep
  <2> QED  BY <2>1, <2>2, <2>3
<1>6. Len(block) \in G
  <2>1. G \in SUBSET (0..Len(block))
    OBVIOUS
  <2> HIDE DEF G
  <2>2. G = 0..Len(block)
    BY <1>1, <1>4, <1>5, <2>1, Induct
  <2> QED  BY <1>1, <2>2
<1>7. Alike(f[Len(block)], g[Len(block)])
  BY <1>6 DEF InStep
<1> DEFINE x == f[Len(block)]
           y == g[Len(block)]
<1>8. x.err = y.err /\ x.sumblockin = y.sumblockin /\ x.sumblockout = y.sumblockout
      /\ x.e = y.e /\ x.added = y.added /\ x.deleted = y.deleted
  BY <1>7 DEF Alike
<1>9. BlockError(x) = BlockError(y)
  <2> HIDE DEF x, y
  <2> QED  BY <1>8 DEF BlockError
<1> QED  BY <1>2, <1>3, <1>8, <1>9
-----------------------------------------------------------------------------
(* Trust                                                                   *)

(* The flag of a block that is checked in full.                            *)
Checked(trusted) == trusted = FALSE

Failed(s) == s.scripts = FALSE

(* A trusted block goes the way of the same block checked in full, until a *)
(* script fails there.                                                     *)
LEMMA TrustedInput ==
  ASSUME NEW u, NEW block, NEW full, Checked(full), NEW trusted,
         NEW t, NEW j, NEW s, DOMAIN s = Fields
  PROVE  LET r == SpendInput(s, u, block, full, t, j)
         IN  DOMAIN r = Fields /\ (r = SpendInput(s, u, block, trusted, t, j) \/ Failed(r))
<1> DEFINE err == InputError(s, u, block, Ins[t][j])
           r == SpendInput(s, u, block, full, t, j)
           q == SpendInput(s, u, block, trusted, t, j)
           tf == TakeInput(s, u, full, t, j)
           tt == TakeInput(s, u, trusted, t, j)
<1>1. /\ r = IF s.e # NoError THEN s ELSE IF err # NoError THEN [s EXCEPT !.e = err] ELSE tf
      /\ q = IF s.e # NoError THEN s ELSE IF err # NoError THEN [s EXCEPT !.e = err] ELSE tt
  BY DEF SpendInput
<1>2. DOMAIN [s EXCEPT !.e = err] = Fields
  BY DEF Fields
<1>3. Taken(tf, s, u, full, t, j)
  BY TakeInputIs
<1>4. DOMAIN tf = Fields /\ tf.scripts = (s.scripts /\ (full \/ <<t, j>> \notin BadScript))
  BY <1>3 DEF Taken
<1>5. CASE <<t, j>> \in BadScript
  <2>1. Failed(tf)
    BY <1>4, <1>5 DEF Checked, Failed
  <2> HIDE DEF r, q, tf, tt, err
  <2>2. DOMAIN r = Fields /\ (r = q \/ Failed(r))
    BY <1>1, <1>2, <1>4, <2>1
  <2> QED  BY <2>2 DEF r, q
<1>6. CASE <<t, j>> \notin BadScript
  <2>1. tf = tt
    BY <1>6 DEF TakeInput
  <2> HIDE DEF r, q, tf, tt, err
  <2>2. DOMAIN r = Fields /\ (r = q \/ Failed(r))
    BY <1>1, <1>2, <1>4, <2>1
  <2> QED  BY <2>2 DEF r, q
<1> QED  BY <1>5, <1>6

(* A script that failed stays failed.                                      *)
LEMMA FailedStays ==
  ASSUME NEW u, NEW block, NEW full, NEW t, NEW j,
         NEW s, DOMAIN s = Fields, Failed(s)
  PROVE  Failed(SpendInput(s, u, block, full, t, j))
<1> DEFINE err == InputError(s, u, block, Ins[t][j])
           r == SpendInput(s, u, block, full, t, j)
           tf == TakeInput(s, u, full, t, j)
<1>1. r = IF s.e # NoError THEN s ELSE IF err # NoError THEN [s EXCEPT !.e = err] ELSE tf
  BY DEF SpendInput
<1>2. [s EXCEPT !.e = err].scripts = s.scripts
  BY DEF Fields
<1>3. Taken(tf, s, u, full, t, j)
  BY TakeInputIs
<1>4. Failed(tf)
  BY <1>3 DEF Taken, Failed
<1> HIDE DEF r, tf, err
<1>5. Failed(r)
  BY <1>1, <1>2, <1>4 DEF Failed
<1> QED  BY <1>5 DEF r

(* So it does over all inputs of a transaction.                            *)
LEMMA TrustedSpent ==
  ASSUME NEW u, NEW block \in Seq(TxId), NEW full, Checked(full), NEW trusted,
         NEW i \in 1..Len(block), NEW s, DOMAIN s = Fields
  PROVE  LET r == SpentBy(s, u, block, full, i)
         IN  DOMAIN r = Fields /\ (r = SpentBy(s, u, block, trusted, i) \/ Failed(r))
<1>0. DOMAIN [s EXCEPT !.txinsum = 0] = Fields
  BY DEF Fields
<1>1. CASE i = 1
  BY <1>0, <1>1 DEF SpentBy
<1>2. CASE i # 1
  <2> DEFINE t == block[i]
             len == Len(Ins[t])
             base == [s EXCEPT !.txinsum = 0]
  <2>1. len \in Nat
    BY TxAssumption
  <2>2. PICK f : /\ f[0] = base
                 /\ \A j \in 1..len : f[j] = SpendInput(f[j - 1], u, block, full, t, j)
                 /\ SpendInputs(s, u, block, full, t) = f[len]
    <3> HIDE DEF t
    <3> QED  BY <2>1, InputsLoop DEF len
  <2>3. PICK g : /\ g[0] = base
                 /\ \A j \in 1..len : g[j] = SpendInput(g[j - 1], u, block, trusted, t, j)
                 /\ SpendInputs(s, u, block, trusted, t) = g[len]
    <3> HIDE DEF t
    <3> QED  BY <2>1, InputsLoop DEF len
  <2> HIDE DEF len, base, t
  <2> DEFINE G == {j \in 0..len : DOMAIN f[j] = Fields /\ (f[j] = g[j] \/ Failed(f[j]))}
  <2>4. 0 \in G
    BY <1>0, <2>1, <2>2, <2>3 DEF base
  <2>5. ASSUME NEW j \in 1..len, j - 1 \in G PROVE j \in G
    <3>1. /\ DOMAIN f[j - 1] = Fields /\ (f[j - 1] = g[j - 1] \/ Failed(f[j - 1]))
          /\ j \in 0..len
      BY <2>1, <2>5
    <3>2. f[j] = SpendInput(f[j - 1], u, block, full, t, j)
          /\ g[j] = SpendInput(g[j - 1], u, block, trusted, t, j)
      BY <2>2, <2>3
    <3>3. PICK x : x = f[j - 1]
      OBVIOUS
    <3>4. LET r == SpendInput(x, u, block, full, t, j)
          IN  DOMAIN r = Fields
              /\ (r = SpendInput(x, u, block, trusted, t, j) \/ Failed(r))
      BY <3>1, <3>3, TrustedInput
    <3>5. Failed(x) => Failed(SpendInput(x, u, block, full, t, j))
      BY <3>1, <3>3, FailedStays
    <3> QED  BY <3>1, <3>2, <3>3, <3>4, <3>5
  <2>6. len \in G
    <3>1. G \in SUBSET (0..len)
      OBVIOUS
    <3> HIDE DEF G
    <3>2. G = 0..len
      BY <2>1, <2>4, <2>5, <3>1, Induct
    <3> QED  BY <2>1, <3>2
  <2>7. DOMAIN f[len] = Fields /\ (f[len] = g[len] \/ Failed(f[len]))
    BY <2>6
  <2>8. SpentBy(s, u, block, full, i) = f[len] /\ SpentBy(s, u, block, trusted, i) = g[len]
    BY <1>2, <2>2, <2>3 DEF SpentBy, t
  <2> QED  BY <2>7, <2>8
<1> QED  BY <1>1, <1>2

(* If the full check finds no error, a trusted block makes the same        *)
(* changes.                                                                *)
LEMMA TrustAgrees ==
  ASSUME NEW u, NEW block \in Seq(TxId), NEW full, Checked(full), NEW trusted, NEW h,
         CommitTxs(u, block, full, h).err = NoError
  PROVE  CommitTxs(u, block, trusted, h) = CommitTxs(u, block, full, h)
<1>1. Len(block) \in Nat
  OBVIOUS
<1>2. PICK f : /\ f[0] = StartBlock(block, h)
               /\ \A i \in 1..Len(block) : f[i] = CommitTx(f[i - 1], u, block, full, i)
               /\ CommitTxs(u, block, full, h)
                    = [err |-> BlockError(f[Len(block)]), e |-> f[Len(block)].e,
                       added |-> f[Len(block)].added, deleted |-> f[Len(block)].deleted]
  BY <1>1, TurnsLoop
<1>3. PICK g : /\ g[0] = StartBlock(block, h)
               /\ \A i \in 1..Len(block) : g[i] = CommitTx(g[i - 1], u, block, trusted, i)
               /\ CommitTxs(u, block, trusted, h)
                    = [err |-> BlockError(g[Len(block)]), e |-> g[Len(block)].e,
                       added |-> g[Len(block)].added, deleted |-> g[Len(block)].deleted]
  BY <1>1, TurnsLoop
<1> DEFINE Ok(x, y) == DOMAIN x = Fields /\ (x = y \/ x.err # NoError)
           G == {i \in 0..Len(block) : Ok(f[i], g[i])}
<1>4. 0 \in G
  <2>1. DOMAIN StartBlock(block, h) = Fields
    BY StartIs
  <2> QED  BY <1>1, <1>2, <1>3, <2>1
<1>5. ASSUME NEW i \in 1..Len(block), i - 1 \in G PROVE i \in G
  <2> DEFINE s == f[i - 1]
             sf == SpentBy(s, u, block, full, i)
             st == SpentBy(s, u, block, trusted, i)
             Rest(x) == IF ~x.scripts THEN [x EXCEPT !.err = "VerifyScripts failed"]
                        ELSE EndTx(AddOutputs(x, block[i]), block[i], i = 1)
  <2>1. DOMAIN s = Fields /\ (s = g[i - 1] \/ s.err # NoError) /\ i \in 0..Len(block)
    BY <1>1, <1>5
  <2>2. f[i] = CommitTx(s, u, block, full, i) /\ g[i] = CommitTx(g[i - 1], u, block, trusted, i)
    BY <1>2, <1>3
  <2>3. CommitTx(s, u, block, full, i)
          = IF s.err # NoError \/ s.stop THEN s ELSE Rest(sf)
    BY TurnIs, Zenon
  <2>4. CommitTx(s, u, block, trusted, i)
          = IF s.err # NoError \/ s.stop THEN s ELSE Rest(st)
    BY TurnIs, Zenon
  <2>5. DOMAIN sf = Fields /\ (sf = st \/ Failed(sf))
    <3> HIDE DEF s
    <3> QED  BY <2>1, TrustedSpent
  <2>6. DOMAIN Rest(sf) = Fields /\ (Failed(sf) => Rest(sf).err # NoError)
    <3> HIDE DEF sf
    <3>1. /\ DOMAIN [sf EXCEPT !.err = "VerifyScripts failed"] = Fields
          /\ [sf EXCEPT !.err = "VerifyScripts failed"].err = "VerifyScripts failed"
      BY <2>5 DEF Fields
    <3>2. OutputsAdded(AddOutputs(sf, block[i]), sf, block[i])
      BY <2>5, AddOutputsIs
    <3>3. DOMAIN AddOutputs(sf, block[i]) = Fields
      BY <3>2 DEF OutputsAdded
    <3>4. TxEnded(EndTx(AddOutputs(sf, block[i]), block[i], i = 1),
                  AddOutputs(sf, block[i]), block[i], i = 1)
      BY <3>3, EndTxIs
    <3>5. DOMAIN EndTx(AddOutputs(sf, block[i]), block[i], i = 1) = Fields
      BY <3>4 DEF TxEnded
    <3>6. "VerifyScripts failed" # NoError
      BY DEF NoError
    <3> QED  BY <3>1, <3>5, <3>6 DEF Failed
  <2> HIDE DEF s, sf, st, Rest
  <2>7. Ok(f[i], g[i])
    BY <2>1, <2>2, <2>3, <2>4, <2>5, <2>6
  <2> QED  BY <2>1, <2>7
<1>6. Len(block) \in G
  <2>1. G \in SUBSET (0..Len(block))
    OBVIOUS
  <2> HIDE DEF G
  <2>2. G = 0..Len(block)
    BY <1>1, <1>4, <1>5, <2>1, Induct
  <2> QED  BY <1>1, <2>2
<1> DEFINE x == f[Len(block)]
           y == g[Len(block)]
<1>7. x = y \/ x.err # NoError
  BY <1>6
<1>8. BlockError(x) = NoError
  BY <1>2
<1>9. x = y
  <2> HIDE DEF x, y
  <2> QED  BY <1>7, <1>8 DEF BlockError
<1> QED  BY <1>2, <1>3, <1>9

(* What a block changes                                                    *)

BlockOuts(block) == UNION {TxOuts(t) : t \in Txs(block)}
BlockIns(block)  == UNION {ToSet(Ins[block[i]]) : i \in 2..Len(block)}

(* An output names its transaction.                                        *)
LEMMA OutsAre ==
  ASSUME NEW block, NEW o \in BlockOuts(block)
  PROVE  o.tx \in Txs(block) /\ o \in TxOuts(o.tx)
<1>1. PICK t \in Txs(block) : o \in TxOuts(t)
  BY DEF BlockOuts
<1>2. o.tx = t
  BY <1>1 DEF TxOuts
<1> QED  BY <1>1, <1>2

(* The block is new to the ledger v: v has no output of its transactions,  *)
(* and each is in it once.                                                 *)
NewTo(v, block) ==
  /\ IsInjective(block)
  /\ \A o \in v : o.tx \notin Txs(block)

(* After n turns: what is taken is an input, from the ledger or of the     *)
(* block's own; what is added is of the block's own, and if the block is   *)
(* new, a transaction adds all of its outputs but those taken, after it or *)
(* before.                                                                 *)
Kept(s, v, block, n) ==
  /\ DOMAIN s = Fields
  /\ s.pool \subseteq BlockOuts(block)
  /\ s.deleted \subseteq v \cup BlockOuts(block) /\ s.deleted \subseteq BlockIns(block)
  /\ s.added \subseteq BlockOuts(block)
  /\ NewTo(v, block) =>
       /\ \A o \in s.deleted : o \in v \/ TurnOver(o.tx, block, n) \/ o \in FromOutside(block)
       /\ \A o \in s.added : TxOuts(o.tx) \subseteq s.added \cup s.deleted \cup FromOutside(block)

(* Only these fields matter. *)
LEMMA KeptSame ==
  ASSUME NEW s, NEW r, NEW v, NEW block, NEW n, Kept(s, v, block, n),
         DOMAIN r = Fields, r.pool = s.pool, r.deleted = s.deleted, r.added = s.added
  PROVE  Kept(r, v, block, n)
  BY DEF Kept

(* An input leaves it that way,                                            *)
LEMMA InputKept ==
  ASSUME NEW v, NEW block \in Seq(TxId), NEW trusted,
         NEW i \in 2..Len(block), NEW j \in DOMAIN Ins[block[i]],
         NEW s, Kept(s, v, block, i - 1)
  PROVE  Kept(SpendInput(s, v, block, trusted, block[i], j), v, block, i - 1)
<1> DEFINE t == block[i]
           o == Ins[t][j]
           err == InputError(s, v, block, o)
           r == SpendInput(s, v, block, trusted, t, j)
           took == TakeInput(s, v, trusted, t, j)
<1>0. DOMAIN s = Fields
  BY DEF Kept
<1>1. r = IF s.e # NoError THEN s ELSE IF err # NoError THEN [s EXCEPT !.e = err] ELSE took
  BY DEF SpendInput
<1>2. Kept([s EXCEPT !.e = err], v, block, i - 1)
  <2> DEFINE f == [s EXCEPT !.e = err]
  <2>1. DOMAIN f = Fields /\ f.pool = s.pool /\ f.deleted = s.deleted /\ f.added = s.added
    BY <1>0 DEF Fields
  <2> HIDE DEF f, err
  <2>2. Kept(f, v, block, i - 1)
    BY <2>1, KeptSame
  <2> QED  BY <2>2 DEF f
<1>3. ASSUME err = NoError PROVE Kept(took, v, block, i - 1)
  <2>1. o \in v \cup s.pool
    BY <1>3 DEF InputError, NoError
  <2>2. Taken(took, s, v, trusted, t, j)
    <3> HIDE DEF t
    <3> QED  BY <1>0, TakeInputIs
  <2> HIDE DEF took
  <2>3. /\ DOMAIN took = Fields /\ took.deleted = s.deleted \cup {o} /\ took.added = s.added
        /\ took.pool \subseteq s.pool
    BY <2>2 DEF Taken
  <2>4. o \in ToSet(Ins[block[i]]) /\ o \in BlockIns(block)
    BY DEF ToSet, BlockIns
  <2>5. o \in v \cup BlockOuts(block)
    BY <2>1 DEF Kept
  <2>6. o \in v \/ TurnOver(o.tx, block, i - 1) \/ o \in FromOutside(block)
    <3> HIDE DEF o
    <3> QED  BY <2>4 DEF TurnOver, FromOutside
  <2> HIDE DEF o, t, err
  <2> QED  BY <2>3, <2>4, <2>5, <2>6 DEF Kept
<1> HIDE DEF r, took, err
<1>4. Kept(r, v, block, i - 1)
  BY <1>1, <1>2, <1>3
<1> QED  BY <1>4 DEF r

(* so do all inputs of a transaction,                                      *)
LEMMA SpentKept ==
  ASSUME NEW v, NEW block \in Seq(TxId), NEW trusted,
         NEW i \in 1..Len(block), NEW s, Kept(s, v, block, i - 1)
  PROVE  Kept(SpentBy(s, v, block, trusted, i), v, block, i - 1)
<1> DEFINE base == [s EXCEPT !.txinsum = 0]
<1>0. Kept(base, v, block, i - 1)
  <2>1. DOMAIN s = Fields
    BY DEF Kept
  <2>2. /\ DOMAIN base = Fields /\ base.pool = s.pool /\ base.deleted = s.deleted
        /\ base.added = s.added
    BY <2>1 DEF Fields
  <2> HIDE DEF base
  <2> QED  BY <2>2, KeptSame
<1>1. CASE i = 1
  BY <1>0, <1>1 DEF SpentBy
<1>2. CASE i # 1
  <2> DEFINE t == block[i]
             len == Len(Ins[t])
  <2>1. t \in TxId /\ i \in 2..Len(block)
    BY <1>2
  <2>2. len \in Nat /\ DOMAIN Ins[t] = 1..len
    BY <2>1, TxAssumption
  <2>3. PICK f : /\ f[0] = base
                 /\ \A j \in 1..len : f[j] = SpendInput(f[j - 1], v, block, trusted, t, j)
                 /\ SpendInputs(s, v, block, trusted, t) = f[len]
    <3> HIDE DEF t
    <3> QED  BY <2>2, InputsLoop DEF len
  <2> DEFINE G == {j \in 0..len : Kept(f[j], v, block, i - 1)}
  <2> HIDE DEF len, base
  <2>4. 0 \in G
    BY <1>0, <2>2, <2>3
  <2>5. ASSUME NEW j \in 1..len, j - 1 \in G PROVE j \in G
    <3>1. Kept(f[j - 1], v, block, i - 1) /\ j \in 0..len /\ j \in DOMAIN Ins[block[i]]
      BY <2>2, <2>5
    <3>2. Kept(SpendInput(f[j - 1], v, block, trusted, block[i], j), v, block, i - 1)
      BY <2>1, <3>1, InputKept
    <3> QED  BY <2>3, <3>1, <3>2
  <2>6. len \in G
    <3>1. G \in SUBSET (0..len)
      OBVIOUS
    <3> HIDE DEF G
    <3>2. G = 0..len
      BY <2>2, <2>4, <2>5, <3>1, Induct
    <3> QED  BY <2>2, <3>2
  <2>7. Kept(f[len], v, block, i - 1)
    BY <2>6
  <2> QED  BY <1>2, <2>3, <2>7 DEF SpentBy
<1> QED  BY <1>1, <1>2

(* its outputs take it one transaction further,                            *)
LEMMA AddedKept ==
  ASSUME NEW v, NEW block \in Seq(TxId), NEW i \in 1..Len(block),
         NEW s, Kept(s, v, block, i - 1)
  PROVE  Kept(EndTx(AddOutputs(s, block[i]), block[i], i = 1), v, block, i)
<1> DEFINE t == block[i]
           a == AddOutputs(s, t)
           r == EndTx(a, t, i = 1)
<1>1. OutputsAdded(a, s, t)
  BY AddOutputsIs DEF Kept
<1>2. TxEnded(r, a, t, i = 1)
  BY <1>1, EndTxIs DEF OutputsAdded
<1>3. t \in Txs(block) /\ \A x \in TxOuts(t) : x.tx = t
  BY DEF Txs, ToSet, TxOuts
<1>4. TxOuts(t) \subseteq BlockOuts(block)
  BY <1>3 DEF BlockOuts
<1>5. \A x : TurnOver(x, block, i - 1) /\ IsInjective(block) => x # t /\ TurnOver(x, block, i)
  <2> TAKE x
  <2> SUFFICES ASSUME TurnOver(x, block, i - 1), IsInjective(block)
               PROVE  x # t /\ TurnOver(x, block, i)
    OBVIOUS
  <2>1. PICK k \in 1..(i - 1) : x = block[k]
    BY DEF TurnOver
  <2>2. k \in DOMAIN block /\ i \in DOMAIN block /\ k # i /\ k \in 1..i
    OBVIOUS
  <2> QED  BY <2>1, <2>2 DEF IsInjective, TurnOver
<1> HIDE DEF a, r, t
<1>6. /\ DOMAIN r = Fields /\ r.pool = s.pool
      /\ r.added = s.added \cup (TxOuts(t) \ s.deleted)
      /\ r.deleted = s.deleted \ TxOuts(t)
  BY <1>1, <1>2 DEF OutputsAdded, TxEnded
<1>7. ASSUME NewTo(v, block)
      PROVE  /\ \A o \in r.deleted : o \in v \/ TurnOver(o.tx, block, i) \/ o \in FromOutside(block)
             /\ \A o \in r.added : TxOuts(o.tx) \subseteq r.added \cup r.deleted \cup FromOutside(block)
  <2>1. \A o \in s.deleted : \/ o \in v \/ o \in FromOutside(block)
                             \/ o.tx # t /\ TurnOver(o.tx, block, i)
    BY <1>5, <1>7 DEF Kept, NewTo
  <2>2. s.deleted \cap TxOuts(t) \subseteq FromOutside(block)
    BY <1>3, <1>7, <2>1 DEF NewTo
  <2>3. /\ s.added \cup TxOuts(t) \subseteq r.added \cup FromOutside(block)
        /\ s.deleted \subseteq r.deleted \cup FromOutside(block)
        /\ s.added \subseteq r.added /\ r.added \subseteq s.added \cup TxOuts(t)
        /\ r.deleted \subseteq s.deleted
    BY <1>6, <2>2
  <2>4. \A o \in s.added : TxOuts(o.tx) \subseteq s.added \cup s.deleted \cup FromOutside(block)
    BY <1>7 DEF Kept
  <2>5. ASSUME NEW o \in r.added
        PROVE  TxOuts(o.tx) \subseteq r.added \cup r.deleted \cup FromOutside(block)
    <3>1. CASE o \in TxOuts(t)
      <4>1. o.tx = t
        BY <1>3, <3>1
      <4> QED  BY <2>3, <4>1
    <3>2. CASE o \in s.added
      <4>1. TxOuts(o.tx) \subseteq s.added \cup s.deleted \cup FromOutside(block)
        BY <2>4, <3>2
      <4> QED  BY <2>3, <4>1
    <3> QED  BY <2>3, <3>1, <3>2
  <2> QED  BY <2>1, <2>3, <2>5
<1>8. Kept(r, v, block, i)
  BY <1>4, <1>6, <1>7 DEF Kept
<1> QED  BY <1>8 DEF r, a, t

(* and so does a turn of the loop.                                         *)
LEMMA TurnKept ==
  ASSUME NEW v, NEW block \in Seq(TxId), NEW trusted,
         NEW i \in 1..Len(block), NEW s, Kept(s, v, block, i - 1)
  PROVE  Kept(CommitTx(s, v, block, trusted, i), v, block, i)
<1> DEFINE p == SpentBy(s, v, block, trusted, i)
           bad == [p EXCEPT !.err = "VerifyScripts failed"]
           r == CommitTx(s, v, block, trusted, i)
<1>1. Kept(p, v, block, i - 1)
  BY SpentKept
<1>2. r = IF s.err # NoError \/ s.stop THEN s ELSE IF ~p.scripts THEN bad
          ELSE EndTx(AddOutputs(p, block[i]), block[i], i = 1)
  BY TurnIs, Zenon
<1>3. ASSUME NEW x, Kept(x, v, block, i - 1) PROVE Kept(x, v, block, i)
  <2>1. \A z : TurnOver(z, block, i - 1) => TurnOver(z, block, i)
    BY DEF TurnOver
  <2> QED  BY <1>3, <2>1 DEF Kept
<1> HIDE DEF p, r
<1>4. Kept(bad, v, block, i)
  <2>1. DOMAIN p = Fields
    BY <1>1 DEF Kept
  <2>2. DOMAIN bad = Fields /\ bad.pool = p.pool /\ bad.deleted = p.deleted
        /\ bad.added = p.added
    BY <2>1 DEF Fields
  <2> HIDE DEF bad
  <2> QED  BY <1>1, <1>3, <2>2, KeptSame
<1>5. Kept(EndTx(AddOutputs(p, block[i]), block[i], i = 1), v, block, i)
  BY <1>1, AddedKept
<1>6. Kept(s, v, block, i)
  BY <1>3
<1> HIDE DEF bad
<1>7. Kept(r, v, block, i)
  BY <1>2, <1>4, <1>5, <1>6
<1> QED  BY <1>7 DEF r

(* What commitTxs answers, for the whole block.                            *)
LEMMA AnswerKept ==
  ASSUME NEW v, NEW block \in Seq(TxId), NEW trusted, NEW h
  PROVE  LET c == CommitTxs(v, block, trusted, h)
         IN  /\ c.deleted \subseteq v \cup BlockOuts(block)
             /\ c.deleted \subseteq BlockIns(block)
             /\ c.added \subseteq BlockOuts(block)
             /\ NewTo(v, block) => \A o \in c.added :
                  TxOuts(o.tx) \subseteq c.added \cup c.deleted \cup FromOutside(block)
<1>1. Len(block) \in Nat
  OBVIOUS
<1>2. PICK f : /\ f[0] = StartBlock(block, h)
               /\ \A i \in 1..Len(block) : f[i] = CommitTx(f[i - 1], v, block, trusted, i)
               /\ CommitTxs(v, block, trusted, h)
                    = [err |-> BlockError(f[Len(block)]), e |-> f[Len(block)].e,
                       added |-> f[Len(block)].added, deleted |-> f[Len(block)].deleted]
  BY <1>1, TurnsLoop
<1> DEFINE G == {i \in 0..Len(block) : Kept(f[i], v, block, i)}
<1>3. 0 \in G
  <2> DEFINE s == StartBlock(block, h)
  <2>1. DOMAIN s = Fields /\ s.pool = BlockOuts(block) /\ s.added = {} /\ s.deleted = {}
    BY StartIs DEF BlockOuts
  <2> HIDE DEF s
  <2>2. Kept(s, v, block, 0)
    BY <2>1 DEF Kept
  <2> QED  BY <1>1, <1>2, <2>2 DEF s
<1>4. ASSUME NEW i \in 1..Len(block), i - 1 \in G PROVE i \in G
  <2>1. Kept(f[i - 1], v, block, i - 1) /\ i \in 0..Len(block)
    BY <1>1, <1>4
  <2>2. Kept(CommitTx(f[i - 1], v, block, trusted, i), v, block, i)
    BY <2>1, TurnKept
  <2> QED  BY <1>2, <2>1, <2>2
<1>5. Len(block) \in G
  <2>1. G \in SUBSET (0..Len(block))
    OBVIOUS
  <2> HIDE DEF G
  <2>2. G = 0..Len(block)
    BY <1>1, <1>3, <1>4, <2>1, Induct
  <2> QED  BY <1>1, <2>2
<1> DEFINE x == f[Len(block)]
           c == CommitTxs(v, block, trusted, h)
<1>6. Kept(x, v, block, Len(block))
  BY <1>5
<1>7. c.added = x.added /\ c.deleted = x.deleted
  BY <1>2
<1> HIDE DEF x, c
<1>8. /\ c.deleted \subseteq v \cup BlockOuts(block)
      /\ c.deleted \subseteq BlockIns(block)
      /\ c.added \subseteq BlockOuts(block)
      /\ NewTo(v, block) => \A o \in c.added :
           TxOuts(o.tx) \subseteq c.added \cup c.deleted \cup FromOutside(block)
  BY <1>6, <1>7 DEF Kept
<1> QED  BY <1>8 DEF c

(* The ledger after each block of the tree                                 *)

KnownOuts == UNION {TxOuts(t) : t \in TxId}

(* The transactions of a block, and its outputs, are of those there are.   *)
LEMMA TxsTyped ==
  ASSUME NEW b \in Block
  PROVE  /\ BlockTxs[b] \in Seq(TxId) /\ Txs(BlockTxs[b]) \subseteq TxId
         /\ BlockOuts(BlockTxs[b]) \subseteq KnownOuts
<1>1. BlockTxs[b] \in Seq(TxId)
  BY ChainAssumption
<1>2. Txs(BlockTxs[b]) \subseteq TxId
  BY <1>1 DEF Txs, ToSet
<1> QED  BY <1>1, <1>2 DEF BlockOuts, KnownOuts

(* It is that of the parent with the changes of the block.                 *)
LEMMA LedgerAfterIs ==
  /\ LedgerAfter[Genesis] = {}
  /\ \A b \in Block \ {Genesis} :
       LedgerAfter[b] = CommitChanges(LedgerAfter[ParentOf[b]], FullCheck(b))
<1> DEFINE Check(b, v) == CommitTxs(v, BlockTxs[b], FALSE, Best!HeightOf[b])
           X == SUBSET KnownOuts
           step == [b \in Block \ {Genesis} |-> [v \in X |-> CommitChanges(v, Check(b, v))]]
           Solves(f) == f = [b \in Block |->
                               IF b = Genesis THEN {}
                               ELSE CommitChanges(f[ParentOf[b]], Check(b, f[ParentOf[b]]))]
<1>1. ASSUME NEW b \in Block \ {Genesis}, NEW v \in X
      PROVE  CommitChanges(v, Check(b, v)) \in X
  <2>1. Check(b, v).added \subseteq BlockOuts(BlockTxs[b])
    BY TxsTyped, AnswerKept
  <2> HIDE DEF Check
  <2> QED  BY <2>1, TxsTyped DEF CommitChanges
<1> HIDE DEF Check
<1>2. step \in [Block \ {Genesis} -> [X -> X]]
  BY <1>1
<1>3. {} \in X
  OBVIOUS
<1>4. PICK f : Along(f, X, {}, step)
  <2> HIDE DEF step, X
  <2> QED  BY <1>2, <1>3, BranchRecursion, Zenon
<1>5. Solves(f)
  <2>1. f \in [Block -> X]
    BY <1>4 DEF Along
  <2>2. \A b \in Block : f[b] = IF b = Genesis THEN {} ELSE step[b][f[ParentOf[b]]]
    BY <1>4, Zenon DEF Along
  <2>3. ASSUME NEW b \in Block
        PROVE  f[b] = IF b = Genesis THEN {}
                      ELSE CommitChanges(f[ParentOf[b]], Check(b, f[ParentOf[b]]))
    <3>1. CASE b = Genesis
      BY <2>2, <3>1
    <3>2. CASE b # Genesis
      <4>1. b \in Block \ {Genesis} /\ f[ParentOf[b]] \in X
        BY <2>1, <3>2, ChainAssumption
      <4>2. step[b][f[ParentOf[b]]] = CommitChanges(f[ParentOf[b]], Check(b, f[ParentOf[b]]))
        <5> HIDE DEF X
        <5> QED  BY <4>1
      <4> HIDE DEF step
      <4> QED  BY <2>2, <3>2, <4>2
    <3> QED  BY <3>1, <3>2
  <2>4. f = [b \in Block |-> f[b]]
    BY <2>1
  <2> QED  BY <2>3, <2>4
<1>6. LedgerAfter = CHOOSE g : Solves(g)
  BY DEF LedgerAfter, Applied, Check
<1>7. Solves(LedgerAfter)
  <2> HIDE DEF Solves
  <2> QED  BY <1>5, <1>6
<1>8. Genesis \in Block
  BY ChainAssumption
<1>9. LedgerAfter[Genesis] = {}
  BY <1>7, <1>8
<1>10. \A b \in Block \ {Genesis} :
         LedgerAfter[b] = CommitChanges(LedgerAfter[ParentOf[b]], Check(b, LedgerAfter[ParentOf[b]]))
  BY <1>7
<1> QED  BY <1>9, <1>10 DEF Check, FullCheck

(* The blocks of a branch are those of the parent's and the block. *)
LEMMA BranchBlocksIs ==
  /\ BranchBlocks[Genesis] = {}
  /\ \A b \in Block \ {Genesis} : BranchBlocks[b] = BranchBlocks[ParentOf[b]] \cup {b}
<1> DEFINE X == SUBSET Block
           step == [b \in Block \ {Genesis} |-> [v \in X |-> v \cup {b}]]
           Solves(f) == f = [b \in Block |-> IF b = Genesis THEN {}
                                             ELSE f[ParentOf[b]] \cup {b}]
<1>2. step \in [Block \ {Genesis} -> [X -> X]]
  OBVIOUS
<1>3. {} \in X
  OBVIOUS
<1>4. PICK f : Along(f, X, {}, step)
  <2> HIDE DEF step, X
  <2> QED  BY <1>2, <1>3, BranchRecursion, Zenon
<1>5. Solves(f)
  <2>1. f \in [Block -> X]
    BY <1>4 DEF Along
  <2>2. \A b \in Block : f[b] = IF b = Genesis THEN {} ELSE step[b][f[ParentOf[b]]]
    BY <1>4, Zenon DEF Along
  <2>3. ASSUME NEW b \in Block
        PROVE  f[b] = IF b = Genesis THEN {} ELSE f[ParentOf[b]] \cup {b}
    <3>1. CASE b = Genesis
      BY <2>2, <3>1
    <3>2. CASE b # Genesis
      <4>1. b \in Block \ {Genesis} /\ f[ParentOf[b]] \in X
        BY <2>1, <3>2, ChainAssumption
      <4>2. step[b][f[ParentOf[b]]] = f[ParentOf[b]] \cup {b}
        <5> HIDE DEF X
        <5> QED  BY <4>1
      <4> HIDE DEF step
      <4> QED  BY <2>2, <3>2, <4>2
    <3> QED  BY <3>1, <3>2
  <2>4. f = [b \in Block |-> f[b]]
    BY <2>1
  <2> QED  BY <2>3, <2>4
<1>6. BranchBlocks = CHOOSE g : Solves(g)
  BY DEF BranchBlocks
<1>7. Solves(BranchBlocks)
  <2> HIDE DEF Solves
  <2> QED  BY <1>5, <1>6
<1>8. Genesis \in Block
  BY ChainAssumption
<1> QED  BY <1>7, <1>8

(* So the transactions of a branch are those of the parent's and those the *)
(* block added.                                                            *)
LEMMA BranchTxsIs ==
  /\ BranchTxs(Genesis) = {}
  /\ \A b \in Block \ {Genesis} : BranchTxs(b) = BranchTxs(ParentOf[b]) \cup TakenTxs(b)
<1>1. BranchTxs(Genesis) = {}
  BY BranchBlocksIs DEF BranchTxs
<1>2. ASSUME NEW b \in Block \ {Genesis}
      PROVE  BranchTxs(b) = BranchTxs(ParentOf[b]) \cup TakenTxs(b)
  <2>1. BranchBlocks[b] = BranchBlocks[ParentOf[b]] \cup {b}
    BY BranchBlocksIs
  <2>2. BranchTxs(b) = UNION {TakenTxs(a) : a \in BranchBlocks[ParentOf[b]] \cup {b}}
    BY <2>1, Zenon DEF BranchTxs
  <2>3. BranchTxs(ParentOf[b]) = UNION {TakenTxs(a) : a \in BranchBlocks[ParentOf[b]]}
    BY DEF BranchTxs
  <2> QED  BY <2>2, <2>3
<1> QED  BY <1>1, <1>2

Valid(b) == FullCheck(b).err = NoError

(* The ledger after b has outputs of its branch alone.                     *)
OfItsBranch(b) == \A o \in LedgerAfter[b] : o \in TxOuts(o.tx) /\ o.tx \in BranchTxs(b)

(* u is the ledger after b, but for outputs undone blocks left behind.     *)
Exact(u, b) ==
  /\ LedgerAfter[b] \subseteq u
  /\ \A o \in u \ LedgerAfter[b] : o \in OwnOutputs /\ o.tx \notin BranchTxs(b)

(* Outputs a block creates and spends itself are among OwnOutputs.         *)
LEMMA OwnAre ==
  /\ \A o \in OwnOutputs : o \in TxOuts(o.tx)
  /\ \A b \in Block \ {Genesis} :
       BlockOuts(BlockTxs[b]) \cap BlockIns(BlockTxs[b]) \subseteq OwnOutputs
<1>1. ASSUME NEW o \in OwnOutputs PROVE o \in TxOuts(o.tx)
  <2>1. PICK b \in Block \ {Genesis} : o \in UNION {TxOuts(t) : t \in ToSet(BlockTxs[b])}
    BY DEF OwnOutputs
  <2> QED  BY <2>1, OutsAre DEF BlockOuts, Txs
<1>2. ASSUME NEW b \in Block \ {Genesis},
             NEW o \in BlockOuts(BlockTxs[b]) \cap BlockIns(BlockTxs[b])
      PROVE  o \in OwnOutputs
  <2>1. PICK i \in 2..Len(BlockTxs[b]) : o \in ToSet(Ins[BlockTxs[b][i]])
    BY DEF BlockIns
  <2>2. BlockTxs[b][i] \in ToSet(BlockTxs[b])
    <3>1. BlockTxs[b] \in Seq(TxId)
      BY TxsTyped
    <3>2. i \in DOMAIN BlockTxs[b]
      BY <3>1
    <3> QED  BY <3>2 DEF ToSet
  <2>3. o \in UNION {TxOuts(t) : t \in ToSet(BlockTxs[b])}
    BY DEF BlockOuts, Txs
  <2>4. o \in UNION {ToSet(Ins[t]) : t \in ToSet(BlockTxs[b])}
    BY <2>1, <2>2
  <2> QED  BY <2>3, <2>4 DEF OwnOutputs
<1> QED  BY <1>1, <1>2

(* The block finds none of the outputs that undone blocks left in u.       *)
NoneFound(u, b) == FromOutside(BlockTxs[b]) \cap (u \ LedgerAfter[ParentOf[b]]) = {}

(* Then it cannot tell u from the ledger of its branch, and if it brings   *)
(* no transaction again, it is new to that.                                *)
LEMMA OrderlyIs ==
  ASSUME NEW b \in Block \ {Genesis}, ~BringsAgain(b), OfItsBranch(ParentOf[b])
  PROVE  /\ \A u : Exact(u, ParentOf[b]) /\ NoneFound(u, b) =>
                     NotTold(u, LedgerAfter[ParentOf[b]], BlockTxs[b])
         /\ IsInjective(BlockTxs[b])
         /\ Valid(b) => /\ NewTo(LedgerAfter[ParentOf[b]], BlockTxs[b])
                        /\ Txs(BlockTxs[b]) \cap BranchTxs(ParentOf[b]) = {}
<1> DEFINE txs == BlockTxs[b]
           P == ParentOf[b]
<1>1. IsInjective(txs)
  BY DEF BringsAgain
<1>2. Valid(b) => Txs(txs) \cap BranchTxs(P) = {}
  BY DEF BringsAgain, Valid
<1>3. ASSUME NEW u, Exact(u, P), NoneFound(u, b) PROVE NotTold(u, LedgerAfter[P], txs)
  <2>1. FromOutside(txs) \cap (u \ LedgerAfter[P]) = {}
    BY <1>3 DEF NoneFound
  <2> HIDE DEF txs, P
  <2>2. ASSUME NEW o \in u \ LedgerAfter[P]
        PROVE  /\ o \in TxOuts(o.tx)
               /\ \A i \in 2..Len(txs) :
                    o \in ToSet(Ins[txs[i]]) => \E k \in 1..(i - 1) : o.tx = txs[k]
    <3>1. o \in OwnOutputs
      BY <1>3 DEF Exact
    <3>2. o \notin FromOutside(txs)
      BY <2>1
    <3> QED  BY <3>1, <3>2, OwnAre DEF FromOutside
  <2> QED  BY <1>3, <2>2 DEF NotTold, Exact
<1>4. ASSUME Valid(b) PROVE NewTo(LedgerAfter[P], txs)
  <2>1. \A o \in LedgerAfter[P] : o.tx \notin Txs(txs)
    BY <1>2, <1>4 DEF OfItsBranch
  <2> HIDE DEF txs, P
  <2> QED  BY <1>1, <2>1 DEF NewTo
<1> QED  BY <1>1, <1>2, <1>3, <1>4

(* A block is judged as on the ledger of its branch alone.                 *)
LEMMA JudgedAsFull ==
  ASSUME NEW b \in Block \ {Genesis}, ~BringsAgain(b), OfItsBranch(ParentOf[b]),
         NEW u, Exact(u, ParentOf[b]), NoneFound(u, b), NEW trusted \in BOOLEAN, trusted => Valid(b)
  PROVE  CommitTxs(u, BlockTxs[b], trusted, Best!HeightOf[b]) = FullCheck(b)
<1>1. BlockTxs[b] \in Seq(TxId)
  BY TxsTyped
<1>2. NotTold(u, LedgerAfter[ParentOf[b]], BlockTxs[b]) /\ IsInjective(BlockTxs[b])
  BY OrderlyIs
<1>3. CommitTxs(u, BlockTxs[b], trusted, Best!HeightOf[b])
        = CommitTxs(LedgerAfter[ParentOf[b]], BlockTxs[b], trusted, Best!HeightOf[b])
  BY <1>1, <1>2, SameAnswer
<1>4. CASE trusted = FALSE
  BY <1>3, <1>4 DEF FullCheck
<1>5. CASE trusted = TRUE
  <2> DEFINE full == FALSE
  <2>1. Checked(full)
    BY DEF Checked
  <2>2. CommitTxs(LedgerAfter[ParentOf[b]], BlockTxs[b], full, Best!HeightOf[b]) = FullCheck(b)
    BY DEF FullCheck
  <2> HIDE DEF full
  <2>3. FullCheck(b).err = NoError
    BY <1>5 DEF Valid
  <2> QED  BY <1>1, <1>3, <2>1, <2>2, <2>3, TrustAgrees
<1> QED  BY <1>4, <1>5

(* A valid block that brings no transaction again.                         *)
Sound(b) == Valid(b) /\ ~BringsAgain(b)

(* One that is committed, and one that is undone.                          *)
LEMMA CommittedExact ==
  ASSUME NEW b \in Block \ {Genesis}, Sound(b), OfItsBranch(ParentOf[b])
  PROVE  /\ OfItsBranch(b)
         /\ \A u : Exact(u, ParentOf[b]) /\ NoneFound(u, b) => Exact(CommitChanges(u, FullCheck(b)), b)
         /\ \A u : Exact(u, b) => Exact(UndoChanges(u, FullCheck(b)), ParentOf[b])
<1> DEFINE txs == BlockTxs[b]
           P == ParentOf[b]
           c == FullCheck(b)
<1>1. NewTo(LedgerAfter[P], txs) /\ Txs(txs) \cap BranchTxs(P) = {}
  BY OrderlyIs DEF Sound
<1>2. /\ c.deleted \subseteq LedgerAfter[P] \cup BlockOuts(txs)
      /\ c.deleted \subseteq BlockIns(txs)
      /\ c.added \subseteq BlockOuts(txs)
      /\ \A o \in c.added : TxOuts(o.tx) \subseteq c.added \cup c.deleted \cup FromOutside(txs)
  <2>1. txs \in Seq(TxId)
    BY TxsTyped
  <2> HIDE DEF txs
  <2> QED  BY <1>1, <2>1, AnswerKept DEF FullCheck, txs
<1>3. LedgerAfter[b] = (LedgerAfter[P] \cup c.added) \ c.deleted
  BY LedgerAfterIs DEF CommitChanges
<1>4. BranchTxs(b) = BranchTxs(P) \cup TakenTxs(b)
  BY BranchTxsIs
<1>5. TakenTxs(b) =
        {t \in Txs(txs) : TxOuts(t) \subseteq c.added \cup c.deleted \cup FromOutside(txs)}
  BY DEF TakenTxs, TakenOf
<1>6. \A o \in BlockOuts(txs) : o.tx \in Txs(txs) /\ o \in TxOuts(o.tx)
  BY OutsAre
<1>7. \A o \in LedgerAfter[P] : o \in TxOuts(o.tx) /\ o.tx \in BranchTxs(P)
  BY DEF OfItsBranch
<1>8. BlockOuts(txs) \cap BlockIns(txs) \subseteq OwnOutputs
  BY OwnAre
<1>9. \A o \in OwnOutputs : o \in TxOuts(o.tx)
  BY OwnAre
<1>13. ASSUME NEW u, NoneFound(u, b)
       PROVE  FromOutside(txs) \cap (u \ LedgerAfter[P]) = {}
  BY <1>13 DEF NoneFound
<1> HIDE DEF txs, P, c
<1>10. OfItsBranch(b)
  BY <1>2, <1>3, <1>4, <1>5, <1>6, <1>7 DEF OfItsBranch
<1>11. ASSUME NEW u, Exact(u, P), NoneFound(u, b) PROVE Exact(CommitChanges(u, c), b)
  <2>1. LedgerAfter[P] \subseteq u
        /\ \A o \in u \ LedgerAfter[P] : o \in OwnOutputs /\ o.tx \notin BranchTxs(P)
    BY <1>11 DEF Exact
  <2>2. ASSUME NEW o \in ((u \cup c.added) \ c.deleted) \ LedgerAfter[b]
        PROVE  o \in OwnOutputs /\ o.tx \notin BranchTxs(b)
    <3>1. o \in u \ LedgerAfter[P] /\ o \notin c.added /\ o \notin c.deleted
      BY <1>3
    <3>2. o \in OwnOutputs /\ o.tx \notin BranchTxs(P) /\ o \in TxOuts(o.tx)
      BY <1>9, <2>1, <3>1
    <3>3. o \notin FromOutside(txs)
      BY <1>11, <1>13, <3>1
    <3>4. o.tx \notin TakenTxs(b)
      BY <1>5, <3>1, <3>2, <3>3
    <3> QED  BY <1>4, <3>2, <3>4
  <2> QED  BY <1>3, <2>1, <2>2 DEF Exact, CommitChanges
<1>12. ASSUME NEW u, Exact(u, b) PROVE Exact(UndoChanges(u, c), P)
  <2>1. LedgerAfter[b] \subseteq u
        /\ \A o \in u \ LedgerAfter[b] : o \in OwnOutputs /\ o.tx \notin BranchTxs(b)
    BY <1>12 DEF Exact
  <2>2. ASSUME NEW o \in LedgerAfter[P] PROVE o \in (u \ c.added) \cup c.deleted
    <3>1. o \notin c.added
      BY <1>1, <1>2, <1>6, <1>7
    <3> QED  BY <1>3, <2>1, <3>1
  <2>3. ASSUME NEW o \in ((u \ c.added) \cup c.deleted) \ LedgerAfter[P]
        PROVE  o \in OwnOutputs /\ o.tx \notin BranchTxs(P)
    <3>1. CASE o \in c.deleted
      BY <1>1, <1>2, <1>6, <1>8, <3>1
    <3>2. CASE o \notin c.deleted
      <4>1. o \in u /\ o \notin LedgerAfter[b]
        BY <1>3, <3>2
      <4> QED  BY <1>4, <2>1, <4>1
    <3> QED  BY <3>1, <3>2
  <2> QED  BY <2>2, <2>3 DEF Exact, UndoChanges
<1> QED  BY <1>10, <1>11, <1>12 DEF c, P
-----------------------------------------------------------------------------
(* The ledger is that of the active chain                                  *)

(* A node hangs below one of its block's parent; a trusted block is valid  *)
(* and brings no transaction again; a node that hangs loose was found      *)
(* invalid; and the records of the active chain are the changes of its     *)
(* blocks.                                                                 *)
ParentsOK == \A n \in DOMAIN tree \ {Root} : Parent(n).block = ParentOf[n.block]
TrustValid == \A b \in DOMAIN blockIdxMap : TrustedIn(blockIdxMap, b) => Sound(b)
LooseInvalid == \A n \in DOMAIN tree \ {Root} : IsChild(n) \/ ~Valid(n.block)
RecordOf(rec, b) == rec.added = FullCheck(b).added /\ rec.deleted = FullCheck(b).deleted
RecordsExact == \A h \in DOMAIN unwind : RecordOf(unwind[h], AncestorAt(BlockTreeEnd, h).block)
Ledger ==
  ParentsOK /\ TrustValid /\ LooseInvalid /\ RecordsExact /\ Exact(utxo, BlockTreeEnd.block)

(* A node has the height of its block.                                     *)
LEMMA NodeBlocks ==
  ASSUME Good, ParentsOK
  PROVE  \A n \in DOMAIN tree :
           /\ n.block \in Block /\ Best!HeightOf[n.block] = Height(n)
           /\ n # Root => n.block \in Block \ {Genesis} /\ Parent(n).block = ParentOf[n.block]
<1>1. ASSUME NEW n \in DOMAIN tree
      PROVE  /\ n.block \in Block
             /\ n # Root => n.block \in Block \ {Genesis} /\ Parent(n).block = ParentOf[n.block]
  BY DEF Good, TreeOK, IsTree, NodeId, IndexOK, ParentsOK
<1> DEFINE G == {n \in DOMAIN tree : Best!HeightOf[n.block] = Height(n)}
<1>2. Root \in G
  BY HeightOfIs DEF Good, TreeOK, IsTree, Root, Height
<1>3. ASSUME NEW n \in DOMAIN tree \ {Root}, tree[n].parent \in G
      PROVE  n \in G
  <2>1. Height(n) = Height(Parent(n)) + 1 /\ Parent(n).block = ParentOf[n.block]
        /\ n.block \in Block \ {Genesis}
    BY <1>1, NodeFacts DEF Good
  <2>2. Best!HeightOf[Parent(n).block] = Height(Parent(n))
    BY <1>3 DEF Parent
  <2> QED  BY <2>1, <2>2, HeightOfIs
<1>4. DOMAIN tree \subseteq G
  <2> HIDE DEF G
  <2> QED  BY <1>2, <1>3, TreeInduction DEF Good, TreeOK
<1> QED  BY <1>1, <1>4

(* The blocks of the active chain are valid, and their ledgers are those   *)
(* of their branches.  So none of them hangs loose.                        *)
LEMMA ActiveFacts ==
  ASSUME Good, ParentsOK, TrustValid, LooseInvalid
  PROVE  /\ BlockTreeEnd \in Attached(tree)
         /\ \A h \in 1..Height(BlockTreeEnd) : Sound(AncestorAt(BlockTreeEnd, h).block)
         /\ \A h \in 0..Height(BlockTreeEnd) : OfItsBranch(AncestorAt(BlockTreeEnd, h).block)
         /\ OfItsBranch(BlockTreeEnd.block)
<1> DEFINE H == Height(BlockTreeEnd)
           A(h) == AncestorAt(BlockTreeEnd, h)
<1>1. /\ BlockTreeEnd \in DOMAIN tree /\ H \in Nat /\ A(H) = BlockTreeEnd
      /\ \A h \in 0..H : A(h) \in DOMAIN tree /\ Height(A(h)) = h
      /\ \A h \in 1..H : Parent(A(h)) = A(h - 1)
  BY NodeFacts DEF Good, ActiveTrusted
<1>2. \A h \in 1..H : Sound(A(h).block)
  BY DEF Good, ActiveTrusted, TrustValid, TrustedIn
<1>3. \A h \in 1..H : A(h) \in DOMAIN tree \ {Root} /\ h - 1 \in 0..H
  <2> TAKE h \in 1..H
  <2> HIDE DEF A, H
  <2>1. h \in 0..H /\ h # 0
    BY <1>1
  <2>2. A(h) \in DOMAIN tree /\ Height(A(h)) # 0
    BY <1>1, <2>1
  <2>3. h - 1 \in 0..H
    BY <1>1
  <2> QED  BY <2>2, <2>3, NodeFacts DEF Good
<1>4. \A h \in 1..H : IsChild(A(h))
  BY <1>2, <1>3 DEF LooseInvalid, Sound
<1>5. BlockTreeEnd \in Attached(tree)
  BY <1>1, <1>4, AttachedIsBelow DEF Good
<1> DEFINE G == {h \in 0..H : OfItsBranch(A(h).block)}
<1>6. 0 \in G
  <2>1. 0 \in 0..H
    BY <1>1
  <2>2. A(0) \in DOMAIN tree /\ Height(A(0)) = 0
    BY <1>1, <2>1
  <2>3. A(0) = Root
    BY <2>2, NodeFacts DEF Good
  <2>4. A(0).block = Genesis
    BY <2>3 DEF Root
  <2>5. OfItsBranch(Genesis)
    BY LedgerAfterIs DEF OfItsBranch
  <2> QED  BY <2>1, <2>4, <2>5
<1>7. \A h \in 1..H : h - 1 \in G => h \in G
  <2> SUFFICES ASSUME NEW h \in 1..H, h - 1 \in G PROVE h \in G
    OBVIOUS
  <2> DEFINE b == A(h).block
  <2>1. b \in Block \ {Genesis} /\ A(h - 1).block = ParentOf[b]
    BY <1>1, <1>3, NodeBlocks
  <2>2. OfItsBranch(ParentOf[b]) /\ Sound(b)
    BY <1>2, <2>1
  <2>3. OfItsBranch(b)
    <3> HIDE DEF b
    <3> QED  BY <2>1, <2>2, CommittedExact
  <2> QED  BY <2>3
<1>8. G = 0..H
  <2>1. G \in SUBSET (0..H)
    OBVIOUS
  <2> HIDE DEF G, H
  <2> QED  BY <1>1, <1>6, <1>7, <2>1, Induct
<1>9. OfItsBranch(A(H).block)
  <2>1. H \in 0..H
    BY <1>1
  <2> QED  BY <1>8, <2>1
<1> QED  BY <1>1, <1>2, <1>5, <1>8, <1>9

(* What ProcessBlockTransactions says of a block on top of the tip is what *)
(* a full check on the ledger of its branch says, unless it goes astray.   *)
LEMMA JudgedOnTip ==
  ASSUME Good, Ledger, NEW n \in DOMAIN tree \ {Root},
         Parent(n) = BlockTreeEnd, ~GoesAstray(n.block), NEW trusted \in BOOLEAN,
         trusted => TrustedIn(blockIdxMap, n.block)
  PROVE  Changes(n, trusted) = FullCheck(n.block)
<1>1. /\ n.block \in Block \ {Genesis} /\ BlockTreeEnd.block = ParentOf[n.block]
      /\ Best!HeightOf[n.block] = Height(n)
  BY NodeBlocks DEF Ledger
<1>2. OfItsBranch(ParentOf[n.block]) /\ Exact(utxo, ParentOf[n.block])
  BY <1>1, ActiveFacts DEF Ledger
<1>3. trusted => Valid(n.block)
  BY DEF Ledger, TrustValid, TrustedIn, Sound
<1>4. ~BringsAgain(n.block) /\ NoneFound(utxo, n.block)
  BY DEF GoesAstray, FindsLeftover, NoneFound
<1> QED  BY <1>1, <1>2, <1>3, <1>4, JudgedAsFull DEF Changes

(* The tip takes a valid block.                                            *)
LEMMA TipTakesLedger ==
  ASSUME Good, Ledger,
         NEW n \in DOMAIN tree \ {Root}, Parent(n) = BlockTreeEnd, ~GoesAstray(n.block),
         NEW changes, changes = FullCheck(n.block), changes.err = NoError,
         CommitBlockTxs(changes, n),
         blockIdxMap' = SetBlock(blockIdxMap, n.block, TRUE),
         BlockTreeEnd' = n, UNCHANGED tree
  PROVE  Ledger'
<1>1. /\ n.block \in Block \ {Genesis} /\ BlockTreeEnd.block = ParentOf[n.block]
      /\ Sound(n.block) /\ NoneFound(utxo, n.block)
  BY NodeBlocks DEF Ledger, Valid, Sound, GoesAstray, FindsLeftover, NoneFound
<1>2. /\ Height(n) = Height(BlockTreeEnd) + 1 /\ Height(BlockTreeEnd) \in Nat
      /\ AncestorAt(n, Height(n)) = n /\ Height(n) \in Nat
      /\ \A h \in 0..Height(BlockTreeEnd) : AncestorAt(n, h) = AncestorAt(BlockTreeEnd, h)
  BY NodeFacts DEF Good, ActiveTrusted
<1>3. /\ \A m : Parent(m)' = Parent(m) /\ IsChild(m)' = IsChild(m)
      /\ \A m, h : AncestorAt(m, h)' = AncestorAt(m, h)
  BY TreeUnchanged DEF Good
<1>4. ParentsOK' /\ LooseInvalid'
  BY <1>3 DEF Ledger, ParentsOK, LooseInvalid
<1>5. TrustValid'
  <2>1. ASSUME NEW b \in DOMAIN blockIdxMap', TrustedIn(blockIdxMap', b) PROVE Sound(b)
    <3>1. CASE b = n.block
      BY <1>1, <3>1
    <3>2. CASE b # n.block
      <4>1. TrustedIn(blockIdxMap, b)
        BY <2>1, <3>2 DEF TrustedIn, SetBlock
      <4> QED  BY <4>1 DEF Ledger, TrustValid, TrustedIn
    <3> QED  BY <3>1, <3>2
  <2> QED  BY <2>1 DEF TrustValid
<1>6. RecordsExact'
  <2> DEFINE H == Height(n)
             rec == UnwindRecord(n.block, changes.added, changes.deleted)
  <2>1. unwind' = Pruned(PutRecord(unwind, H, rec), H)
    BY DEF CommitBlockTxs
  <2>2. RecordOf(rec, n.block)
    BY DEF UnwindRecord, RecordOf
  <2>3. \A h \in DOMAIN unwind : h \in 0..Height(BlockTreeEnd)
    BY DEF Good, LedgerOK
  <2> HIDE DEF rec, H
  <2>4. ASSUME NEW h \in DOMAIN unwind'
        PROVE  (h \in DOMAIN unwind \cup {H}) /\ unwind'[h] = IF h = H THEN rec ELSE unwind[h]
    BY <2>1, <2>4 DEF Pruned, PutRecord, DelRecord
  <2>5. ASSUME NEW h \in DOMAIN unwind'
        PROVE  RecordOf(unwind'[h], AncestorAt(n, h).block)
    <3>1. CASE h = H
      BY <1>2, <2>2, <2>4, <3>1 DEF H
    <3>2. CASE h # H
      <4>1. h \in DOMAIN unwind /\ unwind'[h] = unwind[h]
        BY <2>4, <3>2
      <4>2. AncestorAt(n, h) = AncestorAt(BlockTreeEnd, h)
        BY <1>2, <2>3, <4>1
      <4>3. RecordOf(unwind[h], AncestorAt(BlockTreeEnd, h).block)
        BY <4>1 DEF Ledger, RecordsExact
      <4> QED  BY <4>1, <4>2, <4>3
    <3> QED  BY <3>1, <3>2
  <2> QED  BY <1>3, <2>5 DEF RecordsExact
<1>7. Exact(utxo', n.block)
  <2>1. utxo' = CommitChanges(utxo, FullCheck(n.block))
    BY DEF CommitBlockTxs
  <2>2. OfItsBranch(ParentOf[n.block]) /\ Exact(utxo, ParentOf[n.block])
    BY <1>1, ActiveFacts DEF Ledger
  <2> QED  BY <1>1, <2>1, <2>2, CommittedExact
<1> QED  BY <1>4, <1>5, <1>6, <1>7 DEF Ledger

(* The tip gives its block back.                                           *)
LEMMA TipGivesLedger ==
  ASSUME Good, Ledger, UndoBlock
  PROVE  Ledger'
<1>1. /\ lastBlockHeight \in DOMAIN unwind
      /\ utxo' = UndoChanges(utxo, unwind[lastBlockHeight])
      /\ unwind' = DelRecord(unwind, lastBlockHeight)
      /\ BlockTreeEnd' = Parent(BlockTreeEnd)
      /\ UNCHANGED <<tree, blockIdxMap>>
  BY DEF UndoBlock, UndoPanic, UndoBlockTransactions, treeVars
<1>2. PICK tip : tip = BlockTreeEnd
  OBVIOUS
<1> DEFINE H == lastBlockHeight
           b == tip.block
<1>3. /\ tip \in DOMAIN tree \ {Root} /\ H = Height(tip) /\ H \in 1..H
      /\ AncestorAt(tip, H) = tip
      /\ Height(tip) = Height(Parent(tip)) + 1 /\ Height(Parent(tip)) \in Nat
      /\ Parent(tip) \in DOMAIN tree
      /\ \A h \in 0..Height(Parent(tip)) : AncestorAt(tip, h) = AncestorAt(Parent(tip), h)
  <2>1. tip \in DOMAIN tree /\ H = Height(tip) /\ H \in 1..H
    BY <1>1, <1>2 DEF Good, LedgerOK, ActiveTrusted
  <2>2. tip # Root
    BY <2>1, NodeFacts DEF Good
  <2>3. Parent(tip) \in DOMAIN tree /\ Height(tip) = Height(Parent(tip)) + 1
    BY <2>1, <2>2, NodeFacts DEF Good
  <2> QED  BY <2>1, <2>2, <2>3, NodeFacts DEF Good
<1>4. /\ b \in Block \ {Genesis} /\ Parent(tip).block = ParentOf[b]
      /\ Sound(b) /\ OfItsBranch(ParentOf[b])
  <2>1. b \in Block \ {Genesis} /\ Parent(tip).block = ParentOf[b]
    BY <1>3, NodeBlocks DEF Ledger
  <2>2. Sound(AncestorAt(tip, H).block)
    BY <1>2, <1>3, ActiveFacts DEF Ledger
  <2>3. OfItsBranch(AncestorAt(tip, H - 1).block)
    <3>1. H - 1 \in 0..Height(tip)
      BY <1>3
    <3> QED  BY <1>2, <3>1, ActiveFacts DEF Ledger
  <2>4. Parent(tip) = AncestorAt(tip, H - 1)
    <3>1. Parent(AncestorAt(tip, H)) = AncestorAt(tip, H - 1)
      <4>1. H \in 1..Height(tip)
        BY <1>3
      <4> HIDE DEF H
      <4> QED  BY <1>3, <4>1, NodeFacts DEF Good
    <3> QED  BY <1>3, <3>1
  <2> QED  BY <1>3, <2>1, <2>2, <2>3, <2>4
<1>5. /\ \A m : Parent(m)' = Parent(m) /\ IsChild(m)' = IsChild(m)
      /\ \A m, h : AncestorAt(m, h)' = AncestorAt(m, h)
  BY <1>1, TreeUnchanged DEF Good
<1>6. ParentsOK' /\ LooseInvalid' /\ TrustValid'
  BY <1>1, <1>5 DEF Ledger, ParentsOK, LooseInvalid, TrustValid
<1>7. PICK p : p = Parent(tip)
  OBVIOUS
<1>8. BlockTreeEnd' = p
  BY <1>1, <1>2, <1>7
<1>9. RecordsExact'
  <2>1. ASSUME NEW h \in DOMAIN unwind'
        PROVE  RecordOf(unwind'[h], AncestorAt(p, h).block)
    <3>1. h \in DOMAIN unwind /\ h # H /\ unwind'[h] = unwind[h]
      BY <1>1 DEF DelRecord
    <3>2. h \in 1..H
      BY <3>1 DEF Good, LedgerOK
    <3>3. h \in 0..Height(p)
      BY <1>3, <1>7, <3>1, <3>2
    <3>4. AncestorAt(p, h) = AncestorAt(tip, h)
      BY <1>3, <1>7, <3>3
    <3>5. RecordOf(unwind[h], AncestorAt(tip, h).block)
      BY <1>2, <3>1 DEF Ledger, RecordsExact
    <3> QED  BY <3>1, <3>4, <3>5
  <2>2. \A h : AncestorAt(BlockTreeEnd, h)' = AncestorAt(p, h)
    <3>1. BlockTreeEnd' = p /\ \A h : AncestorAt(p, h)' = AncestorAt(p, h)
      BY <1>5, <1>8
    <3> QED  BY <3>1 DEF AncestorAt, Path
  <2> QED  BY <2>1, <2>2 DEF RecordsExact
<1>10. Exact(utxo', p.block)
  <2>1. RecordOf(unwind[H], b)
    BY <1>1, <1>2, <1>3 DEF Ledger, RecordsExact
  <2>2. utxo' = UndoChanges(utxo, FullCheck(b))
    BY <1>1, <2>1 DEF UndoChanges, RecordOf
  <2>3. Exact(utxo, b)
    BY <1>2 DEF Ledger
  <2> HIDE DEF b
  <2> QED  BY <1>4, <1>7, <2>2, <2>3, CommittedExact
<1> QED  BY <1>6, <1>8, <1>9, <1>10 DEF Ledger

(* While the tip, its records and the unspent outputs stay, and so do the  *)
(* nodes below the tip, the ledger does.                                   *)
LEMMA RecordsKept ==
  ASSUME Ledger, UNCHANGED <<BlockTreeEnd, unwind, utxo>>,
         \A m, h : m = BlockTreeEnd => AncestorAt(m, h)' = AncestorAt(m, h)
  PROVE  RecordsExact' /\ Exact(utxo, BlockTreeEnd.block)'
<1>1. PICK tip : tip = BlockTreeEnd
  OBVIOUS
<1>2. tip = BlockTreeEnd' /\ \A h : AncestorAt(tip, h)' = AncestorAt(tip, h)
  BY <1>1
<1>3. \A h : AncestorAt(BlockTreeEnd, h)' = AncestorAt(BlockTreeEnd, h)
  BY <1>1, <1>2 DEF AncestorAt, Path
<1>4. RecordsExact'
  BY <1>3 DEF Ledger, RecordsExact
<1>5. Exact(utxo', BlockTreeEnd'.block)
  BY DEF Ledger
<1> QED  BY <1>4, <1>5

(* A block arrives.                                                        *)
LEMMA AcceptLedger ==
  ASSUME Good, Ledger, NEW b \in Block \ {Genesis}, AcceptBlock(b)
  PROVE  Ledger'
<1>1. PICK n, parent : n = NewId(b) /\ parent = BlockIndex[ParentOf[b]]
  OBVIOUS
<1>2. /\ n.block = b /\ parent.block = ParentOf[b]
      /\ DOMAIN tree' = DOMAIN tree \cup {n} /\ n \notin DOMAIN tree
      /\ \A m \in DOMAIN tree : Parent(m)' = Parent(m)
      /\ Parent(n)' = parent
      /\ \A m \in DOMAIN tree : \A h : AncestorAt(m, h)' = AncestorAt(m, h)
      /\ \A m \in DOMAIN tree \ {Root} : IsChild(m)' <=> IsChild(m)
      /\ IsChild(n)'
  <2>1. Grown(b, n, parent)
    BY <1>1, NodeAdded
  <2> QED  BY <2>1 DEF Grown
<1>3. /\ UNCHANGED <<BlockTreeEnd, unwind, utxo>>
      /\ blockIdxMap' = blockIdxMap \/ blockIdxMap' = SetBlock(blockIdxMap, b, FALSE)
  BY DEF AcceptBlock, ledgerVars
<1>4. ParentsOK'
  <2>1. ASSUME NEW m \in DOMAIN tree' \ {Root} PROVE Parent(m)'.block = ParentOf[m.block]
    <3>1. CASE m = n
      BY <1>2, <3>1
    <3>2. CASE m # n
      BY <1>2, <3>2 DEF Ledger, ParentsOK
    <3> QED  BY <3>1, <3>2
  <2> QED  BY <2>1 DEF ParentsOK
<1>5. LooseInvalid'
  <2>1. ASSUME NEW m \in DOMAIN tree' \ {Root} PROVE IsChild(m)' \/ ~Valid(m.block)
    <3>1. CASE m = n
      BY <1>2, <3>1
    <3>2. CASE m # n
      BY <1>2, <3>2 DEF Ledger, LooseInvalid
    <3> QED  BY <3>1, <3>2
  <2> QED  BY <2>1 DEF LooseInvalid
<1>6. TrustValid'
  <2>1. CASE blockIdxMap' = blockIdxMap
    BY <2>1 DEF Ledger, TrustValid
  <2>2. CASE blockIdxMap' = SetBlock(blockIdxMap, b, FALSE)
    <3>1. ASSUME NEW c \in DOMAIN blockIdxMap', TrustedIn(blockIdxMap', c) PROVE Sound(c)
      <4>1. c # b /\ TrustedIn(blockIdxMap, c)
        BY <2>2, <3>1 DEF TrustedIn, SetBlock
      <4> QED  BY <4>1 DEF Ledger, TrustValid, TrustedIn
    <3> QED  BY <3>1 DEF TrustValid
  <2> QED  BY <1>3, <2>1, <2>2
<1>7. RecordsExact' /\ Exact(utxo, BlockTreeEnd.block)'
  BY <1>2, <1>3, RecordsKept DEF Good, ActiveTrusted
<1> QED  BY <1>4, <1>5, <1>6, <1>7 DEF Ledger

(* The node of an invalid block on top of the tip goes.                    *)
LEMMA RemovedLedger ==
  ASSUME Good, Ledger, NEW n, Removed(n), ~Valid(n.block), UNCHANGED <<unwind, utxo>>
  PROVE  Ledger'
<1>1. /\ DOMAIN tree' \subseteq DOMAIN tree
      /\ \A m \in DOMAIN tree' : Parent(m)' = Parent(m)
      /\ \A m \in DOMAIN tree' \ {Root} : IsChild(m)' <=> IsChild(m) /\ m # n
      /\ \A m \in DOMAIN tree \ {n} : \A h : AncestorAt(m, h)' = AncestorAt(m, h)
  BY ChildRemoved DEF Good
<1>2. ParentsOK' /\ LooseInvalid'
  BY <1>1 DEF Ledger, ParentsOK, LooseInvalid
<1>3. TrustValid'
  BY DEF Ledger, TrustValid, TrustedIn, DropBlock, Removed
<1>4. BlockTreeEnd \in DOMAIN tree \ {n}
  <2>1. Height(n) = Height(BlockTreeEnd) + 1 /\ Height(BlockTreeEnd) \in Nat
    BY NodeFacts DEF Good, ActiveTrusted, Removed
  <2> QED  BY <2>1 DEF Good, ActiveTrusted
<1>5. RecordsExact' /\ Exact(utxo, BlockTreeEnd.block)'
  BY <1>1, <1>4, RecordsKept DEF Removed
<1> QED  BY <1>2, <1>3, <1>5 DEF Ledger

(* It is the block that extends the tip,                                   *)
LEMMA RefuseLedger ==
  ASSUME Good, Ledger, RefuseTip, ~astray'
  PROVE  Ledger'
<1>1. Changes(cur, FALSE).err # NoError /\ UNCHANGED <<unwind, utxo>>
  BY DEF RefuseTip, ledgerVars
<1>2. PICK n : n = cur
  OBVIOUS
<1>3. Removed(n) /\ ~GoesAstray(n.block)
  BY <1>2, RefuseRemoves DEF RefuseTip, Processed
<1> DEFINE full == FALSE
<1>4. full \in BOOLEAN /\ (full => TrustedIn(blockIdxMap, n.block))
      /\ Changes(n, full).err # NoError
  BY <1>1, <1>2
<1> HIDE DEF full
<1>5. Changes(n, full) = FullCheck(n.block)
  BY <1>3, <1>4, JudgedOnTip DEF Removed
<1>6. ~Valid(n.block)
  BY <1>4, <1>5 DEF Valid
<1> QED  BY <1>1, <1>3, <1>6, RemovedLedger

(* or the next one on the way.                                             *)
LEMMA DeleteLedger ==
  ASSUME Good, Ledger, DeleteBranch, ~astray'
  PROVE  Ledger'
<1>1. /\ Nxt.block \in DOMAIN blockIdxMap /\ ~blockIdxMap[Nxt.block]
      /\ Changes(Nxt, blockIdxMap[Nxt.block]).err # NoError
      /\ UNCHANGED <<unwind, utxo>>
  BY Zenon DEF DeleteBranch, Fetched, ledgerVars, NextChanges
<1>2. PICK n, trusted : n = Nxt /\ trusted = blockIdxMap[Nxt.block]
  OBVIOUS
<1>3. Removed(n) /\ ~GoesAstray(n.block)
  BY <1>2, DeleteRemoves DEF DeleteBranch, Processed
<1>4. trusted \in BOOLEAN
  <2>1. blockIdxMap \in [DOMAIN blockIdxMap -> BOOLEAN] /\ n.block \in DOMAIN blockIdxMap
        /\ trusted = blockIdxMap[n.block]
    BY <1>1, <1>2 DEF Good, IndexOK
  <2> QED  BY <2>1, Zenon
<1>5. Changes(n, trusted).err # NoError /\ ~trusted
  BY <1>1, <1>2, Zenon
<1>6. trusted => TrustedIn(blockIdxMap, n.block)
  BY <1>5
<1>7. Changes(n, trusted) = FullCheck(n.block)
  BY <1>3, <1>4, <1>6, JudgedOnTip DEF Removed
<1>8. ~Valid(n.block)
  BY <1>5, <1>7, Zenon DEF Valid
<1> QED  BY <1>1, <1>3, <1>8, RemovedLedger

(* A block extends the tip, when it arrives                                *)
LEMMA ExtendLedger ==
  ASSUME Good, Ledger, ExtendTip, ~astray'
  PROVE  Ledger'
<1>1. /\ pc = "extend" /\ BlockTreeEnd' = cur /\ UNCHANGED tree
      /\ Changes(cur, FALSE).err = NoError
      /\ CommitBlockTxs(Changes(cur, FALSE), cur)
      /\ blockIdxMap' = SetBlock(blockIdxMap, cur.block, TRUE)
  BY DEF ExtendTip, treeVars
<1>2. PICK n : n = cur
  OBVIOUS
<1>3. n \in DOMAIN tree \ {Root} /\ Parent(n) = BlockTreeEnd /\ ~GoesAstray(n.block)
  BY <1>1, <1>2 DEF Good, CallOK, ExtendTip, Processed
<1> DEFINE full == FALSE
<1>4. full \in BOOLEAN /\ (full => TrustedIn(blockIdxMap, n.block))
      /\ Changes(n, full).err = NoError /\ CommitBlockTxs(Changes(n, full), n)
  BY <1>1, <1>2
<1> HIDE DEF full
<1>5. PICK changes : changes = Changes(n, full)
  OBVIOUS
<1>6. changes = FullCheck(n.block)
  BY <1>3, <1>4, <1>5, JudgedOnTip
<1> QED  BY <1>1, <1>2, <1>3, <1>4, <1>5, <1>6, TipTakesLedger

(* or when the chain moves to it.                                          *)
LEMMA ParseLedger ==
  ASSUME Good, Ledger, ParseBlock, ~astray'
  PROVE  Ledger'
<1>1. /\ pc = "parse" /\ WayFound /\ Nxt.block \in DOMAIN blockIdxMap
      /\ Changes(Nxt, blockIdxMap[Nxt.block]).err = NoError
      /\ CommitBlockTxs(Changes(Nxt, blockIdxMap[Nxt.block]), Nxt)
      /\ blockIdxMap' = SetBlock(blockIdxMap, Nxt.block, TRUE)
      /\ BlockTreeEnd' = Nxt /\ UNCHANGED tree
  BY Zenon DEF ParseBlock, Fetched, WayFound, NextChanges, treeVars
<1>2. PICK n, trusted : n = Nxt /\ trusted = blockIdxMap[Nxt.block]
  OBVIOUS
<1>3. n \in DOMAIN tree \ {Root} /\ Parent(n) = BlockTreeEnd
  BY <1>1, <1>2, NextNode
<1>10. ~GoesAstray(n.block)
  BY <1>2, Zenon DEF ParseBlock, Processed
<1>4. trusted \in BOOLEAN
  <2>1. blockIdxMap \in [DOMAIN blockIdxMap -> BOOLEAN] /\ n.block \in DOMAIN blockIdxMap
        /\ trusted = blockIdxMap[n.block]
    BY <1>1, <1>2 DEF Good, IndexOK
  <2> QED  BY <2>1, Zenon
<1>5. trusted => TrustedIn(blockIdxMap, n.block)
  BY <1>1, <1>2, <1>4, Zenon DEF TrustedIn
<1>6. PICK changes : changes = Changes(n, trusted)
  OBVIOUS
<1>7. changes = FullCheck(n.block)
  BY <1>3, <1>10, <1>4, <1>5, <1>6, JudgedOnTip
<1>8. changes.err = NoError /\ CommitBlockTxs(changes, n)
  BY <1>1, <1>2, <1>6
<1>9. blockIdxMap' = SetBlock(blockIdxMap, n.block, TRUE) /\ BlockTreeEnd' = n /\ UNCHANGED tree
  BY <1>1, <1>2
<1> QED  BY <1>3, <1>10, <1>7, <1>8, <1>9, TipTakesLedger

(* Nothing of it changes.                                                  *)
LEMMA LedgerStays ==
  ASSUME Good, Ledger, UNCHANGED <<tree, BlockTreeEnd, blockIdxMap, unwind, utxo>>
  PROVE  Ledger'
<1>1. /\ \A m : Parent(m)' = Parent(m) /\ IsChild(m)' = IsChild(m)
      /\ \A m, h : AncestorAt(m, h)' = AncestorAt(m, h)
  BY TreeUnchanged DEF Good
<1>2. ParentsOK' /\ TrustValid' /\ LooseInvalid'
  BY <1>1 DEF Ledger, ParentsOK, TrustValid, LooseInvalid
<1>3. RecordsExact' /\ Exact(utxo, BlockTreeEnd.block)'
  BY <1>1, RecordsKept
<1> QED  BY <1>2, <1>3 DEF Ledger

(* A trusted block passes when it is parsed again.                         *)
LEMMA TrustedPasses ==
  ASSUME Good, Ledger, CallPanics, ~astray'
  PROVE  pc' # "if block is trusted, how can be invalid"
<1> DEFINE Bad == "if block is trusted, how can be invalid"
<1>1. pc' = CallPanic /\ CallPanic # ""
  BY Zenon DEF CallPanics, Panic
<1>2. \/ pc = "extend" /\ CallPanic = ExtendPanic
      \/ pc = "undo" /\ BlockTreeEnd # cur /\ CallPanic = UndoPanic(BlockTreeEnd)
      \/ pc = "parse" /\ BlockTreeEnd # dst /\ CallPanic = ParsePanic
  BY <1>1, Zenon DEF CallPanic
<1>3. CASE pc = "extend" /\ CallPanic = ExtendPanic
  BY <1>1, <1>3, ExtendHasNoPanic, Zenon
<1>4. CASE pc = "undo" /\ BlockTreeEnd # cur /\ CallPanic = UndoPanic(BlockTreeEnd)
  <2>1. CallPanic \in {"", "Parent data not found"}
    BY <1>4, UndoPanics, Zenon
  <2> QED  BY <1>1, <2>1
<1>5. CASE pc = "parse" /\ BlockTreeEnd # dst /\ CallPanic = ParsePanic
  <2> SUFFICES ASSUME CallPanic = Bad PROVE FALSE
    BY <1>1
  <2>1. PICK n, trusted : n = Nxt /\ trusted = blockIdxMap[Nxt.block]
    OBVIOUS
  <2>2. /\ WayFound /\ n.block \in DOMAIN blockIdxMap
        /\ Changes(n, trusted).err # NoError
    <3>1. NextPanic(BlockTreeEnd, dst) \in {"", "End block is not higher then current",
                                            "Unknown path to block", "nil pointer"}
      BY Zenon DEF NextPanic
    <3>2. NextPanic(BlockTreeEnd, dst) # Bad
      BY <3>1
    <3>3. WayFound
      BY <1>5, <3>2, Zenon DEF ParsePanic, WayFound
    <3>4. ParsePanic = IF Nxt.block \notin DOMAIN blockIdxMap THEN "Db.BlockGet"
                       ELSE IF NextChanges.err = NoError
                         THEN IF CommitPanics(Nxt) THEN "Unexpected height" ELSE ""
                       ELSE IF ~IsChild(Nxt) THEN "index out of range"
                       ELSE IF blockIdxMap[Nxt.block] THEN Bad ELSE ""
      BY <3>3, Zenon DEF ParsePanic, WayFound
    <3>5. "Db.BlockGet" # Bad /\ "Unexpected height" # Bad /\ "" # Bad
      OBVIOUS
    <3> HIDE DEF Bad
    <3>6. Nxt.block \in DOMAIN blockIdxMap
      BY <1>5, <3>4, <3>5, Zenon
    <3>7. NextChanges.err # NoError
      BY <1>5, <3>4, <3>5, <3>6, Zenon
    <3> QED  BY <2>1, <3>3, <3>6, <3>7, Zenon DEF NextChanges
  <2>3. trusted
    <3>1. ParsePanic \in {"Db.BlockGet", "Unexpected height", "", "index out of range"} \/ trusted
      <4>1. ParsePanic = IF Nxt.block \notin DOMAIN blockIdxMap THEN "Db.BlockGet"
                         ELSE IF NextChanges.err = NoError
                           THEN IF CommitPanics(Nxt) THEN "Unexpected height" ELSE ""
                         ELSE IF ~IsChild(Nxt) THEN "index out of range"
                         ELSE IF blockIdxMap[Nxt.block] THEN Bad ELSE ""
        BY <2>2, Zenon DEF ParsePanic, WayFound
      <4> HIDE DEF Bad
      <4> QED  BY <2>1, <4>1, Zenon
    <3> QED  BY <1>5, <3>1
  <2>4. n \in DOMAIN tree \ {Root} /\ Parent(n) = BlockTreeEnd
    BY <1>5, <2>1, <2>2, NextNode
  <2>5. trusted \in BOOLEAN
    <3>1. blockIdxMap \in [DOMAIN blockIdxMap -> BOOLEAN] /\ trusted = blockIdxMap[n.block]
      BY <2>1 DEF Good, IndexOK
    <3> QED  BY <2>2, <3>1, Zenon
  <2>6. TrustedIn(blockIdxMap, n.block)
    BY <2>1, <2>2, <2>3, <2>5, Zenon DEF TrustedIn
  <2>7. ~GoesAstray(n.block)
    <3>1. Fetched /\ pc # "extend"
      BY <1>5, <2>1, <2>2 DEF Fetched, WayFound
    <3> QED  BY <2>1, <3>1, Zenon DEF CallPanics, Processed
  <2>8. Changes(n, trusted) = FullCheck(n.block)
    BY <2>4, <2>5, <2>6, <2>7, JudgedOnTip
  <2>9. Valid(n.block)
    BY <2>2, <2>6 DEF Ledger, TrustValid, Sound
  <2> QED  BY <2>2, <2>8, <2>9, Zenon DEF Valid
<1> QED  BY <1>2, <1>3, <1>4, <1>5

LedgerInv ==
  /\ astray \in BOOLEAN
  /\ ~astray =>
       /\ pc # "if block is trusted, how can be invalid"
       /\ pc \notin Panics => Ledger

(* What went astray stays so.                                              *)
LEMMA AstrayStays ==
  astray \in BOOLEAN /\ [Next]_vars => astray' \in BOOLEAN /\ (~astray' => ~astray)
BY Zenon DEF vars, Next, CallStep, AcceptBlock, ExtendTip, RefuseTip, UndoBlock, StartParse,
   ParseBlock, DeleteBranch, Retarget, ParseReturns, CallPanics, SyncAll, Processed

(* At the start the ledger is empty.                                       *)
LEMMA InitLedger == Init => LedgerInv
<1> SUFFICES ASSUME Init PROVE LedgerInv
  OBVIOUS
<1>1. DOMAIN tree = {Root} /\ DOMAIN blockIdxMap = {} /\ DOMAIN unwind = {}
      /\ pc = "idle" /\ BlockTreeEnd = Root /\ utxo = {} /\ astray = FALSE
  BY DEF Init, EmptyDB
<1>2. ParentsOK /\ TrustValid /\ LooseInvalid /\ RecordsExact
  BY <1>1 DEF ParentsOK, TrustValid, LooseInvalid, RecordsExact
<1>3. Exact(utxo, BlockTreeEnd.block)
  BY <1>1, LedgerAfterIs DEF Exact, Root
<1> QED  BY <1>1, <1>2, <1>3 DEF LedgerInv, Ledger

(* Every step preserves the invariant of the ledger.                       *)
LEMMA NextLedger ==
  ASSUME ChainInv, LedgerInv, [Next]_vars
  PROVE  LedgerInv'
<1> SUFFICES ASSUME ~astray' PROVE LedgerInv'
  BY AstrayStays DEF LedgerInv
<1>3. ~astray /\ astray' \in BOOLEAN
  BY AstrayStays DEF LedgerInv
<1>1. CASE pc \in Panics
  <2>1. pc' = pc
    BY <1>1, PanicsStay DEF vars, callVars
  <2> QED  BY <1>1, <1>3, <2>1 DEF LedgerInv
<1>2. CASE pc \notin Panics
  <2>1. Good /\ Ledger
    BY <1>2, <1>3 DEF ChainInv, LedgerInv
  <2>2. "if block is trusted, how can be invalid" \in Panics
    BY DEF Panics
  <2>3. ASSUME Ledger', pc' \notin Panics PROVE LedgerInv'
    BY <1>3, <2>2, <2>3 DEF LedgerInv
  <2>4. {"idle", "extend", "undo", "parse", "retarget"} \cap Panics = {}
    BY DEF Panics
  <2>5. ASSUME NEW b \in Block \ {Genesis}, AcceptBlock(b) PROVE LedgerInv'
    BY <2>1, <2>3, <2>4, <2>5, AcceptKeeps, AcceptLedger
  <2>6. CASE ExtendTip
    BY <2>1, <2>3, <2>4, <2>6, ExtendKeeps, ExtendLedger
  <2>7. CASE RefuseTip
    BY <2>1, <2>3, <2>4, <2>7, RefuseKeeps, RefuseLedger
  <2>8. CASE UndoBlock
    BY <2>1, <2>3, <2>4, <2>8, UndoKeeps, TipGivesLedger
  <2>9. CASE StartParse
    <3>1. Ledger'
      BY <2>1, <2>9, LedgerStays DEF StartParse, treeVars, ledgerVars
    <3> QED  BY <2>1, <2>3, <2>4, <2>9, <3>1, StartParseKeeps
  <2>10. CASE ParseBlock
    BY <2>1, <2>3, <2>4, <2>10, ParseKeeps, ParseLedger
  <2>11. CASE DeleteBranch
    BY <2>1, <2>3, <2>4, <2>11, DeleteKeeps, DeleteLedger
  <2>12. CASE Retarget
    <3>1. Ledger'
      BY <2>1, <2>12, LedgerStays DEF Retarget, treeVars, ledgerVars
    <3> QED  BY <2>1, <2>3, <2>4, <2>12, <3>1, RetargetKeeps
  <2>13. CASE ParseReturns
    <3>1. Ledger'
      BY <2>1, <2>13, LedgerStays DEF ParseReturns, treeVars, ledgerVars
    <3> QED  BY <2>1, <2>3, <2>4, <2>13, <3>1, ReturnKeeps
  <2>14. CASE SyncAll
    <3>1. Ledger'
      BY <2>1, <2>14, LedgerStays DEF SyncAll, treeVars, ledgerVars
    <3> QED  BY <2>1, <2>3, <2>4, <2>14, <3>1, SyncKeeps
  <2>15. CASE CallPanics
    BY <2>1, <2>15, <1>3, PanicKeeps, TrustedPasses DEF LedgerInv
  <2>16. CASE UNCHANGED vars
    <3>1. Ledger' /\ pc' = pc
      BY <2>1, <2>16, LedgerStays DEF vars, treeVars, ledgerVars, callVars
    <3> QED  BY <1>2, <2>3, <3>1
  <2> QED  BY <2>5, <2>6, <2>7, <2>8, <2>9, <2>10, <2>11, <2>12, <2>13, <2>14, <2>15, <2>16
           DEF Next, CallStep
<1> QED  BY <1>1, <1>2

(* What the invariant says of the ledger and of the active chain.          *)
LEMMA LedgerSays ==
  ASSUME ChainInv, LedgerInv
  PROVE  LedgerIsReplay /\ ActiveChainValid
<1>1. LedgerIsReplay
  BY DEF LedgerInv, Ledger, Exact, LedgerIsReplay
<1>2. ASSUME ~astray, pc \notin Panics, NEW i \in DOMAIN Active
      PROVE  FullCheck(Active[i].block).err = NoError /\ blockIdxMap[Active[i].block]
  <2>1. Good /\ Ledger
    BY <1>2 DEF ChainInv, LedgerInv
  <2> DEFINE tip == BlockTreeEnd
             path == Path(tip)
  <2>2. tip \in DOMAIN tree /\ Height(tip) \in Nat
        /\ path \in Seq(DOMAIN tree) /\ Len(path) = Height(tip) + 1
    BY <2>1, PathShape, NodeFacts DEF Good, ActiveTrusted, TreeOK, Height, Path
  <2>3. Active = Tail(path)
    BY DEF Active
  <2> HIDE DEF path, tip
  <2>4. i \in 1..Height(tip) /\ Active[i] = path[i + 1]
    BY <2>2, <2>3
  <2>5. Active[i] = AncestorAt(tip, i)
    BY <2>4 DEF AncestorAt, path
  <2>6. Valid(AncestorAt(tip, i).block)
    BY <2>1, <2>4, ActiveFacts DEF Ledger, tip, Sound
  <2>7. TrustedIn(blockIdxMap, AncestorAt(tip, i).block)
    BY <2>1, <2>4 DEF Good, ActiveTrusted, tip
  <2>8. blockIdxMap[Active[i].block]
    BY <2>5, <2>7, Zenon DEF TrustedIn
  <2> QED  BY <2>5, <2>6, <2>8 DEF Valid
<1>3. ActiveChainValid
  BY <1>2 DEF LedgerInv, ActiveChainValid
<1> QED  BY <1>1, <1>3

(* Until a block goes astray, the unspent outputs are at any step of any   *)
(* reorganisation those of the active chain, applied from the genesis      *)
(* block (but for outputs a block creates and spends itself), whatever the *)
(* blocks are and in whatever order they come.                             *)
THEOREM LedgerReplays == Spec => []LedgerIsReplay
<1>1. ChainInv /\ LedgerInv => LedgerIsReplay
  BY LedgerSays
<1>2. Init => LedgerInv
  BY InitLedger
<1>3. ChainInv /\ LedgerInv /\ [Next]_vars => LedgerInv'
  BY NextLedger
<1> QED  BY <1>1, <1>2, <1>3, ChainInvariant, PTL DEF Spec

(* Until then no block is on the active chain, trusted or not, that would  *)
(* fail a full check, and a trusted block passes when it is parsed again.  *)
THEOREM OnlyValidBlocks == Spec => []ActiveChainValid
<1>1. ChainInv /\ LedgerInv => ActiveChainValid
  BY LedgerSays
<1>2. Init => LedgerInv
  BY InitLedger
<1>3. ChainInv /\ LedgerInv /\ [Next]_vars => LedgerInv'
  BY NextLedger
<1> QED  BY <1>1, <1>2, <1>3, ChainInvariant, PTL DEF Spec
-----------------------------------------------------------------------------
(* The nodes attached                                                      *)

IsChildIn(t, n) == n \in ToSet(t[t[n].parent].children)

(* The children lead to a node if they lead to its parent, and it is one   *)
(* of its parent's.                                                        *)
LEMMA AttachedStep ==
  ASSUME NEW t, IsTree(t), Bounded(t), NEW n \in DOMAIN t
  PROVE  n \in Attached(t) <=> n = Root \/ (IsChildIn(t, n) /\ t[n].parent \in Attached(t))
<1>1. n \in Attached(t) <=> \A m \in ToSet(PathIn(t, n)) \ {Root} : IsChildIn(t, m)
  BY DEF Attached, IsChildIn
<1>2. CASE n = Root
  <2>1. PathIn(t, n) = <<Root>>
    BY <1>2, PathStep
  <2>2. ToSet(<<Root>>) = {Root}
    BY DEF ToSet
  <2> QED  BY <1>1, <1>2, <2>1, <2>2
<1>3. CASE n # Root
  <2> DEFINE p == t[n].parent
  <2>1. p \in DOMAIN t
    BY <1>3 DEF IsTree
  <2>2. PathIn(t, n) = Append(PathIn(t, p), n) /\ PathIn(t, p) \in Seq(DOMAIN t)
    BY <1>3, <2>1, PathStep, PathShape
  <2>3. ToSet(PathIn(t, n)) = ToSet(PathIn(t, p)) \cup {n}
    <3> HIDE DEF p
    <3>1. \A s \in Seq(DOMAIN t) : ToSet(Append(s, n)) = ToSet(s) \cup {n}
      <4> TAKE s \in Seq(DOMAIN t)
      <4>1. /\ DOMAIN Append(s, n) = 1..(Len(s) + 1) /\ DOMAIN s = 1..Len(s) /\ Len(s) \in Nat
            /\ \A i \in 1..Len(s) : Append(s, n)[i] = s[i]
            /\ Append(s, n)[Len(s) + 1] = n
        OBVIOUS
      <4>2. \A i \in 1..(Len(s) + 1) : i \in 1..Len(s) \/ i = Len(s) + 1
        BY <4>1
      <4>3. \A i \in 1..Len(s) : i \in 1..(Len(s) + 1)
        BY <4>1
      <4>4. Len(s) + 1 \in 1..(Len(s) + 1)
        BY <4>1
      <4> QED  BY <4>1, <4>2, <4>3, <4>4 DEF ToSet
    <3> QED  BY <2>2, <3>1
  <2>4. p \in Attached(t) <=> \A m \in ToSet(PathIn(t, p)) \ {Root} : IsChildIn(t, m)
    BY <2>1 DEF Attached, IsChildIn
  <2> HIDE DEF p
  <2>5. n \in Attached(t) <=> IsChildIn(t, n) /\ p \in Attached(t)
    BY <1>1, <1>3, <2>3, <2>4
  <2> QED  BY <1>3, <2>5 DEF p
<1> QED  BY <1>2, <1>3

(* And they lead to all of its ancestors.                                  *)
LEMMA AncestorsAttached ==
  ASSUME NEW t, IsTree(t), Bounded(t), NEW n \in Attached(t)
  PROVE  n \in DOMAIN t /\ \A h \in 0..t[n].height : PathIn(t, n)[h + 1] \in Attached(t)
<1> DEFINE G == {m \in DOMAIN t : m \in Attached(t) =>
                   \A h \in 0..t[m].height : PathIn(t, m)[h + 1] \in Attached(t)}
<1>1. n \in DOMAIN t
  BY DEF Attached
<1>2. Root \in G
  <2>1. Root \in DOMAIN t /\ t[Root].height = 0 /\ PathIn(t, Root)[t[Root].height + 1] = Root
    BY AncestorFacts DEF IsTree
  <2>2. \A h \in 0..t[Root].height : PathIn(t, Root)[h + 1] = Root
    BY <2>1
  <2> QED  BY <2>1, <2>2
<1>3. ASSUME NEW m \in DOMAIN t \ {Root}, t[m].parent \in G
      PROVE  m \in G
  <2> SUFFICES ASSUME m \in Attached(t), NEW h \in 0..t[m].height
               PROVE  PathIn(t, m)[h + 1] \in Attached(t)
    OBVIOUS
  <2>1. t[m].parent \in Attached(t)
    BY AttachedStep
  <2>2. /\ t[m].parent \in DOMAIN t /\ t[m].height = t[t[m].parent].height + 1
        /\ t[t[m].parent].height \in Nat
    BY HeightZero DEF IsTree
  <2>3. CASE h = t[m].height
    BY <2>3, AncestorFacts
  <2>4. CASE h # t[m].height
    <3>1. h \in 0..t[t[m].parent].height
      BY <2>2, <2>4
    <3>2. PathIn(t, m)[h + 1] = PathIn(t, t[m].parent)[h + 1]
      BY <3>1, AncestorFacts
    <3> QED  BY <1>3, <2>1, <3>1, <3>2
  <2> QED  BY <2>3, <2>4
<1>4. DOMAIN t \subseteq G
  <2> HIDE DEF G
  <2> QED  BY <1>2, <1>3, TreeInduction
<1> QED  BY <1>1, <1>4

(* A node added hangs where its parent does.                               *)
LEMMA GrownAttached ==
  ASSUME NEW t, IsTree(t), Bounded(t), NEW u, IsTree(u), Bounded(u),
         NEW n, n \notin DOMAIN t, DOMAIN u = DOMAIN t \cup {n}, n # Root,
         \A m \in DOMAIN t : u[m].parent = t[m].parent,
         \A m \in DOMAIN t \ {Root} : IsChildIn(u, m) <=> IsChildIn(t, m),
         u[n].parent \in DOMAIN t
  PROVE  Attached(u) \subseteq Attached(t) \cup {n} /\ Attached(t) \subseteq Attached(u)
<1> DEFINE G == {m \in DOMAIN t : m \in Attached(u) <=> m \in Attached(t)}
<1>1. Root \in G
  <2>1. Root \in DOMAIN t /\ Root \in DOMAIN u
    BY DEF IsTree
  <2> QED  BY <2>1, AttachedStep
<1>2. ASSUME NEW m \in DOMAIN t \ {Root}, t[m].parent \in G
      PROVE  m \in G
  <2>1. m \in Attached(u) <=> IsChildIn(u, m) /\ u[m].parent \in Attached(u)
    BY AttachedStep
  <2>2. m \in Attached(t) <=> IsChildIn(t, m) /\ t[m].parent \in Attached(t)
    BY AttachedStep
  <2> QED  BY <1>2, <2>1, <2>2
<1>3. DOMAIN t \subseteq G
  <2> HIDE DEF G
  <2> QED  BY <1>1, <1>2, TreeInduction
<1>4. Attached(t) \subseteq DOMAIN t /\ Attached(u) \subseteq DOMAIN u
  BY DEF Attached
<1> QED  BY <1>3, <1>4

(* With a node cut off everything above it hangs loose, and nothing else.  *)
LEMMA CutAttached ==
  ASSUME NEW t, IsTree(t), Bounded(t), NEW u, IsTree(u), Bounded(u),
         NEW n \in DOMAIN t \ {Root}, DOMAIN u \subseteq DOMAIN t, DOMAIN t \ {n} \subseteq DOMAIN u,
         \A m \in DOMAIN u : u[m].parent = t[m].parent,
         \A m \in DOMAIN u \ {Root} : IsChildIn(u, m) <=> IsChildIn(t, m) /\ m # n
  PROVE  /\ Attached(u) \subseteq Attached(t) \ {n}
         /\ \A m \in Attached(t) :
              (\A h \in 0..t[m].height : PathIn(t, m)[h + 1] # n) => m \in Attached(u)
<1> DEFINE G == {m \in DOMAIN u : m \in Attached(u) => m \in Attached(t) \ {n}}
<1>0. Root \in DOMAIN t /\ Root \in DOMAIN u /\ Root \in Attached(t) /\ Root \in Attached(u)
  <2>1. Root \in DOMAIN t /\ Root \in DOMAIN u
    BY DEF IsTree
  <2> QED  BY <2>1, AttachedStep
<1>1. Root \in G
  BY <1>0
<1>2. ASSUME NEW m \in DOMAIN u \ {Root}, u[m].parent \in G
      PROVE  m \in G
  <2>1. m \in Attached(u) <=> IsChildIn(u, m) /\ u[m].parent \in Attached(u)
    BY AttachedStep
  <2>2. m \in Attached(t) <=> IsChildIn(t, m) /\ t[m].parent \in Attached(t)
    <3>1. m \in DOMAIN t
      OBVIOUS
    <3> QED  BY <3>1, AttachedStep
  <2> QED  BY <1>2, <2>1, <2>2
<1>3. DOMAIN u \subseteq G
  <2> HIDE DEF G
  <2> QED  BY <1>1, <1>2, TreeInduction
<1> DEFINE Clear(m) == \A h \in 0..t[m].height : PathIn(t, m)[h + 1] # n
           K == {m \in DOMAIN t : m \in Attached(t) /\ Clear(m) => m \in Attached(u)}
<1>4. Root \in K
  BY <1>0
<1>5. ASSUME NEW m \in DOMAIN t \ {Root}, t[m].parent \in K
      PROVE  m \in K
  <2> SUFFICES ASSUME m \in Attached(t), Clear(m) PROVE m \in Attached(u)
    OBVIOUS
  <2> DEFINE p == t[m].parent
  <2>1. p \in DOMAIN t /\ t[m].height = t[p].height + 1 /\ t[p].height \in Nat
    BY HeightZero DEF IsTree
  <2>2. /\ PathIn(t, m)[t[m].height + 1] = m
        /\ \A h \in 0..t[p].height : PathIn(t, m)[h + 1] = PathIn(t, p)[h + 1]
    BY AncestorFacts
  <2>3. m # n
    <3>1. t[m].height \in 0..t[m].height
      BY <2>1
    <3> QED  BY <2>2, <3>1
  <2>4. Clear(p)
    <3> SUFFICES ASSUME NEW h \in 0..t[p].height PROVE PathIn(t, p)[h + 1] # n
      OBVIOUS
    <3>1. h \in 0..t[m].height
      BY <2>1
    <3> QED  BY <2>2, <3>1
  <2>5. IsChildIn(t, m) /\ p \in Attached(t)
    BY AttachedStep
  <2>6. m \in DOMAIN u \ {Root} /\ u[m].parent = p /\ IsChildIn(u, m)
    BY <2>3, <2>5
  <2>7. p \in Attached(u)
    BY <1>5, <2>4, <2>5
  <2> HIDE DEF p
  <2> QED  BY <2>6, <2>7, AttachedStep
<1>6. DOMAIN t \subseteq K
  <2> HIDE DEF K
  <2> QED  BY <1>4, <1>5, TreeInduction
<1>7. Attached(t) \subseteq DOMAIN t /\ Attached(u) \subseteq DOMAIN u
  BY DEF Attached
<1> HIDE DEF Clear
<1>8. \A m \in Attached(t) : Clear(m) => m \in Attached(u)
  BY <1>6, <1>7
<1> QED  BY <1>3, <1>7, <1>8 DEF Clear
-----------------------------------------------------------------------------
(* The chain is a BestChain                                                *)

(* Each node hangs below a node of its block's parent. *)
BlocksIn(t) ==
  \A n \in DOMAIN t \ {Root} :
    n.block \in Block \ {Genesis} /\ t[n].parent.block = ParentOf[n.block]

KnownIn(t) == {n.block : n \in Attached(t)}
HighestIn(t, n) == n \in Attached(t) /\ \A m \in Attached(t) : t[m].height <= t[n].height

(* The blocks of the tree have their parents with them.                    *)
LEMMA KnownIs ==
  ASSUME NEW t, IsTree(t), Bounded(t), BlocksIn(t)
  PROVE  /\ Best!Rooted(KnownIn(t))
         /\ \A n \in DOMAIN t : n.block \in Block /\ Best!HeightOf[n.block] = t[n].height
<1> DEFINE G == {n \in DOMAIN t : n.block \in Block /\ Best!HeightOf[n.block] = t[n].height}
<1>1. Root \in DOMAIN t /\ t[Root].height = 0 /\ Root.block = Genesis /\ Genesis \in Block
  BY ChainAssumption DEF IsTree, Root
<1>2. Root \in G
  BY <1>1, HeightOfIs
<1>3. ASSUME NEW n \in DOMAIN t \ {Root}, t[n].parent \in G
      PROVE  n \in G
  <2>1. t[n].height = t[t[n].parent].height + 1 /\ t[n].parent.block = ParentOf[n.block]
        /\ n.block \in Block \ {Genesis}
    BY DEF IsTree, BlocksIn
  <2> QED  BY <1>3, <2>1, HeightOfIs
<1>4. DOMAIN t \subseteq G
  <2> HIDE DEF G
  <2> QED  BY <1>2, <1>3, TreeInduction
<1>5. Genesis \in KnownIn(t)
  BY <1>1, AttachedStep DEF KnownIn
<1>6. ASSUME NEW b \in KnownIn(t) \ {Genesis} PROVE ParentOf[b] \in KnownIn(t)
  <2>1. PICK n \in Attached(t) : b = n.block
    BY DEF KnownIn
  <2>2. n \in DOMAIN t \ {Root}
    BY <1>1, <2>1 DEF Attached
  <2>3. t[n].parent \in Attached(t) /\ t[n].parent.block = ParentOf[b]
    BY <2>1, <2>2, AttachedStep DEF BlocksIn
  <2> QED  BY <2>3 DEF KnownIn
<1> QED  BY <1>4, <1>5, <1>6 DEF Best!Rooted

(* A highest node has a highest block.                                     *)
LEMMA HighestKnown ==
  ASSUME NEW t, IsTree(t), Bounded(t), BlocksIn(t), NEW n, HighestIn(t, n)
  PROVE  Best!IsHighest(n.block, KnownIn(t))
<1>1. n.block \in KnownIn(t) /\ n \in DOMAIN t
  BY DEF HighestIn, KnownIn, Attached
<1>2. ASSUME NEW c \in KnownIn(t) PROVE Best!HeightOf[c] <= Best!HeightOf[n.block]
  <2>1. PICK m \in Attached(t) : c = m.block
    BY DEF KnownIn
  <2>2. m \in DOMAIN t
    BY DEF Attached
  <2>3. t[m].height <= t[n].height
    BY DEF HighestIn
  <2> QED  BY <1>1, <2>1, <2>2, <2>3, KnownIs
<1> QED  BY <1>1, <1>2 DEF Best!IsHighest

(* A call that returns with n for the tip has received b.                  *)
LEMMA Received ==
  ASSUME ~astray, ~astray', IsTree(tree'), Bounded(tree'), BlocksIn(tree'), NEW n, HighestIn(tree', n),
         settled' = Snapshot(tree', n), NEW b \in Block \ settled.known,
         KnownIn(tree') \subseteq settled.known \cup {b}, settled.tip \in KnownIn(tree'),
         \/ n.block = settled.tip \/ Best!HeightOf[n.block] > Best!HeightOf[settled.tip]
         \/ b \notin KnownIn(tree')
  PROVE  Best!BCNext
<1>1. settled'.tip = n.block /\ settled'.known = KnownIn(tree')
  BY DEF Snapshot, KnownIn
<1>2. Best!Rooted(KnownIn(tree')) /\ Best!IsHighest(n.block, KnownIn(tree'))
  BY KnownIs, HighestKnown
<1>3. Best!Receive(b)
  BY <1>1, <1>2 DEF Best!Receive
<1> QED  BY <1>3 DEF Best!BCNext

(* The node o of the tip as it was before the call: its path is trusted.   *)
OldTip(o) ==
  /\ o \in Attached(tree) /\ o.block = settled.tip
  /\ \A h \in 1..Height(o) : TrustedIn(blockIdxMap, AncestorAt(o, h).block)

(* While the call with block b runs, the tree may have lost blocks, and    *)
(* gained b.  The chain moves to b, which is above the old tip and above   *)
(* all nodes attached (if it is still attached); or b is gone, and the     *)
(* chain moves to a highest node.                                          *)
Moving(o, b) ==
  /\ KnownIn(tree) \subseteq settled.known \cup {b}
  /\ pc = "extend" =>
       /\ BlockTreeEnd = o /\ cur.block = b
       /\ \A m \in Attached(tree) \ {cur} : Height(m) <= Height(o)
  /\ pc \in {"undo", "parse"} =>
       \/ /\ dst.block = b /\ Height(dst) > Height(o)
          /\ \A m \in Attached(tree) : m.block = b => m = dst
          /\ dst \in Attached(tree) => HighestIn(tree, dst)
       \/ b \notin KnownIn(tree) /\ HighestIn(tree, dst)
  /\ pc = "retarget" => b \notin KnownIn(tree)

BestInv ==
  /\ pc = "idle" => settled = Snapshot(tree, BlockTreeEnd) /\ HighestIn(tree, BlockTreeEnd)
  /\ pc \in Running => \E o \in DOMAIN tree, b \in Block \ settled.known : OldTip(o) /\ Moving(o, b)

(* What is attached is in the index.                                       *)
LEMMA AttachedIndexed ==
  ASSUME Good, NEW n \in Attached(tree)
  PROVE  n \in DOMAIN tree /\ n.block \in DOMAIN BlockIndex /\ BlockIndex[n.block] = n
<1>1. n \in DOMAIN tree
  BY DEF Attached
<1>2. CASE n = Root
  <2>1. n.block = Genesis
    BY <1>2 DEF Root
  <2>2. BlockIndex[Genesis] \in DOMAIN tree /\ BlockIndex[Genesis].block = Genesis
        /\ Genesis \in DOMAIN BlockIndex
    BY DEF Good, IndexOK
  <2>3. BlockIndex[Genesis] = Root
    BY <2>2 DEF Good, IndexOK
  <2> QED  BY <1>1, <1>2, <2>1, <2>2, <2>3
<1>3. CASE n # Root
  <2>1. IsChildIn(tree, n)
    BY <1>1, <1>3, AttachedStep DEF Good, TreeOK
  <2>2. IsChild(n)
    BY <2>1 DEF IsChild, IsChildIn, Children, Parent
  <2> QED  BY <1>1, <1>3, <2>2 DEF Good, IndexOK
<1> QED  BY <1>2, <1>3

(* The blocks of the nodes, in the terms of a tree.                        *)
LEMMA BlocksAre ==
  ASSUME Good, ParentsOK
  PROVE  IsTree(tree) /\ Bounded(tree) /\ BlocksIn(tree)
<1>1. \A n \in DOMAIN tree \ {Root} : n.block \in Block \ {Genesis} /\ Parent(n).block = ParentOf[n.block]
  BY NodeBlocks
<1> QED  BY <1>1 DEF Good, TreeOK, BlocksIn, Parent

(* And after a step.                                                       *)
LEMMA BlocksAreNext ==
  ASSUME Good', ParentsOK'
  PROVE  IsTree(tree') /\ Bounded(tree') /\ BlocksIn(tree')
<1>1. IsTree(tree') /\ Bounded(tree')
  BY DEF Good, TreeOK
<1>2. ASSUME NEW n \in DOMAIN tree' \ {Root}
      PROVE  n.block \in Block \ {Genesis} /\ tree'[n].parent.block = ParentOf[n.block]
  <2>1. n.block \in Block
    BY <1>1 DEF IsTree, NodeId
  <2>2. n.block # Genesis
    BY DEF Good, IndexOK
  <2>3. tree'[n].parent.block = ParentOf[n.block]
    BY DEF ParentsOK, Parent
  <2> QED  BY <2>1, <2>2, <2>3
<1> QED  BY <1>1, <1>2 DEF BlocksIn

(* The step preserves the invariant, and is one of BestChain or none. *)
BestStep == BestInv' /\ (Best!BCNext \/ UNCHANGED settled)

(* A block arrives.                                                        *)
LEMMA AcceptBest ==
  ASSUME Good, Ledger, BestInv, NEW b \in Block \ {Genesis}, AcceptBlock(b), Good', Ledger',
         ~astray, ~astray'
  PROVE  BestStep
<1>1. PICK n, parent, o : n = NewId(b) /\ parent = BlockIndex[ParentOf[b]] /\ o = BlockTreeEnd
  OBVIOUS
<1>2. Grown(b, n, parent)
  BY <1>1, NodeAdded
<1>3. /\ pc = "idle" /\ b \notin DOMAIN BlockIndex
      /\ UNCHANGED BlockTreeEnd
      /\ \/ /\ pc' = "extend" /\ cur' = n /\ UNCHANGED <<settled, blockIdxMap>>
         \/ /\ blockIdxMap' = SetBlock(blockIdxMap, b, FALSE)
            /\ \/ /\ Height(parent) + 1 > Height(o) /\ pc' = "undo" /\ dst' = n
                  /\ UNCHANGED settled
               \/ /\ ~(Height(parent) + 1 > Height(o)) /\ pc' = "idle"
                  /\ settled' = Snapshot(tree', o)
  BY <1>1 DEF AcceptBlock, Return, histVars
<1>4. /\ settled = Snapshot(tree, o) /\ HighestIn(tree, o) /\ settled.tip = o.block
      /\ settled.known = KnownIn(tree)
  BY <1>1, <1>3 DEF BestInv, Snapshot, KnownIn
<1>5. b \notin settled.known /\ b \in Block
  BY <1>3, <1>4, AttachedIndexed DEF KnownIn
<1>6. IsTree(tree) /\ Bounded(tree) /\ IsTree(tree') /\ Bounded(tree') /\ BlocksIn(tree')
  BY BlocksAre, BlocksAreNext DEF Ledger
<1>7. /\ n \notin DOMAIN tree /\ DOMAIN tree' = DOMAIN tree \cup {n} /\ n # Root /\ n.block = b
      /\ parent \in DOMAIN tree /\ tree'[n].parent = parent
      /\ tree'[n].height = Height(parent) + 1
  BY <1>2 DEF Grown, Height
<1>8. \A m \in DOMAIN tree : tree'[m].parent = tree[m].parent /\ tree'[m].height = tree[m].height
  BY <1>2 DEF Grown, SameShape
<1>9. \A m \in DOMAIN tree \ {Root} : IsChildIn(tree', m) <=> IsChildIn(tree, m)
  <2>1. \A m \in DOMAIN tree \ {Root} : IsChild(m)' <=> IsChild(m)
    BY <1>2 DEF Grown
  <2> QED  BY <2>1 DEF IsChild, IsChildIn, Children, Parent
<1>10. Attached(tree') \subseteq Attached(tree) \cup {n} /\ Attached(tree) \subseteq Attached(tree')
  BY <1>6, <1>7, <1>8, <1>9, GrownAttached
<1>11. KnownIn(tree') \subseteq settled.known \cup {b} /\ settled.known \subseteq KnownIn(tree')
  BY <1>4, <1>7, <1>10 DEF KnownIn
<1>12. /\ o \in DOMAIN tree /\ o \in Attached(tree) /\ o \in Attached(tree') /\ o \in DOMAIN tree'
       /\ \A m \in Attached(tree') \ {n} : m \in Attached(tree) /\ tree'[m].height <= tree'[o].height
       /\ tree'[o].height = Height(o) /\ settled.tip \in KnownIn(tree')
  <2>1. o \in Attached(tree) /\ \A m \in Attached(tree) : tree[m].height <= tree[o].height
    BY <1>4 DEF HighestIn
  <2>2. Attached(tree) \subseteq DOMAIN tree
    BY DEF Attached
  <2> QED  BY <1>4, <1>7, <1>8, <1>10, <2>1, <2>2 DEF Height, KnownIn
<1>13. ASSUME settled' = settled PROVE OldTip(o)'
  <2>1. /\ \A h : AncestorAt(o, h)' = AncestorAt(o, h)
        /\ Height(o)' = Height(o)
    <3>1. \A m \in DOMAIN tree : \A h : AncestorAt(m, h)' = AncestorAt(m, h)
      BY <1>2 DEF Grown
    <3> QED  BY <1>12, <3>1 DEF Height
  <2>2. \A h \in 1..Height(o) : TrustedIn(blockIdxMap, AncestorAt(o, h).block)
    BY <1>1 DEF Good, ActiveTrusted
  <2>3. \A c : TrustedIn(blockIdxMap, c) => TrustedIn(blockIdxMap', c)
    <3>1. b \notin DOMAIN blockIdxMap
      BY <1>3 DEF Good, IndexOK
    <3> QED  BY <1>3, <3>1 DEF TrustedIn, SetBlock
  <2> QED  BY <1>4, <1>12, <1>13, <2>1, <2>2, <2>3 DEF OldTip
<1>14. CASE pc' = "extend"
  <2>1. cur' = n /\ settled' = settled /\ BlockTreeEnd' = o
    BY <1>1, <1>3, <1>14
  <2>2. \A m \in Attached(tree') \ {n} : Height(m)' <= Height(o)'
    BY <1>12 DEF Height
  <2>3. Moving(o, b)'
    BY <1>7, <1>11, <1>14, <2>1, <2>2 DEF Moving
  <2> QED  BY <1>5, <1>12, <1>13, <1>14, <2>1, <2>3 DEF BestStep, BestInv
<1>15. CASE pc' = "undo"
  <2>1. dst' = n /\ settled' = settled /\ Height(parent) + 1 > Height(o)
    BY <1>3, <1>15
  <2>2. tree'[n].height > tree'[o].height
    BY <1>7, <1>12, <2>1
  <2>3. \A m \in Attached(tree') : m.block = b => m = n
    <3>1. \A m \in Attached(tree) : m.block # b
      BY <1>4, <1>5 DEF KnownIn
    <3> QED  BY <1>10, <3>1
  <2>4. n \in Attached(tree') => HighestIn(tree', n)
    <3> SUFFICES ASSUME n \in Attached(tree') PROVE \A m \in Attached(tree') : tree'[m].height <= tree'[n].height
      BY DEF HighestIn
    <3> TAKE m \in Attached(tree')
    <3>1. tree'[n].height \in Nat /\ tree'[o].height \in Nat /\ m \in DOMAIN tree'
      BY <1>6, <1>7, <1>12, HeightZero DEF Attached
    <3>2. tree'[m].height \in Nat
      BY <1>6, <3>1, HeightZero
    <3>3. m = n \/ tree'[m].height <= tree'[o].height
      BY <1>12
    <3> QED  BY <2>2, <3>1, <3>2, <3>3
  <2>5. Moving(o, b)'
    BY <1>7, <1>11, <1>15, <2>1, <2>2, <2>3, <2>4 DEF Moving, Height
  <2> QED  BY <1>5, <1>12, <1>13, <1>15, <2>1, <2>5 DEF BestStep, BestInv
<1>16. CASE pc' = "idle"
  <2>1. settled' = Snapshot(tree', o) /\ ~(Height(parent) + 1 > Height(o)) /\ BlockTreeEnd' = o
    BY <1>1, <1>3, <1>16
  <2>2. HighestIn(tree', o)
    <3>1. \A m \in Attached(tree') : tree'[m].height <= tree'[o].height
      <4> TAKE m \in Attached(tree')
      <4>1. CASE m = n
        <5>1. Height(parent) \in Nat /\ Height(o) \in Nat
          BY <1>7, <1>12, NodeFacts DEF Good
        <5> QED  BY <1>7, <1>12, <2>1, <4>1, <5>1
      <4>2. CASE m # n
        BY <1>12, <4>2
      <4> QED  BY <4>1, <4>2
    <3> QED  BY <1>12, <3>1 DEF HighestIn
  <2>3. Best!BCNext
    BY <1>4, <1>5, <1>6, <1>11, <1>12, <2>1, <2>2, Received
  <2> QED  BY <1>16, <2>1, <2>2, <2>3 DEF BestStep, BestInv, Running
<1> QED  BY <1>3, <1>14, <1>15, <1>16

(* The block extends the tip.                                              *)
LEMMA ExtendBest ==
  ASSUME Good, Ledger, BestInv, ExtendTip, ~astray, ~astray'
  PROVE  BestStep
<1>1. /\ pc = "extend" /\ pc' = "idle" /\ tree' = tree /\ BlockTreeEnd' = cur
      /\ settled' = Snapshot(tree, cur)
  BY DEF ExtendTip, Return, treeVars
<1>2. PICK o \in DOMAIN tree, b \in Block \ settled.known : OldTip(o) /\ Moving(o, b)
  BY <1>1 DEF BestInv, Running
<1>3. PICK c : c = cur
  OBVIOUS
<1>4. /\ BlockTreeEnd = o /\ c.block = b /\ KnownIn(tree) \subseteq settled.known \cup {b}
      /\ \A m \in Attached(tree) \ {c} : Height(m) <= Height(o)
      /\ o \in Attached(tree) /\ o.block = settled.tip
  BY <1>1, <1>2, <1>3 DEF Moving, OldTip
<1>5. c \in DOMAIN tree \ {Root} /\ Parent(c) = o /\ IsChild(c)
  BY <1>1, <1>3, <1>4 DEF Good, CallOK
<1>6. IsTree(tree) /\ Bounded(tree) /\ BlocksIn(tree)
  BY BlocksAre DEF Ledger
<1>7. Height(c) = Height(o) + 1 /\ Height(o) \in Nat
  BY <1>2, <1>5, NodeFacts DEF Good
<1>8. c \in Attached(tree)
  BY <1>4, <1>5, <1>6, AttachedStep DEF IsChild, IsChildIn, Children, Parent
<1>9. HighestIn(tree, c)
  <2>1. \A m \in Attached(tree) : Height(m) <= Height(c)
    <3> TAKE m \in Attached(tree)
    <3>1. m \in DOMAIN tree
      BY DEF Attached
    <3>2. Height(m) \in Nat
      BY <3>1, NodeFacts DEF Good
    <3> QED  BY <1>4, <1>7, <3>2
  <2> QED  BY <1>8, <2>1 DEF HighestIn, Height
<1>10. Best!HeightOf[c.block] > Best!HeightOf[settled.tip]
  <2>1. Best!HeightOf[c.block] = Height(c) /\ Best!HeightOf[o.block] = Height(o)
    BY <1>2, <1>5, <1>6, KnownIs DEF Height
  <2> QED  BY <1>4, <1>7, <2>1
<1>11. settled.tip \in KnownIn(tree)
  BY <1>4 DEF KnownIn
<1>12. Best!BCNext
  BY <1>1, <1>2, <1>3, <1>4, <1>6, <1>9, <1>10, <1>11, Received
<1> QED  BY <1>1, <1>3, <1>9, <1>12 DEF BestStep, BestInv, Running

(* All calls return.                                                       *)
LEMMA ReturnBest ==
  ASSUME Good, Ledger, BestInv, ParseReturns, ~astray, ~astray'
  PROVE  BestStep
<1>1. /\ pc = "parse" /\ pc' = "idle" /\ tree' = tree /\ BlockTreeEnd = dst
      /\ BlockTreeEnd' = BlockTreeEnd /\ settled' = Snapshot(tree, BlockTreeEnd)
  BY DEF ParseReturns, Return, treeVars
<1>2. PICK o \in DOMAIN tree, b \in Block \ settled.known : OldTip(o) /\ Moving(o, b)
  BY <1>1 DEF BestInv, Running
<1>3. PICK d : d = dst
  OBVIOUS
<1>4. d \in Attached(tree)
  BY <1>1, <1>3, ActiveFacts DEF Ledger
<1>5. /\ KnownIn(tree) \subseteq settled.known \cup {b}
      /\ HighestIn(tree, d) /\ (Height(d) > Height(o) \/ b \notin KnownIn(tree))
      /\ o \in Attached(tree) /\ o.block = settled.tip
  BY <1>1, <1>2, <1>3, <1>4 DEF Moving, OldTip
<1>6. IsTree(tree) /\ Bounded(tree) /\ BlocksIn(tree)
  BY BlocksAre DEF Ledger
<1>7. Best!HeightOf[d.block] = Height(d) /\ Best!HeightOf[o.block] = Height(o)
  BY <1>2, <1>4, <1>6, KnownIs DEF Height, Attached
<1>8. settled.tip \in KnownIn(tree)
  BY <1>5 DEF KnownIn
<1>9. Best!BCNext
  BY <1>1, <1>2, <1>3, <1>5, <1>6, <1>7, <1>8, Received
<1> QED  BY <1>1, <1>3, <1>5, <1>9 DEF BestStep, BestInv, Running

(* The chain moves on, without a change of the tree.                       *)
LEMMA MoveBest ==
  ASSUME Good, BestInv, pc \in {"undo", "parse"}, pc' \in {"undo", "parse"},
         UNCHANGED <<tree, dst, settled>>,
         \A c : TrustedIn(blockIdxMap, c) => TrustedIn(blockIdxMap', c)
  PROVE  BestStep
<1>1. PICK o \in DOMAIN tree, b \in Block \ settled.known : OldTip(o) /\ Moving(o, b)
  BY DEF BestInv, Running
<1>2. Height(o)' = Height(o) /\ \A h : AncestorAt(o, h)' = AncestorAt(o, h)
  BY DEF Height, AncestorAt, Path
<1>3. OldTip(o)'
  BY <1>1, <1>2 DEF OldTip
<1>4. Moving(o, b)'
  BY <1>1 DEF Moving, Height
<1>5. o \in DOMAIN tree' /\ b \in Block \ settled'.known
  OBVIOUS
<1> QED  BY <1>3, <1>4, <1>5 DEF BestStep, BestInv

(* After a failure: off to a highest node.                                 *)
LEMMA RetargetBest ==
  ASSUME Good, BestInv, Retarget
  PROVE  BestStep
<1>1. /\ pc = "retarget" /\ pc' = "undo" /\ dst' = FindFarthestNode
      /\ UNCHANGED <<tree, settled, blockIdxMap>>
  BY DEF Retarget, treeVars, histVars
<1>2. PICK o \in DOMAIN tree, b \in Block \ settled.known : OldTip(o) /\ Moving(o, b)
  BY <1>1 DEF BestInv, Running
<1>3. PICK far : far = FindFarthestNode
  OBVIOUS
<1>4. \A m \in DOMAIN tree : m \in Attached(tree) <=> Below(Root, m)
  <2> TAKE m \in DOMAIN tree
  <2>1. Root \in DOMAIN tree /\ Height(Root) = 0
    BY DEF Good, TreeOK, IsTree, Height
  <2>2. Height(m) \in Nat
    BY NodeFacts DEF Good
  <2>3. AncestorAt(m, 0) = Root
    <3>1. 0 \in 0..Height(m)
      BY <2>2
    <3>2. AncestorAt(m, 0) \in DOMAIN tree /\ Height(AncestorAt(m, 0)) = 0
      BY <3>1, NodeFacts DEF Good
    <3> QED  BY <3>2, NodeFacts DEF Good
  <2>4. (Height(Root) + 1)..Height(m) = 1..Height(m)
    BY <2>1
  <2> QED  BY <2>1, <2>2, <2>3, <2>4, AttachedIsBelow DEF Below, Good
<1>5. HighestIn(tree, far)
  <2>1. /\ far \in DOMAIN tree /\ Below(Root, far)
        /\ \A m \in DOMAIN tree : Below(Root, m) => Height(m) <= Height(far)
    BY <1>3, FarthestNode DEF Good, TreeOK
  <2>2. Attached(tree) \subseteq DOMAIN tree
    BY DEF Attached
  <2> QED  BY <1>4, <2>1, <2>2 DEF HighestIn, Height
<1>6. Height(o)' = Height(o) /\ \A h : AncestorAt(o, h)' = AncestorAt(o, h)
  BY <1>1 DEF Height, AncestorAt, Path
<1>7. OldTip(o)'
  BY <1>1, <1>2, <1>6 DEF OldTip
<1>8. Moving(o, b)'
  BY <1>1, <1>2, <1>3, <1>5 DEF Moving
<1>9. o \in DOMAIN tree' /\ b \in Block \ settled'.known
  BY <1>1
<1> QED  BY <1>1, <1>7, <1>8, <1>9 DEF BestStep, BestInv, Running

(* A node removed is attached no more, and what hung above it.             *)
LEMMA CutFacts ==
  ASSUME Good, Good', NEW n, Removed(n)
  PROVE  /\ Attached(tree') \subseteq Attached(tree) \ {n}
         /\ Attached(tree) \subseteq DOMAIN tree /\ Attached(tree') \subseteq DOMAIN tree'
         /\ \A m \in Attached(tree) :
              (\A h \in 0..Height(m) : AncestorAt(m, h) # n) => m \in Attached(tree')
         /\ \A m \in Attached(tree') : \A h \in 0..Height(m) : AncestorAt(m, h) # n
         /\ \A m \in DOMAIN tree \ {n} : Height(m)' = Height(m)
         /\ \A m \in DOMAIN tree \ {n} : \A h : AncestorAt(m, h)' = AncestorAt(m, h)
         /\ \A m \in DOMAIN tree : m # n => m \in DOMAIN tree'
<1>1. /\ DOMAIN tree \ {n} \subseteq DOMAIN tree' /\ DOMAIN tree' \subseteq DOMAIN tree
      /\ \A m \in DOMAIN tree \ {n} : Height(m)' = Height(m)
      /\ \A m \in DOMAIN tree \ {n} : \A h : AncestorAt(m, h)' = AncestorAt(m, h)
      /\ \A m \in DOMAIN tree' : Parent(m)' = Parent(m)
      /\ \A m \in DOMAIN tree' \ {Root} : IsChild(m)' <=> IsChild(m) /\ m # n
  BY ChildRemoved DEF Good
<1>2. IsTree(tree) /\ Bounded(tree) /\ IsTree(tree') /\ Bounded(tree')
  BY DEF Good, TreeOK
<1>3. n \in DOMAIN tree \ {Root}
  BY DEF Removed
<1>4. \A m \in DOMAIN tree' : tree'[m].parent = tree[m].parent
  BY <1>1 DEF Parent
<1>5. \A m \in DOMAIN tree' \ {Root} : IsChildIn(tree', m) <=> IsChildIn(tree, m) /\ m # n
  BY <1>1 DEF IsChild, IsChildIn, Children, Parent
<1>6. /\ Attached(tree') \subseteq Attached(tree) \ {n}
      /\ \A m \in Attached(tree) :
           (\A h \in 0..tree[m].height : PathIn(tree, m)[h + 1] # n) => m \in Attached(tree')
  BY <1>1, <1>2, <1>3, <1>4, <1>5, CutAttached
<1>7. Attached(tree) \subseteq DOMAIN tree /\ Attached(tree') \subseteq DOMAIN tree'
  BY DEF Attached
<1>8. ASSUME NEW m \in Attached(tree'), NEW h \in 0..Height(m)
      PROVE  AncestorAt(m, h) # n
  <2>1. m \in DOMAIN tree \ {n} /\ Height(m)' = Height(m) /\ AncestorAt(m, h)' = AncestorAt(m, h)
    BY <1>1, <1>6, <1>7
  <2>2. PathIn(tree', m)[h + 1] \in Attached(tree')
    <3>1. h \in 0..tree'[m].height
      BY <2>1 DEF Height
    <3> QED  BY <1>2, <3>1, AncestorsAttached
  <2>3. AncestorAt(m, h) \in Attached(tree')
    BY <2>1, <2>2 DEF AncestorAt, Path
  <2> QED  BY <1>6, <2>3
<1>9. \A m \in Attached(tree) :
        (\A h \in 0..Height(m) : AncestorAt(m, h) # n) => m \in Attached(tree')
  BY <1>6 DEF Height, AncestorAt, Path
<1> QED  BY <1>1, <1>6, <1>7, <1>8, <1>9

(* The old tip stays: blocks on its way are trusted.                       *)
LEMMA OldTipStays ==
  ASSUME Good, Good', NEW n, Removed(n), NEW o, OldTip(o)
  PROVE  /\ o \in DOMAIN tree \ {n} /\ o \in DOMAIN tree' /\ o \in Attached(tree')
         /\ Height(o)' = Height(o)
         /\ settled' = settled => OldTip(o)'
<1>1. /\ o \in Attached(tree) /\ o.block = settled.tip
      /\ \A h \in 1..Height(o) : TrustedIn(blockIdxMap, AncestorAt(o, h).block)
  BY DEF OldTip
<1>2. o \in DOMAIN tree /\ Height(o) \in Nat
  <2>1. o \in DOMAIN tree
    BY <1>1, CutFacts
  <2> QED  BY <2>1, NodeFacts DEF Good
<1>3. n # Root /\ ~TrustedIn(blockIdxMap, n.block) /\ blockIdxMap' = DropBlock(blockIdxMap, n.block)
  BY DEF Removed
<1>4. ASSUME NEW h \in 0..Height(o) PROVE AncestorAt(o, h) # n
  <2>1. CASE h = 0
    <3>1. AncestorAt(o, h) \in DOMAIN tree /\ Height(AncestorAt(o, h)) = 0
      BY <1>2, <2>1, NodeFacts DEF Good
    <3> QED  BY <1>3, <3>1, NodeFacts DEF Good
  <2>2. CASE h # 0
    <3>1. h \in 1..Height(o)
      BY <1>2, <2>2
    <3> QED  BY <1>1, <1>3, <3>1
  <2> QED  BY <2>1, <2>2
<1>5. o \in Attached(tree')
  BY <1>1, <1>4, CutFacts
<1>6. o # n
  <2>1. Height(o) \in 0..Height(o) /\ AncestorAt(o, Height(o)) = o
    BY <1>2, NodeFacts DEF Good
  <2> QED  BY <1>4, <2>1
<1>7. o \in DOMAIN tree' /\ Height(o)' = Height(o) /\ \A h : AncestorAt(o, h)' = AncestorAt(o, h)
  BY <1>2, <1>6, CutFacts
<1>8. \A h \in 1..Height(o) : TrustedIn(blockIdxMap', AncestorAt(o, h).block)
  <2> TAKE h \in 1..Height(o)
  <2>1. TrustedIn(blockIdxMap, AncestorAt(o, h).block)
    BY <1>1
  <2>2. AncestorAt(o, h).block # n.block
    BY <1>3, <2>1
  <2> QED  BY <1>3, <2>1, <2>2 DEF TrustedIn, DropBlock
<1>9. settled' = settled => OldTip(o)'
  BY <1>1, <1>5, <1>7, <1>8 DEF OldTip
<1> QED  BY <1>2, <1>5, <1>6, <1>7, <1>9

(* The block on the tip is refused.                                        *)
LEMMA RefuseBest ==
  ASSUME Good, BestInv, RefuseTip, Good', Ledger', ~astray, ~astray'
  PROVE  BestStep
<1>1. /\ pc = "extend" /\ pc' = "idle" /\ settled' = Snapshot(tree', BlockTreeEnd)
      /\ BlockTreeEnd' = BlockTreeEnd
  BY DEF RefuseTip, Return
<1>2. PICK n : n = cur
  OBVIOUS
<1>3. Removed(n)
  BY <1>2, RefuseRemoves
<1>4. PICK o \in DOMAIN tree, b \in Block \ settled.known : OldTip(o) /\ Moving(o, b)
  BY <1>1 DEF BestInv, Running
<1>5. /\ KnownIn(tree) \subseteq settled.known \cup {b}
      /\ BlockTreeEnd = o
      /\ \A m \in Attached(tree) \ {n} : Height(m) <= Height(o)
      /\ o.block = settled.tip
  BY <1>1, <1>2, <1>4 DEF Moving, OldTip
<1>6. o \in DOMAIN tree' /\ o \in Attached(tree') /\ Height(o)' = Height(o)
  BY <1>3, <1>4, OldTipStays
<1>7. IsTree(tree') /\ Bounded(tree') /\ BlocksIn(tree')
  BY BlocksAreNext DEF Ledger
<1>8. /\ Attached(tree') \subseteq Attached(tree) \ {n} /\ Attached(tree) \subseteq DOMAIN tree
      /\ \A m \in DOMAIN tree \ {n} : Height(m)' = Height(m)
  BY <1>3, CutFacts
<1>9. HighestIn(tree', o)
  <2>1. \A m \in Attached(tree') : tree'[m].height <= tree'[o].height
    <3> TAKE m \in Attached(tree')
    <3>1. Height(m) <= Height(o) /\ Height(m)' = Height(m)
      BY <1>5, <1>8
    <3> QED  BY <1>6, <3>1 DEF Height
  <2> QED  BY <1>6, <2>1 DEF HighestIn
<1>10. KnownIn(tree') \subseteq settled.known \cup {b} /\ settled.tip \in KnownIn(tree')
  BY <1>5, <1>6, <1>8 DEF KnownIn
<1>11. settled' = Snapshot(tree', o)
  BY <1>1, <1>5
<1>12. Best!BCNext
  BY <1>4, <1>5, <1>7, <1>9, <1>10, <1>11, Received
<1> QED  BY <1>1, <1>5, <1>9, <1>11, <1>12 DEF BestStep, BestInv, Running

(* A block on the way is.                                                  *)
LEMMA DeleteBest ==
  ASSUME Good, BestInv, DeleteBranch, Good'
  PROVE  BestStep
<1>1. pc = "parse" /\ pc' = "retarget" /\ settled' = settled /\ BlockTreeEnd # dst
  BY Zenon DEF DeleteBranch, Fetched, histVars
<1>2. PICK n, d : n = Nxt /\ d = dst
  OBVIOUS
<1>3. Removed(n)
  BY <1>2, DeleteRemoves
<1>4. PICK o \in DOMAIN tree, b \in Block \ settled.known : OldTip(o) /\ Moving(o, b)
  BY <1>1 DEF BestInv, Running
<1>5. o \in DOMAIN tree' /\ OldTip(o)'
  BY <1>1, <1>3, <1>4, OldTipStays
<1>6. /\ Attached(tree') \subseteq Attached(tree) \ {n} /\ Attached(tree) \subseteq DOMAIN tree
      /\ \A m \in Attached(tree') : \A h \in 0..Height(m) : AncestorAt(m, h) # n
  BY <1>3, CutFacts
<1>7. KnownIn(tree) \subseteq settled.known \cup {b}
  BY <1>4 DEF Moving
<1>8. KnownIn(tree') \subseteq KnownIn(tree)
  BY <1>6 DEF KnownIn
<1>9. b \notin KnownIn(tree')
  <2> SUFFICES ASSUME b \in KnownIn(tree') PROVE FALSE
    OBVIOUS
  <2>1. PICK m \in Attached(tree') : m.block = b
    BY DEF KnownIn
  <2>2. m \in Attached(tree) /\ b \in KnownIn(tree)
    BY <1>6, <2>1 DEF KnownIn
  <2>3. m = d
    BY <1>1, <1>2, <1>4, <2>1, <2>2 DEF Moving
  <2>4. /\ n = AncestorAt(d, Height(BlockTreeEnd) + 1)
        /\ Height(BlockTreeEnd) + 1 \in 1..Height(d)
    BY <1>1, <1>2, <2>2, <2>3, NextOnTheWay
  <2>5. Height(BlockTreeEnd) + 1 \in 0..Height(d)
    BY <2>4
  <2> QED  BY <1>6, <2>1, <2>3, <2>4, <2>5
<1>10. Moving(o, b)'
  BY <1>1, <1>7, <1>8, <1>9 DEF Moving
<1>11. b \in Block \ settled'.known
  BY <1>1
<1> QED  BY <1>1, <1>5, <1>10, <1>11 DEF BestStep, BestInv, Running

(* At the start the root is all there is.                                  *)
LEMMA InitBest == Init => BestInv /\ Best!BCInit
<1> SUFFICES ASSUME Init PROVE BestInv /\ Best!BCInit
  OBVIOUS
<1>1. /\ tree = [n \in {Root} |-> [parent |-> Root, height |-> 0, children |-> <<>>]]
      /\ pc = "idle" /\ BlockTreeEnd = Root /\ settled = Snapshot(tree, Root)
  BY DEF Init
<1>2. Good
  BY <1>1, InitInv DEF ChainInv, Panics
<1>3. IsTree(tree) /\ Bounded(tree) /\ Root \in DOMAIN tree
  BY <1>2 DEF Good, TreeOK, IsTree
<1>4. Root \in Attached(tree)
  BY <1>3, AttachedStep
<1>5. Attached(tree) = {Root}
  BY <1>1, <1>4 DEF Attached
<1>6. HighestIn(tree, Root)
  <2>1. tree[Root].height <= tree[Root].height
    BY <1>1
  <2> QED  BY <1>4, <1>5, <2>1 DEF HighestIn
<1>7. settled.tip = Genesis /\ settled.known = {Genesis}
  BY <1>1, <1>5 DEF Snapshot, Root
<1>8. ~astray
  BY DEF Init
<1> QED  BY <1>1, <1>6, <1>7, <1>8 DEF BestInv, Running, Best!BCInit

(* Every step that does not lead astray preserves the invariant, and is    *)
(* one of BestChain or none.                                               *)
LEMMA NextBest ==
  ASSUME ChainInv, LedgerInv, BestInv, ChainInv', LedgerInv', [Next]_vars, ~astray, ~astray'
  PROVE  BestStep
<1>1. CASE pc \in Panics
  <2>1. UNCHANGED <<pc, settled>>
    BY <1>1, PanicsStay DEF vars, callVars, histVars
  <2>2. pc \notin Running \cup {"idle"}
    BY <1>1 DEF Panics, Running
  <2> QED  BY <2>1, <2>2 DEF BestStep, BestInv, Running
<1>2. CASE pc \notin Panics
  <2>1. Good /\ Ledger
    BY <1>2 DEF ChainInv, LedgerInv
  <2>2. ASSUME pc' \in {"idle", "extend", "undo", "parse", "retarget"} PROVE Good' /\ Ledger'
    <3>1. pc' \notin Panics
      BY <2>2 DEF Panics
    <3> QED  BY <3>1 DEF ChainInv, LedgerInv
  <2>3. ASSUME NEW b \in Block \ {Genesis}, AcceptBlock(b) PROVE BestStep
    BY <2>1, <2>2, <2>3, AcceptKeeps, AcceptBest
  <2>4. CASE ExtendTip
    BY <2>1, <2>4, ExtendBest
  <2>5. CASE RefuseTip
    BY <2>1, <2>2, <2>5, RefuseKeeps, RefuseBest
  <2>6. CASE UndoBlock
    BY <2>1, <2>6, MoveBest DEF UndoBlock, treeVars, histVars
  <2>7. CASE StartParse
    BY <2>1, <2>7, MoveBest DEF StartParse, treeVars, histVars
  <2>8. CASE ParseBlock
    <3>1. /\ pc = "parse" /\ pc' = "parse" /\ UNCHANGED <<tree, dst, settled>>
          /\ blockIdxMap' = SetBlock(blockIdxMap, Nxt.block, TRUE)
      BY <2>8, Zenon DEF ParseBlock, Fetched, treeVars, callVars, histVars
    <3>2. \A c : TrustedIn(blockIdxMap, c) => TrustedIn(blockIdxMap', c)
      BY <3>1 DEF TrustedIn, SetBlock
    <3> QED  BY <2>1, <3>1, <3>2, MoveBest
  <2>9. CASE DeleteBranch
    BY <2>1, <2>2, <2>9, DeleteKeeps, DeleteBest
  <2>10. CASE Retarget
    BY <2>1, <2>10, RetargetBest
  <2>11. CASE ParseReturns
    BY <2>1, <2>11, ReturnBest
  <2>12. CASE CallPanics
    <3>1. pc' \in Panics
      BY <2>1, <2>12, PanicKeeps
    <3>2. settled' = settled
      BY <2>12, Zenon DEF CallPanics, Panic, histVars
    <3>3. pc' \notin Running \cup {"idle"}
      BY <3>1 DEF Panics, Running
    <3> QED  BY <3>2, <3>3 DEF BestStep, BestInv, Running
  <2>13. CASE SyncAll
    <3>1. pc = "idle" /\ UNCHANGED <<pc, tree, BlockTreeEnd, settled>>
      BY <2>13 DEF SyncAll, treeVars, callVars
    <3> QED  BY <3>1 DEF BestStep, BestInv, Running
  <2>14. CASE UNCHANGED vars
    <3>1. UNCHANGED <<pc, tree, BlockTreeEnd, settled, blockIdxMap, cur, dst>>
      BY <2>14 DEF vars, treeVars, callVars, histVars
    <3>2. \A m, h : Height(m)' = Height(m) /\ AncestorAt(m, h)' = AncestorAt(m, h)
      BY <3>1 DEF Height, AncestorAt, Path
    <3>3. \A o : OldTip(o)' <=> OldTip(o)
      BY <3>1, <3>2 DEF OldTip
    <3>4. \A o, b : Moving(o, b)' <=> Moving(o, b)
      BY <3>1, <3>2 DEF Moving
    <3> QED  BY <3>1, <3>3, <3>4 DEF BestStep, BestInv
  <2> QED  BY <2>3, <2>4, <2>5, <2>6, <2>7, <2>8, <2>9, <2>10, <2>11, <2>12, <2>13, <2>14
           DEF Next, CallStep
<1> QED  BY <1>1, <1>2

BestKept == ~astray => BestInv

(* So the chain is a BestChain: until a block goes astray, whenever a call *)
(* has returned the tip is a highest block of those still in the tree, no  *)
(* block was lost from below it, and it changed only for a higher block,   *)
(* or because the block received is gone again.                            *)
THEOREM TipStaysBest == Spec => TipIsBest
<1>1. Init => LedgerInv /\ BestKept /\ Best!BCInit
  <2>1. Init => ~astray
    BY DEF Init
  <2> QED  BY <2>1, InitLedger, InitBest DEF BestKept
<1>2. ChainInv /\ LedgerInv /\ [Next]_vars => LedgerInv'
  BY NextLedger
<1>3. ChainInv /\ LedgerInv /\ BestKept /\ ChainInv' /\ LedgerInv' /\ [Next]_vars
        => BestKept' /\ [Best!BCNext]_(Best!bcvars)
  <2> SUFFICES ASSUME ChainInv, LedgerInv, BestKept, ChainInv', LedgerInv', [Next]_vars
               PROVE  BestKept' /\ [Best!BCNext]_(Best!bcvars)
    OBVIOUS
  <2>1. CASE astray'
    BY <2>1 DEF BestKept, Best!BCNext
  <2>2. CASE ~astray'
    <3>1. ~astray /\ astray' = astray
      BY <2>2, AstrayStays DEF LedgerInv
    <3>2. BestStep
      BY <2>2, <3>1, NextBest DEF BestKept
    <3> QED  BY <3>1, <3>2 DEF BestKept, BestStep, Best!bcvars
  <2> QED  BY <2>1, <2>2
<1> QED  BY <1>1, <1>2, <1>3, ChainInvariant, PTL DEF Spec, TipIsBest, Best!BCSpec
=============================================================================
