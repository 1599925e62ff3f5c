-------------------------- MODULE BlockCheckProofs --------------------------
(***************************************************************************)
(* Proofs about BlockCheck, for periods of any length, any times and       *)
(* targets, and a branch of any height.                                    *)
(***************************************************************************)
EXTENDS BlockCheck, WellFoundedInduction, TLAPS

(* The nodes have no set to be typed by: a compact target is whatever      *)
(* GetCompact makes of a number, and transactions are of any kind.         *)
ChainOK ==
  /\ \E S : chain \in Seq(S)
  /\ Len(chain) >= 1
  /\ \A i \in 1..Len(chain) : chain[i].Timestamp \in Nat
  /\ testnet \in BOOLEAN

(* The first two nodes have the easiest target, whatever became of the     *)
(* Timestamp of the root.                                                  *)
StartsEasy ==
  \A i \in 1..Len(chain) : i <= 2 => chain[i].Bits = nProofOfWorkLimit

TargetInv == ChainOK /\ StartsEasy /\ OneTargetPerPeriod
-----------------------------------------------------------------------------
(* Periods                                                                 *)

(* Division with a remainder.                                              *)
LEMMA DivMod ==
  ASSUME NEW h \in Nat, NEW n \in Nat, n > 0
  PROVE  \E q \in Nat, r \in 0..(n - 1) : h = n * q + r /\ r = h % n
<1>1. h \div n \in Nat /\ h % n \in 0..(n - 1)
  OBVIOUS
<1>2. h = n * (h \div n) + (h % n)
  OBVIOUS
<1> QED  BY <1>1, <1>2

(* A height in a period that is not its first block.                       *)
LEMMA InPeriod ==
  ASSUME NEW h \in Nat, h % nInterval # 0
  PROVE  /\ PeriodStart(h) \in Nat /\ PeriodStart(h) < h
         /\ PeriodStart(h) % nInterval = 0
<1>1. nInterval \in Nat \ {0}
  BY BlockCheckAssumption
<1>2. PICK q \in Nat, r \in 0..(nInterval - 1) : h = nInterval * q + r /\ r = h % nInterval
  <2>1. PICK n : n = nInterval
    OBVIOUS
  <2>2. n \in Nat /\ n > 0
    BY <1>1, <2>1
  <2>3. \E q \in Nat, r \in 0..(n - 1) : h = n * q + r /\ r = h % n
    BY <2>2, DivMod
  <2> QED  BY <2>1, <2>3
<1>3. PeriodStart(h) = nInterval * q
  BY <1>1, <1>2 DEF PeriodStart
<1>4. nInterval * q \in Nat /\ (nInterval * q) % nInterval = 0
  BY <1>1
<1> QED  BY <1>1, <1>2, <1>3, <1>4

(* The blocks after the first one of a period, up to one of them, have the *)
(* same first block.                                                       *)
LEMMA SamePeriod ==
  ASSUME NEW h \in Nat, h % nInterval # 0, NEW k \in Nat, PeriodStart(h) < k, k <= h
  PROVE  k % nInterval # 0 /\ PeriodStart(k) = PeriodStart(h)
<1>1. nInterval \in Nat \ {0}
  BY BlockCheckAssumption
<1>2. PICK q \in Nat, r \in 0..(nInterval - 1) : h = nInterval * q + r /\ r = h % nInterval
  <2>1. PICK n : n = nInterval
    OBVIOUS
  <2>2. n \in Nat /\ n > 0
    BY <1>1, <2>1
  <2>3. \E q \in Nat, r \in 0..(n - 1) : h = n * q + r /\ r = h % n
    BY <2>2, DivMod
  <2> QED  BY <2>1, <2>3
<1>3. PeriodStart(h) = nInterval * q
  BY <1>1, <1>2 DEF PeriodStart
<1>4. PICK j \in 1..(nInterval - 1) : k = nInterval * q + j
  <2>1. nInterval * q \in Nat
    BY <1>1
  <2>2. k - nInterval * q \in 1..(nInterval - 1)
    BY <1>1, <1>2, <1>3, <2>1
  <2> QED  BY <2>1, <2>2
<1>5. k % nInterval = j
  BY <1>1, <1>4
<1> QED  BY <1>1, <1>3, <1>4, <1>5 DEF PeriodStart

(* Of some numbers there is a least one.                                   *)
LEMMA LeastOf ==
  ASSUME NEW R \in SUBSET Nat, R # {}
  PROVE  \E a \in R : \A k \in R : a <= k
<1>1. PICK d \in R : \A e \in R : ~(<<e, d>> \in OpToRel(<, Nat))
  BY NatLessThanWellFounded, WFMin, Zenon
<1>2. \A e \in R : ~(e < d)
  BY <1>1 DEF OpToRel
<1> QED  BY <1>2

(* Of some numbers up to n there is a largest one, which Max chooses.      *)
LEMMA MaxOf ==
  ASSUME NEW n \in Nat, NEW S \in SUBSET (1..n), S # {}
  PROVE  Max(S) \in S /\ \A s \in S : s <= Max(S)
<1> DEFINE Below == {n - s : s \in S}
<1>1. Below # {} /\ Below \in SUBSET Nat
  <2>1. \A s \in S : n - s \in Nat
    OBVIOUS
  <2> QED  BY <2>1
<1>2. PICK d \in Below : \A e \in Below : d <= e
  <2> HIDE DEF Below
  <2> QED  BY <1>1, LeastOf
<1>3. PICK s \in S : d = n - s
  BY <1>2
<1>4. \A t \in S : s >= t
  <2> TAKE t \in S
  <2>1. d <= n - t
    BY <1>2
  <2> QED  BY <1>3, <2>1
<1>5. \E m \in S : \A t \in S : m >= t
  BY <1>4
<1>6. Max(S) \in S /\ \A t \in S : Max(S) >= t
  BY <1>5 DEF Max
<1> QED  BY <1>6
-----------------------------------------------------------------------------
(* The steps                                                               *)

(* A block without an error has its parent, and the target it must have    *)
(* unless it is the first one of a period on the testnet.                  *)
LEMMA NoError ==
  ASSUME NEW b, CheckError(b) = ""
  PROVE  HasParent(b) /\ ~WorkError(b)
BY Zenon DEF CheckError

(* What a node that is not the first one of its period is asked for.       *)
LEMMA WorkWithinPeriod ==
  ASSUME TargetInv, Len(chain) % nInterval # 0, NEW ts \in Nat
  PROVE  LET bits == GetNextWorkRequired(chain, ts)
         IN  \/ bits = chain[PeriodStart(Len(chain)) + 1].Bits
             \/ /\ testnet /\ bits = nProofOfWorkLimit
                /\ \/ ts > chain[Len(chain)].Timestamp + MinDifficultyAfter
                   \/ chain[Len(chain)].Timestamp + MinDifficultyAfter >= Uint32
<1> DEFINE h == Len(chain)  start == PeriodStart(h)  bits == GetNextWorkRequired(chain, ts)
           late == chain[h].Timestamp + MinDifficultyAfter
<1>1. h \in Nat /\ h >= 1 /\ start \in Nat /\ start < h /\ start % nInterval = 0
  <2>1. PICK n : n = Len(chain)
    OBVIOUS
  <2>2. n \in Nat /\ n >= 1 /\ n % nInterval # 0
    BY <2>1 DEF TargetInv, ChainOK
  <2> QED  BY <2>1, <2>2, InPeriod
<1>2. Last(chain) = chain[h] /\ Height(chain) = h - 1 /\ Height(chain) + 1 = h
  BY <1>1 DEF Last, Height
<1>3. CASE h = 1
  <2>1. start = 0
    BY <1>1, <1>3
  <2>2. bits = nProofOfWorkLimit
    BY <1>3 DEF GetNextWorkRequired
  <2> QED  BY <1>1, <1>3, <2>1, <2>2 DEF TargetInv, StartsEasy
<1>4. CASE h # 1 /\ ~testnet
  <2>1. bits = chain[h].Bits
    BY <1>2, <1>4 DEF GetNextWorkRequired
  <2>2. CASE start = h - 1
    BY <1>1, <2>1, <2>2
  <2>3. CASE start # h - 1
    <3>1. PeriodStart(h - 1) = start
      BY <1>1, <2>3, SamePeriod
    <3>2. h - 1 \in 1..Height(chain) /\ (h - 1) + 1 = h
      BY <1>1, <1>2, <1>4
    <3>3. chain[h].Bits = chain[PeriodStart(h - 1) + 1].Bits
      BY <1>4, <3>2 DEF TargetInv, OneTargetPerPeriod
    <3> QED  BY <2>1, <3>1, <3>3
  <2> QED  BY <2>2, <2>3
<1>5. CASE h # 1 /\ testnet /\ ts > late % Uint32
  <2>1. bits = nProofOfWorkLimit
    BY <1>2, <1>5 DEF GetNextWorkRequired, TestnetWork
  <2>2. PICK l, w : l = late /\ w = Uint32
    OBVIOUS
  <2>3. l \in Nat /\ w \in Nat /\ w > 0
    BY <1>1, <2>2, BlockCheckAssumption DEF TargetInv, ChainOK
  <2>4. l < w => l % w = l
    BY <2>3
  <2> QED  BY <1>5, <2>1, <2>2, <2>3, <2>4
<1>6. CASE h # 1 /\ testnet /\ ~(ts > late % Uint32)
  <2> DEFINE Marks == {k \in DOMAIN chain : \/ k = 1 \/ (k - 1) % nInterval = 0
                                            \/ chain[k].Bits # nProofOfWorkLimit}
             m == Max(Marks)
  <2>1. bits = chain[m].Bits
    BY <1>2, <1>6 DEF GetNextWorkRequired, TestnetWork
  <2>2. DOMAIN chain = 1..h
    BY DEF TargetInv, ChainOK
  <2>3. start + 1 \in Marks
    BY <1>1, <2>2
  <2>4. m \in Marks /\ start + 1 <= m
    <3>1. Marks \in SUBSET (1..h) /\ Marks # {}
      BY <2>2, <2>3
    <3> HIDE DEF Marks
    <3> QED  BY <1>1, <2>3, <3>1, MaxOf
  <2> HIDE DEF m
  <2>5. m \in 1..h
    BY <2>2, <2>4
  <2>6. CASE m = start + 1
    BY <2>1, <2>6
  <2>7. CASE m # start + 1
    <3>1. m - 1 \in Nat /\ start < m - 1 /\ m - 1 <= h
      BY <1>1, <2>4, <2>5, <2>7
    <3>2. (m - 1) % nInterval # 0 /\ PeriodStart(m - 1) = start
      BY <1>1, <3>1, SamePeriod
    <3>3. chain[m].Bits # nProofOfWorkLimit
      BY <1>1, <2>4, <3>1, <3>2
    <3>4. m - 1 \in 1..Height(chain) /\ (m - 1) + 1 = m
      BY <1>1, <1>2, <2>5, <3>1
    <3>5. chain[m].Bits = chain[PeriodStart(m - 1) + 1].Bits
      BY <3>3, <3>4 DEF TargetInv, OneTargetPerPeriod
    <3> QED  BY <2>1, <3>2, <3>5
  <2> QED  BY <2>6, <2>7
<1> QED  BY <1>3, <1>4, <1>5, <1>6 DEF TargetInv, ChainOK

(* Only the root's Timestamp changes, and no target is compared with it. *)
LEMMA RootKeeps ==
  ASSUME TargetInv, NEW ts \in Nat, chain' = [chain EXCEPT ![1] = Root(ts)],
         testnet' = testnet
  PROVE  TargetInv'
<1> DEFINE h == Len(chain)
<1>1. PICK S : chain \in Seq(S)
  BY DEF TargetInv, ChainOK
<1>2. h \in Nat /\ h >= 1 /\ DOMAIN chain = 1..h /\ Height(chain) = h - 1
  BY <1>1 DEF TargetInv, ChainOK, Height
<1>3. chain' \in Seq(S \cup {Root(ts)}) /\ Len(chain') = h /\ DOMAIN chain' = 1..h
  BY <1>1, <1>2
<1>4. /\ chain'[1] = Root(ts)
      /\ \A i \in 1..h : i # 1 => chain'[i] = chain[i]
  BY <1>2
<1>5. chain[1].Bits = nProofOfWorkLimit
  BY <1>2 DEF TargetInv, StartsEasy
<1>6. \A i \in 1..h : chain'[i].Bits = chain[i].Bits
  BY <1>2, <1>4, <1>5 DEF Root
<1>7. nProofOfWorkLimit' = nProofOfWorkLimit /\ Height(chain)' = h - 1
  BY <1>2, <1>3 DEF Height, nProofOfWorkLimit
<1>8. ChainOK'
  <2>1. \A i \in 1..h : chain'[i].Timestamp \in Nat
    BY <1>2, <1>4 DEF TargetInv, ChainOK, Root
  <2> QED  BY <1>2, <1>3, <2>1 DEF TargetInv, ChainOK
<1>9. StartsEasy'
  BY <1>3, <1>6 DEF TargetInv, StartsEasy
<1>10. OneTargetPerPeriod'
  <2> SUFFICES ASSUME NEW k \in 1..(h - 1)
               PROVE  \/ chain'[k + 1].Bits = chain'[PeriodStart(k) + 1].Bits
                      \/ /\ testnet /\ chain'[k + 1].Bits = nProofOfWorkLimit
                         /\ \/ chain'[k + 1].Timestamp > chain'[k].Timestamp + MinDifficultyAfter
                            \/ chain'[k].Timestamp + MinDifficultyAfter >= Uint32
    BY <1>7 DEF OneTargetPerPeriod
  <2>1. k \in 1..h /\ k + 1 \in 1..h /\ k + 1 # 1
    BY <1>2
  <2>2. PeriodStart(k) + 1 \in 1..h
    <3>1. CASE k % nInterval = 0
      BY <2>1, <3>1 DEF PeriodStart
    <3>2. CASE k % nInterval # 0
      BY <1>2, <2>1, <3>2, InPeriod
    <3> QED  BY <3>1, <3>2
  <2>3. CASE k = 1
    <3>1. PeriodStart(k) + 1 \in 1..2
      <4>1. CASE k % nInterval = 0
        BY <2>3, <4>1 DEF PeriodStart
      <4>2. CASE k % nInterval # 0
        BY <2>3, <4>2, InPeriod
      <4> QED  BY <4>1, <4>2
    <3>2. chain[k + 1].Bits = chain[PeriodStart(k) + 1].Bits
      BY <2>1, <2>2, <2>3, <3>1 DEF TargetInv, StartsEasy
    <3> QED  BY <1>6, <2>1, <2>2, <3>2
  <2>4. CASE k # 1
    <3>1. chain'[k] = chain[k] /\ chain'[k + 1] = chain[k + 1]
      BY <1>4, <2>1, <2>4
    <3>2. chain'[PeriodStart(k) + 1].Bits = chain[PeriodStart(k) + 1].Bits
      BY <1>6, <2>2
    <3>3. k \in 1..Height(chain)
      BY <1>2
    <3> QED  BY <3>1, <3>2, <3>3 DEF TargetInv, OneTargetPerPeriod
  <2> QED  BY <2>3, <2>4
<1> QED  BY <1>8, <1>9, <1>10 DEF TargetInv

(* A block that passes adds a node with the target it must have. *)
LEMMA CheckBlockKeeps ==
  ASSUME TargetInv, CheckBlock
  PROVE  TargetInv'
<1> DEFINE h == Len(chain)
<1>1. PICK S : chain \in Seq(S)
  BY DEF TargetInv, ChainOK
<1>2. h \in Nat /\ h >= 1 /\ DOMAIN chain = 1..h /\ Height(chain) = h - 1
  BY <1>1 DEF TargetInv, ChainOK, Height
<1>3. PICK b \in NewBlocks(Bodies) :
        /\ CheckError(b) = ""
        /\ chain' = Append(chain, [Timestamp |-> b.time, Bits |-> b.bits, txs |-> b.body.txs])
  BY Zenon DEF CheckBlock
<1>4. HasParent(b) /\ ~WorkError(b)
  BY <1>3, NoError, Zenon
<1>5. b.time \in Nat /\ b.prev = h - 1
  <2>1. b.time \in Times /\ b.prev \in {Height(chain), Height(chain) + 1}
    BY Zenon DEF NewBlocks
  <2>2. b.prev <= Height(chain)
    BY <1>4 DEF HasParent
  <2>3. Times \subseteq Nat
    BY BlockCheckAssumption
  <2>4. b.prev = h - 1
    BY <1>2, <2>1, <2>2
  <2> QED  BY <2>1, <2>3, <2>4
<1>6. PICK node : node = [Timestamp |-> b.time, Bits |-> b.bits, txs |-> b.body.txs]
  OBVIOUS
<1>7. /\ chain' \in Seq(S \cup {node}) /\ Len(chain') = h + 1
      /\ chain'[h + 1] = node /\ \A i \in 1..h : chain'[i] = chain[i]
  <2> HIDE <1>3
  <2>1. chain' = Append(chain, node)
    BY <1>3, <1>6, Zenon
  <2> QED  BY <1>1, <1>2, <2>1
<1>8. nProofOfWorkLimit' = nProofOfWorkLimit /\ Height(chain)' = h /\ testnet' = testnet
  <2>1. testnet' = testnet
    BY Zenon DEF CheckBlock
  <2>2. Height(chain)' = h
    BY <1>2, <1>7 DEF Height
  <2> QED  BY <2>1, <2>2 DEF nProofOfWorkLimit
<1>9. node.Bits = b.bits /\ node.Timestamp = b.time
  BY <1>6
<1>10. h % nInterval # 0 => b.bits = GetNextWorkRequired(chain, b.time)
  <2>1. (b.prev + 1) % nInterval # 0 => b.bits = Required(b)
    BY <1>4, Zenon DEF WorkError
  <2>2. b.prev + 1 = h
    BY <1>2, <1>5
  <2>3. SubSeq(chain, 1, h) = chain
    BY <1>1, <1>2
  <2> QED  BY <2>1, <2>2, <2>3 DEF Required
<1>11. ChainOK'
  <2>1. \A i \in 1..(h + 1) : chain'[i].Timestamp \in Nat
    BY <1>2, <1>5, <1>7, <1>9 DEF TargetInv, ChainOK
  <2> QED  BY <1>2, <1>7, <1>8, <2>1 DEF TargetInv, ChainOK
<1>12. h % nInterval # 0 =>
         \/ b.bits = chain[PeriodStart(h) + 1].Bits
         \/ /\ testnet /\ b.bits = nProofOfWorkLimit
            /\ \/ b.time > chain[h].Timestamp + MinDifficultyAfter
               \/ chain[h].Timestamp + MinDifficultyAfter >= Uint32
  BY <1>5, <1>10, WorkWithinPeriod
<1>13. StartsEasy'
  <2>1. CASE h = 1
    <3>1. h % nInterval # 0
      BY <2>1, BlockCheckAssumption
    <3>2. b.bits = nProofOfWorkLimit
      BY <1>10, <2>1, <3>1 DEF GetNextWorkRequired
    <3> QED  BY <1>2, <1>7, <1>8, <1>9, <2>1, <3>2 DEF TargetInv, StartsEasy
  <2>2. CASE h # 1
    BY <1>2, <1>7, <1>8, <2>2 DEF TargetInv, StartsEasy
  <2> QED  BY <2>1, <2>2
<1>14. OneTargetPerPeriod'
  <2> SUFFICES ASSUME NEW k \in 1..h
               PROVE  \/ chain'[k + 1].Bits = chain'[PeriodStart(k) + 1].Bits
                      \/ /\ testnet /\ chain'[k + 1].Bits = nProofOfWorkLimit
                         /\ \/ chain'[k + 1].Timestamp > chain'[k].Timestamp + MinDifficultyAfter
                            \/ chain'[k].Timestamp + MinDifficultyAfter >= Uint32
    BY <1>8 DEF OneTargetPerPeriod
  <2>1. CASE k % nInterval = 0
    BY <2>1 DEF PeriodStart
  <2>2. CASE k % nInterval # 0
    <3>1. PeriodStart(k) + 1 \in 1..k
      BY <1>2, <2>2, InPeriod
    <3>2. chain'[PeriodStart(k) + 1] = chain[PeriodStart(k) + 1] /\ chain'[k] = chain[k]
      BY <1>2, <1>7, <3>1
    <3>3. CASE k = h
      BY <1>7, <1>9, <1>12, <2>2, <3>2, <3>3
    <3>4. CASE k # h
      <4>1. k \in 1..Height(chain) /\ chain'[k + 1] = chain[k + 1]
        BY <1>2, <1>7, <3>4
      <4> QED  BY <3>2, <4>1 DEF TargetInv, OneTargetPerPeriod
    <3> QED  BY <3>3, <3>4
  <2> QED  BY <2>1, <2>2
<1> QED  BY <1>11, <1>13, <1>14 DEF TargetInv
-----------------------------------------------------------------------------
(* TargetInv holds throughout, whatever blocks are offered, whenever the   *)
(* genesis block comes in, and however often the program is started.       *)
THEOREM TargetInvariant == Spec => []TargetInv
<1>1. Init => TargetInv
  <2> SUFFICES ASSUME Init PROVE TargetInv
    OBVIOUS
  <2>1. chain = <<Root(0)>> /\ testnet \in BOOLEAN
    BY BlockCheckAssumption DEF Init
  <2>2. chain \in Seq({Root(0)}) /\ Len(chain) = 1 /\ chain[1] = Root(0)
    BY <2>1
  <2>3. Root(0).Timestamp = 0 /\ Root(0).Bits = nProofOfWorkLimit
    BY DEF Root
  <2>4. ChainOK
    <3>1. \E S : chain \in Seq(S)
      BY <2>2
    <3>2. \A i \in 1..Len(chain) : chain[i].Timestamp \in Nat
      BY <2>2, <2>3
    <3> QED  BY <2>1, <2>2, <3>1, <3>2 DEF ChainOK
  <2>5. StartsEasy
    BY <2>2, <2>3 DEF StartsEasy
  <2>6. OneTargetPerPeriod
    <3>1. Height(chain) = 0
      BY <2>2 DEF Height
    <3> QED  BY <3>1 DEF OneTargetPerPeriod
  <2> QED  BY <2>4, <2>5, <2>6 DEF TargetInv
<1>2. TargetInv /\ [Next]_vars => TargetInv'
  <2> SUFFICES ASSUME TargetInv, [Next]_vars PROVE TargetInv'
    OBVIOUS
  <2>1. CASE CheckBlock
    BY <2>1, CheckBlockKeeps
  <2>2. CASE CheckGenesis
    BY <2>2, RootKeeps, BlockCheckAssumption DEF CheckGenesis
  <2>3. CASE Restart
    BY <2>3, RootKeeps DEF Restart
  <2>4. CASE UNCHANGED <<testnet, chain>>
    BY <2>4 DEF TargetInv, ChainOK, StartsEasy, OneTargetPerPeriod, Height, nProofOfWorkLimit
  <2> QED  BY <2>1, <2>2, <2>3, <2>4 DEF Next, TimePasses, vars
<1> QED  BY <1>1, <1>2, PTL DEF Spec

(* Between two retargets the target does not move, but for the late blocks *)
(* of the testnet: for every length of a period and every height.          *)
THEOREM TargetHoldsForPeriod == Spec => []OneTargetPerPeriod
<1>1. TargetInv => OneTargetPerPeriod
  BY DEF TargetInv
<1> QED  BY <1>1, TargetInvariant, PTL
-----------------------------------------------------------------------------
(* The verdict on the sender                                               *)

(* What GetNextWorkRequired asks for after two paths of which only the     *)
(* first node differs, and not by its target.                              *)
LEMMA PathsAlike ==
  ASSUME NEW S, NEW p \in Seq(S), NEW q \in Seq(S), NEW ts,
         Len(p) = Len(q), Len(p) >= 1,
         \A i \in 2..Len(p) : p[i] = q[i],
         p[1].Bits = q[1].Bits,
         Len(p) = nInterval => p[1].Timestamp = q[1].Timestamp
  PROVE  GetNextWorkRequired(p, ts) = GetNextWorkRequired(q, ts)
<1>0. PICK k, n : k = Len(p) /\ n = nInterval
  OBVIOUS
<1>1. /\ k \in Nat /\ k >= 1 /\ n \in Nat /\ n > 1 /\ Len(p) = k /\ Len(q) = k
      /\ DOMAIN p = 1..k /\ DOMAIN q = 1..k /\ Height(p) = Height(q) /\ Height(p) + 1 = k
  BY <1>0, BlockCheckAssumption DEF Height
<1>2. \A i \in 1..k : (i # 1 => p[i] = q[i]) /\ p[i].Bits = q[i].Bits
  <2> TAKE i \in 1..k
  <2>1. CASE i = 1
    BY <2>1
  <2>2. CASE i # 1
    BY <1>1, <2>2
  <2> QED  BY <2>1, <2>2
<1>3. CASE k = 1
  BY <1>1, <1>3, SMTT(40) DEF GetNextWorkRequired
<1>4. CASE k # 1 /\ k % n = 0
  <2>1. Last(p) = p[k] /\ Last(q) = p[k]
    BY <1>1, <1>2, <1>4 DEF Last
  <2>2. k - (n - 1) \in 1..k
    <3>1. PICK d \in Nat, r \in 0..(n - 1) : k = n * d + r /\ r = k % n
      <4>1. k \in Nat /\ n \in Nat /\ n > 0
        BY <1>1
      <4> QED  BY <4>1, DivMod
    <3>2. k = n * d /\ d >= 1
      BY <1>1, <1>4, <3>1
    <3>3. n * d >= n
      BY <1>1, <3>2
    <3> QED  BY <1>1, <3>2, <3>3
  <2>3. /\ FirstOfPeriod(p).Bits = FirstOfPeriod(q).Bits
        /\ FirstOfPeriod(p).Timestamp = FirstOfPeriod(q).Timestamp
    <3>1. PICK i : i = k - (n - 1)
      BY SMTT(40)
    <3>2. FirstOfPeriod(p) = p[i] /\ FirstOfPeriod(q) = q[i]
      BY <1>0, <1>1, <3>1 DEF FirstOfPeriod
    <3>3. i = 1 => k = n
      BY <1>1, <3>1
    <3>4. i = 1 => p[i].Timestamp = q[i].Timestamp
      BY <1>0, <3>3
    <3>5. i \in 1..k
      BY <2>2, <3>1
    <3> QED  BY <1>2, <3>2, <3>4, <3>5
  <2>4. ActualTimespan(p) = ActualTimespan(q)
    BY <2>1, <2>3, Zenon DEF ActualTimespan
  <2>5. Retarget(p) = Retarget(q)
    BY <2>3, <2>4, ZenonT(60) DEF Retarget
  <2> QED  BY <1>0, <1>1, <1>4, <2>5 DEF GetNextWorkRequired
<1>5. CASE k # 1 /\ k % n # 0
  <2>1. Last(p) = p[k] /\ Last(q) = p[k]
    BY <1>1, <1>2, <1>5 DEF Last
  <2> DEFINE Marks(path) == {i \in DOMAIN path : \/ i = 1 \/ (i - 1) % nInterval = 0
                                                 \/ path[i].Bits # nProofOfWorkLimit}
  <2>2. Marks(p) = Marks(q)
    BY <1>1, <1>2
  <2>3. Max(Marks(p)) \in 1..k
    <3>1. Marks(p) \in SUBSET (1..k) /\ 1 \in Marks(p)
      BY <1>1
    <3> HIDE DEF Marks
    <3> QED  BY <1>1, <3>1, MaxOf
  <2>4. p[Max(Marks(p))].Bits = q[Max(Marks(q))].Bits
    <3> HIDE DEF Marks
    <3> QED  BY <1>2, <2>2, <2>3
  <2>5. TestnetWork(p, ts) = TestnetWork(q, ts)
    BY <2>1, <2>4, Zenon DEF TestnetWork
  <2> QED  BY <1>0, <1>1, <1>5, <2>1, <2>5 DEF GetNextWorkRequired
<1> QED  BY <1>3, <1>4, <1>5

(* The target that is required of a child of a node depends on what comes  *)
(* before it only, and on the Timestamp of the root only where the first   *)
(* period ends.                                                            *)
LEMMA RequiredStays ==
  ASSUME TargetInv, [Next]_vars, NEW b, b.prev \in Nat, HasParent(b)
  PROVE  \/ Required(b)' = Required(b)
         \/ b.prev + 1 = nInterval /\ chain[1].Timestamp # chain'[1].Timestamp
<1> DEFINE h == Len(chain)
<1>1. PICK S : chain \in Seq(S)
  BY DEF TargetInv, ChainOK
<1>2. h \in Nat /\ h >= 1 /\ DOMAIN chain = 1..h /\ Height(chain) = h - 1
  BY <1>1 DEF TargetInv, ChainOK, Height
<1>3. PICK k : k = b.prev + 1
  OBVIOUS
<1>4. k \in 1..h
  BY <1>2, <1>3 DEF HasParent
<1>5. testnet' = testnet
  BY DEF Next, CheckBlock, CheckGenesis, Restart, TimePasses, vars
<1>6. PICK p, q : p = SubSeq(chain, 1, k) /\ q = SubSeq(chain', 1, k)
  OBVIOUS
<1>7. Required(b) = GetNextWorkRequired(p, b.time)
  BY <1>3, <1>6 DEF Required
<1>8. Required(b)' = GetNextWorkRequired(q, b.time)
  BY <1>3, <1>5, <1>6 DEF Required, GetNextWorkRequired
<1>9. CASE \E node : chain' = Append(chain, node)
  <2>1. p = q
    BY <1>1, <1>2, <1>4, <1>6, <1>9
  <2> QED  BY <1>7, <1>8, <2>1
<1>10. CASE UNCHANGED chain
  BY <1>6, <1>7, <1>8, <1>10
<1>11. CASE \E ts : chain' = [chain EXCEPT ![1] = Root(ts)]
  <2> SUFFICES ASSUME ~(b.prev + 1 = nInterval /\ chain[1].Timestamp # chain'[1].Timestamp)
               PROVE  GetNextWorkRequired(p, b.time) = GetNextWorkRequired(q, b.time)
    BY <1>7, <1>8
  <2>1. PICK ts : chain' = [chain EXCEPT ![1] = Root(ts)]
    BY <1>11
  <2>2. PICK T : T = S \cup {Root(ts)}
    OBVIOUS
  <2>3. chain \in Seq(T) /\ chain' \in Seq(T) /\ Len(chain') = h
    BY <1>1, <1>2, <2>1, <2>2
  <2>4. p \in Seq(T) /\ q \in Seq(T) /\ Len(p) = k /\ Len(q) = k
        /\ \A i \in 1..k : p[i] = chain[i] /\ q[i] = chain'[i]
    BY <1>2, <1>4, <1>6, <2>3
  <2>5. \A i \in 2..k : p[i] = q[i]
    BY <1>2, <1>4, <2>1, <2>4
  <2>6. p[1].Bits = q[1].Bits
    <3>1. chain'[1] = Root(ts) /\ chain[1].Bits = nProofOfWorkLimit
      BY <1>2, <2>1 DEF TargetInv, StartsEasy
    <3> QED  BY <1>4, <2>4, <3>1 DEF Root
  <2>7. k = nInterval => p[1].Timestamp = q[1].Timestamp
    BY <1>3, <1>4, <2>4
  <2> QED  BY <1>4, <2>4, <2>5, <2>6, <2>7, PathsAlike
<1> QED  BY <1>9, <1>10, <1>11, Zenon DEF Next, CheckBlock, CheckGenesis, Restart, TimePasses, vars

(* The height of the parent of a block that is offered. *)
LEMMA PrevIsHeight ==
  ASSUME TargetInv, NEW bodies, NEW b \in NewBlocks(bodies)
  PROVE  b.prev \in Nat
<1>1. b.prev \in {Height(chain), Height(chain) + 1}
  BY Zenon DEF NewBlocks
<1>2. Height(chain) \in Nat
  <2>1. PICK S : chain \in Seq(S)
    BY DEF TargetInv, ChainOK
  <2> QED  BY <2>1 DEF TargetInv, ChainOK, Height
<1> QED  BY <1>1, <1>2

(* The ways an error can come to be none, of which only two blame. *)
LEMMA BlameIsTimeOrWork ==
  ASSUME [Next]_vars, NEW b, Dos(CheckError(b)), CheckError(b)' = ""
  PROVE  \/ CheckError(b) = "block timestamp too far in the future"
         \/ /\ CheckError(b) = "incorrect proof of work"
            /\ HasParent(b) /\ WorkError(b) /\ ~WorkError(b)'
<1>1. /\ ~(b.body.size < MinSize \/ b.body.size > MaxSize)
      /\ ~WorkError(b)' /\ BodyError(b.body) = ""
  BY Zenon DEF CheckError
<1>2. CheckError(b) \notin {"", "already in", "parent not found"}
  BY Zenon DEF Dos
<1> QED  BY <1>1, <1>2, Zenon DEF CheckError

(* A verdict against the sender of a block is final: for every length of a *)
(* period, and whatever step is taken after it.                            *)
THEOREM VerdictIsFinal == Spec => DosIsFinal
<1> DEFINE Final == \A b \in NewBlocks({body \in Bodies : BodyError(body) = ""}) :
       Dos(CheckError(b)) /\ CheckError(b)' = "" =>
         \/ CheckError(b) = "block timestamp too far in the future"
         \/ b.prev + 1 = nInterval /\ CheckError(b) = "incorrect proof of work"
            /\ chain[1].Timestamp # chain'[1].Timestamp
<1>1. TargetInv /\ [Next]_vars => Final
  <2> SUFFICES ASSUME TargetInv, [Next]_vars,
                      NEW b \in NewBlocks({body \in Bodies : BodyError(body) = ""}),
                      Dos(CheckError(b)), CheckError(b)' = "",
                      CheckError(b) # "block timestamp too far in the future"
               PROVE  /\ b.prev + 1 = nInterval /\ CheckError(b) = "incorrect proof of work"
                      /\ chain[1].Timestamp # chain'[1].Timestamp
    BY Zenon
  <2>1. /\ CheckError(b) = "incorrect proof of work"
        /\ HasParent(b) /\ WorkError(b) /\ ~WorkError(b)'
    BY BlameIsTimeOrWork, Zenon
  <2>2. b.prev \in Nat
    BY PrevIsHeight, Zenon
  <2>3. testnet' = testnet
    BY Zenon DEF Next, CheckBlock, CheckGenesis, Restart, TimePasses, vars
  <2>4. Required(b)' # Required(b)
    BY <2>1, <2>3, Zenon DEF WorkError
  <2>5. b.prev + 1 = nInterval /\ chain[1].Timestamp # chain'[1].Timestamp
    BY <2>1, <2>2, <2>4, RequiredStays, Zenon
  <2> QED  BY <2>1, <2>5, Zenon
<1>2. DosIsFinal <=> [][Final]_vars
  BY DEF DosIsFinal
<1> HIDE DEF Final
<1> QED  BY <1>1, <1>2, TargetInvariant, PTL DEF Spec
-----------------------------------------------------------------------------
(* Counting                                                                *)

(* What holds at the start of a count and is kept by it holds throughout. *)
LEMMA CountUp ==
  ASSUME NEW n \in Nat, NEW G \in SUBSET (0..n), 0 \in G,
         \A k \in 1..n : k - 1 \in G => k \in G
  PROVE  G = 0..n
<1> DEFINE Out == (0..n) \ G
<1> SUFFICES ASSUME Out # {} PROVE FALSE
  OBVIOUS
<1>1. Out \in SUBSET Nat
  OBVIOUS
<1>2. PICK m \in Out : \A k \in Out : m <= k
  <2> HIDE DEF Out
  <2> QED  BY <1>1, LeastOf
<1>3. m \in 1..n
  OBVIOUS
<1>4. m - 1 \notin Out
  BY <1>2, <1>3
<1> QED  BY <1>3, <1>4
-----------------------------------------------------------------------------
(* The tree over a list of transactions                                    *)

(* A sequence, of whatever. *)
IsList(x) == \E S : x \in Seq(S)

(* Its nodes, from the leaves to the root. *)
Leaves(s) == [i \in DOMAIN s |-> <<s[i]>>]
Above(x)  == IF Len(x) = 1 THEN x ELSE LevelAbove(x)
Levels(s, lvl) ==
  /\ lvl[0] = Leaves(s)
  /\ \A k \in 1..Len(s) : lvl[k] = Above(lvl[k - 1])

(* getMerkel builds the levels; there are no more than transactions. *)
LEMMA MerkelLevels ==
  ASSUME NEW s, IsList(s)
  PROVE  \E lvl : Levels(s, lvl) /\ getMerkel(s) = lvl[Len(s)][1]
<1> DEFINE n == Len(s)
           Does(f, k) == /\ f[0] = Leaves(s)
                         /\ \A j \in 1..k : f[j] = Above(f[j - 1])
           Solves(f) == f = [k \in 0..n |->
             IF k = 0 THEN [i \in DOMAIN s |-> <<s[i]>>]
             ELSE IF Len(f[k - 1]) = 1 THEN f[k - 1] ELSE LevelAbove(f[k - 1])]
           G == {k \in 0..n : \E f : Does(f, k)}
<1>1. n \in Nat
  BY DEF IsList
<1>2. 0 \in G
  <2> DEFINE f == [j \in 0..0 |-> Leaves(s)]
  <2>1. f[0] = Leaves(s) /\ 0 \in 0..n
    BY <1>1
  <2> HIDE DEF f
  <2>2. Does(f, 0)
    BY <2>1
  <2> HIDE DEF Does
  <2> QED  BY <2>1, <2>2
<1>3. ASSUME NEW k \in 1..n, k - 1 \in G PROVE k \in G
  <2>1. PICK f : Does(f, k - 1)
    BY <1>3
  <2> DEFINE g == [j \in 0..k |-> IF j = k THEN Above(f[k - 1]) ELSE f[j]]
  <2>2. g[0] = Leaves(s)
    BY <1>1, <2>1
  <2>3. ASSUME NEW j \in 1..k PROVE g[j] = Above(g[j - 1])
    <3>1. j - 1 \in 0..k /\ j - 1 # k /\ j \in 0..k
      BY <1>1
    <3>2. g[j - 1] = f[j - 1]
      BY <3>1
    <3>3. CASE j = k
      BY <3>1, <3>2, <3>3
    <3>4. CASE j # k
      <4>1. j \in 1..(k - 1) /\ g[j] = f[j]
        BY <1>1, <3>1, <3>4
      <4>2. f[j] = Above(f[j - 1])
        BY <2>1, <4>1
      <4> QED  BY <3>2, <4>1, <4>2
    <3> QED  BY <3>3, <3>4
  <2> HIDE DEF g
  <2>4. Does(g, k) /\ k \in 0..n
    BY <1>1, <2>2, <2>3
  <2> HIDE DEF Does
  <2> QED  BY <2>4
<1>4. PICK f : Does(f, n)
  <2>1. G \in SUBSET (0..n) /\ \A k \in 1..n : k - 1 \in G => k \in G
    BY <1>3
  <2>2. G = 0..n
    <3> HIDE DEF G
    <3> QED  BY <1>1, <1>2, <2>1, CountUp
  <2>3. n \in G
    <3> HIDE DEF G
    <3> QED  BY <1>1, <2>2
  <2> HIDE DEF Does
  <2> QED  BY <2>3
<1> DEFINE g == [k \in 0..n |-> f[k]]
<1>5. Solves(g)
  <2>1. ASSUME NEW k \in 0..n
        PROVE  g[k] = IF k = 0 THEN [i \in DOMAIN s |-> <<s[i]>>]
                      ELSE IF Len(g[k - 1]) = 1 THEN g[k - 1] ELSE LevelAbove(g[k - 1])
    <3>1. CASE k = 0
      BY <1>4, <3>1 DEF Leaves
    <3>2. CASE k # 0
      <4>1. k \in 1..n /\ k - 1 \in 0..n
        BY <1>1, <3>2
      <4>2. g[k] = f[k] /\ g[k - 1] = f[k - 1] /\ f[k] = Above(f[k - 1])
        BY <1>4, <4>1
      <4> QED  BY <3>2, <4>2, Zenon DEF Above
    <3> QED  BY <3>1, <3>2
  <2>2. g = [k \in 0..n |-> g[k]]
    OBVIOUS
  <2> HIDE DEF g
  <2> QED  BY <2>1, <2>2
<1>6. PICK lvl : Solves(lvl) /\ getMerkel(s) = lvl[n][1]
  <2>1. getMerkel(s) = (CHOOSE h : Solves(h))[n][1]
    BY DEF getMerkel
  <2> HIDE DEF Solves, g
  <2> QED  BY <1>5, <2>1
<1>7. lvl[0] = Leaves(s)
  BY <1>1, <1>6 DEF Leaves
<1>8. ASSUME NEW k \in 1..n PROVE lvl[k] = Above(lvl[k - 1])
  <2>1. k \in 0..n /\ k # 0
    BY <1>1
  <2>2. lvl[k] = IF Len(lvl[k - 1]) = 1 THEN lvl[k - 1] ELSE LevelAbove(lvl[k - 1])
    BY <1>6, <2>1
  <2> QED  BY <2>2, Zenon DEF Above
<1> QED  BY <1>6, <1>7, <1>8 DEF Levels

(* A level is a sequence without repetition, of hashes of one kind. *)
Distinct(x) == IsList(x) /\ Len(x) >= 1 /\ IsInjective(x)
AllLeaf(x)  == \A i \in 1..Len(x) : DOMAIN x[i] = 1..1
AllPair(x)  == \A i \in 1..Len(x) : DOMAIN x[i] = 1..2

(* The nodes of a level go into half as many, and the last of an odd       *)
(* number is its own partner.                                              *)
LEMMA Halves ==
  ASSUME NEW siz \in Nat, siz >= 1
  PROVE  LET p == (siz + 1) \div 2
         IN  /\ p \in Nat /\ p >= 1 /\ p <= siz /\ (siz = 2 * p \/ siz = 2 * p - 1)
             /\ \A k \in 1..p : /\ 2 * k - 1 \in 1..siz
                                /\ Partner(2 * k - 2, siz) + 1 =
                                     IF 2 * k <= siz THEN 2 * k ELSE siz
BY DEF Partner

(* The level above is as long as half of the level, and without repetition *)
(* if that is, because the left children differ.                           *)
LEMMA LevelAboveIs ==
  ASSUME NEW x, Distinct(x)
  PROVE  LET siz == Len(x)  p == (siz + 1) \div 2
         IN  /\ Len(LevelAbove(x)) = p
             /\ \A k \in 1..p : LevelAbove(x)[k] =
                  <<x[2 * k - 1], IF 2 * k <= siz THEN x[2 * k] ELSE x[siz]>>
             /\ Distinct(LevelAbove(x)) /\ AllPair(LevelAbove(x))
<1> DEFINE siz == Len(x)  p == (siz + 1) \div 2  y == LevelAbove(x)
<1>1. siz \in Nat /\ siz >= 1 /\ DOMAIN x = 1..siz
  BY DEF Distinct, IsList
<1>2. /\ p \in Nat /\ p >= 1 /\ p <= siz
      /\ \A k \in 1..p : /\ 2 * k - 1 \in 1..siz
                         /\ Partner(2 * k - 2, siz) + 1 = IF 2 * k <= siz THEN 2 * k ELSE siz
  BY <1>1, Halves
<1>3. y = [k \in 1..p |-> <<x[2 * k - 1], x[Partner(2 * k - 2, siz) + 1]>>]
  BY DEF LevelAbove
<1> HIDE DEF p, y
<1>4. \A k \in 1..p : y[k] = <<x[2 * k - 1], IF 2 * k <= siz THEN x[2 * k] ELSE x[siz]>>
  <2> SUFFICES ASSUME NEW k \in 1..p
               PROVE  x[Partner(2 * k - 2, siz) + 1] = IF 2 * k <= siz THEN x[2 * k] ELSE x[siz]
    BY <1>3
  <2>1. CASE 2 * k <= siz
    <3>1. Partner(2 * k - 2, siz) + 1 = 2 * k
      BY <1>2, <2>1
    <3> QED  BY <2>1, <3>1
  <2>2. CASE ~(2 * k <= siz)
    <3>1. Partner(2 * k - 2, siz) + 1 = siz
      BY <1>2, <2>2
    <3> QED  BY <2>2, <3>1
  <2> QED  BY <2>1, <2>2
<1>5. IsList(y) /\ Len(y) = p /\ DOMAIN y = 1..p
  <2>1. DOMAIN y = 1..p
    BY <1>3
  <2>2. y \in [1..p -> Range(y)]
    BY <1>3, <2>1 DEF Range
  <2>3. y \in Seq(Range(y)) /\ Len(y) = p
    BY <1>2, <2>2
  <2> QED  BY <2>1, <2>3 DEF IsList
<1>6. AllPair(y)
  BY <1>4, <1>5 DEF AllPair
<1>7. IsInjective(y)
  <2> SUFFICES ASSUME NEW j \in 1..p, NEW k \in 1..p, y[j] = y[k] PROVE j = k
    BY <1>5 DEF IsInjective
  <2>1. x[2 * j - 1] = x[2 * k - 1]
    BY <1>4
  <2>2. 2 * j - 1 \in 1..siz /\ 2 * k - 1 \in 1..siz
    BY <1>2
  <2>3. 2 * j - 1 = 2 * k - 1
    BY <1>1, <2>1, <2>2, SMTT(40) DEF Distinct, IsInjective
  <2> QED  BY <1>2, <2>3
<1>8. Distinct(y)
  BY <1>2, <1>5, <1>7 DEF Distinct
<1> QED  BY <1>4, <1>5, <1>6, <1>8 DEF p, y

(* A level without repetition is known from the one above it: a node that  *)
(* was hashed with itself is the last of an odd number.                    *)
LEMMA LevelAboveFixes ==
  ASSUME NEW x, NEW y, Distinct(x), Distinct(y), LevelAbove(x) = LevelAbove(y)
  PROVE  x = y
<1> DEFINE m == Len(x)  n == Len(y)  p == (m + 1) \div 2  q == (n + 1) \div 2
<1>1. /\ m \in Nat /\ m >= 1 /\ DOMAIN x = 1..m
      /\ n \in Nat /\ n >= 1 /\ DOMAIN y = 1..n
  BY DEF Distinct, IsList
<1>2. /\ p \in Nat /\ p >= 1 /\ (m = 2 * p \/ m = 2 * p - 1)
      /\ q \in Nat /\ q >= 1 /\ (n = 2 * q \/ n = 2 * q - 1)
  BY <1>1, Halves
<1>3. p = q
  <2>1. Len(LevelAbove(x)) = p /\ Len(LevelAbove(y)) = q
    BY LevelAboveIs
  <2> QED  BY <2>1
<1>4. \A k \in 1..p : /\ x[2 * k - 1] = y[2 * k - 1]
                      /\ (IF 2 * k <= m THEN x[2 * k] ELSE x[m]) =
                           IF 2 * k <= n THEN y[2 * k] ELSE y[n]
  <2> TAKE k \in 1..p
  <2>1. LevelAbove(x)[k] = <<x[2 * k - 1], IF 2 * k <= m THEN x[2 * k] ELSE x[m]>>
    BY LevelAboveIs
  <2>2. LevelAbove(y)[k] = <<y[2 * k - 1], IF 2 * k <= n THEN y[2 * k] ELSE y[n]>>
    BY <1>3, LevelAboveIs
  <2> DEFINE a == x[2 * k - 1]  b == IF 2 * k <= m THEN x[2 * k] ELSE x[m]
             c == y[2 * k - 1]  d == IF 2 * k <= n THEN y[2 * k] ELSE y[n]
  <2> HIDE DEF a, b, c, d
  <2>3. <<a, b>> = <<c, d>>
    BY <2>1, <2>2, Zenon DEF a, b, c, d
  <2>4. a = c /\ b = d
    BY <2>3
  <2> QED  BY <2>4, Zenon DEF a, b, c, d
<1> HIDE DEF m, n, p, q
<1>5. m = n
  <2>1. p \in 1..p
    BY <1>2
  <2>2. x[2 * p - 1] = y[2 * p - 1]
    BY <1>4, <2>1
  <2>3. ASSUME m = 2 * p, n = 2 * p - 1 PROVE FALSE
    <3>1. x[2 * p] = y[n]
      BY <1>2, <1>4, <2>1, <2>3
    <3>2. x[2 * p] = x[2 * p - 1] /\ 2 * p \in 1..m /\ 2 * p - 1 \in 1..m
      BY <1>2, <2>2, <2>3, <3>1
    <3>3. 2 * p = 2 * p - 1
      BY <1>1, <3>2 DEF Distinct, IsInjective
    <3> QED  BY <1>2, <3>3
  <2>4. ASSUME n = 2 * p, m = 2 * p - 1 PROVE FALSE
    <3>1. y[2 * p] = x[m]
      BY <1>2, <1>4, <2>1, <2>4
    <3>2. y[2 * p] = y[2 * p - 1] /\ 2 * p \in 1..n /\ 2 * p - 1 \in 1..n
      BY <1>2, <2>2, <2>4, <3>1
    <3>3. 2 * p = 2 * p - 1
      BY <1>1, <3>2 DEF Distinct, IsInjective
    <3> QED  BY <1>2, <3>3
  <2> QED  BY <1>2, <1>3, <2>3, <2>4
<1>6. \A i \in 1..m : x[i] = y[i]
  <2> TAKE i \in 1..m
  <2>1. PICK k \in 1..p : i = 2 * k - 1 \/ i = 2 * k
    <3>1. PICK k : k = (i + 1) \div 2
      OBVIOUS
    <3>2. i \in Nat /\ i >= 1
      BY <1>1
    <3>3. k \in Nat /\ (i = 2 * k - 1 \/ i = 2 * k)
      BY <3>1, <3>2
    <3>4. i <= m /\ p \in Nat /\ m \in Nat /\ m <= 2 * p
      BY <1>1, <1>2
    <3>5. k >= 1 /\ k <= p
      BY <3>2, <3>3, <3>4
    <3> QED  BY <3>3, <3>4, <3>5
  <2>2. CASE i = 2 * k - 1
    BY <1>4, <2>2
  <2>3. CASE i = 2 * k
    <3>1. 2 * k <= m /\ 2 * k <= n
      BY <1>1, <1>5, <2>3
    <3> QED  BY <1>4, <2>3, <3>1
  <2> QED  BY <2>1, <2>2, <2>3
<1>7. (\E S : x \in Seq(S)) /\ (\E S : y \in Seq(S))
  BY DEF Distinct, IsList
<1>8. x = [i \in 1..m |-> x[i]] /\ y = [i \in 1..n |-> y[i]]
  BY <1>1, <1>7
<1> QED  BY <1>5, <1>6, <1>8

(* What the levels over a list are: they shrink, down to a root, and all   *)
(* but the leaves are pairs.                                               *)
LEMMA LevelsAre ==
  ASSUME NEW s, Distinct(s), NEW lvl, Levels(s, lvl)
  PROVE  /\ \A k \in 0..Len(s) : Distinct(lvl[k]) /\ (Len(lvl[k]) = 1 \/ Len(lvl[k]) + k <= Len(s))
         /\ \A k \in 1..Len(s) : Len(lvl[k - 1]) # 1 => AllPair(lvl[k])
         /\ AllLeaf(lvl[0])
<1> DEFINE n == Len(s)
           G == {k \in 0..n : Distinct(lvl[k]) /\ (Len(lvl[k]) = 1 \/ Len(lvl[k]) + k <= n)}
<1>1. n \in Nat /\ n >= 1 /\ DOMAIN s = 1..n
  BY DEF Distinct, IsList
<1>2. lvl[0] = [i \in 1..n |-> <<s[i]>>]
  BY <1>1 DEF Levels, Leaves
<1>3. IsList(lvl[0]) /\ Len(lvl[0]) = n /\ DOMAIN lvl[0] = 1..n
  <2>1. DOMAIN lvl[0] = 1..n
    BY <1>2
  <2>2. lvl[0] \in [1..n -> Range(lvl[0])]
    BY <1>2, <2>1 DEF Range
  <2>3. lvl[0] \in Seq(Range(lvl[0])) /\ Len(lvl[0]) = n
    BY <1>1, <2>2
  <2> QED  BY <2>1, <2>3 DEF IsList
<1>4. \A i \in 1..n : lvl[0][i] = <<s[i]>>
  BY <1>2
<1>5. AllLeaf(lvl[0])
  BY <1>3, <1>4 DEF AllLeaf
<1>6. IsInjective(lvl[0])
  <2> SUFFICES ASSUME NEW j \in 1..n, NEW k \in 1..n, lvl[0][j] = lvl[0][k] PROVE j = k
    BY <1>3 DEF IsInjective
  <2>1. <<s[j]>> = <<s[k]>>
    BY <1>4
  <2>2. s[j] = s[k]
    BY <2>1
  <2> QED  BY <1>1, <2>2 DEF Distinct, IsInjective
<1>7. 0 \in G
  BY <1>1, <1>3, <1>6 DEF Distinct
<1>8. ASSUME NEW k \in 1..n, k - 1 \in G
      PROVE  k \in G /\ (Len(lvl[k - 1]) # 1 => AllPair(lvl[k]))
  <2>1. PICK x : x = lvl[k - 1]
    OBVIOUS
  <2>2. Distinct(x) /\ (Len(x) = 1 \/ Len(x) + (k - 1) <= n)
    BY <1>8, <2>1
  <2>3. lvl[k] = Above(x)
    BY <2>1 DEF Levels
  <2>4. CASE Len(x) = 1
    <3>1. lvl[k] = x
      BY <2>3, <2>4 DEF Above
    <3> QED  BY <1>1, <2>1, <2>2, <2>4, <3>1
  <2>5. CASE Len(x) # 1
    <3>1. lvl[k] = LevelAbove(x)
      BY <2>3, <2>5, Zenon DEF Above
    <3>2. Distinct(lvl[k]) /\ AllPair(lvl[k]) /\ Len(lvl[k]) = (Len(x) + 1) \div 2
      BY <2>2, <3>1, LevelAboveIs
    <3>3. PICK m : m = Len(x)
      OBVIOUS
    <3>4. m \in Nat /\ m >= 2
      BY <2>2, <2>5, <3>3 DEF Distinct, IsList
    <3>5. (m + 1) \div 2 <= m - 1
      BY <3>4
    <3>6. Len(lvl[k]) + k <= n
      <4>1. PICK l : l = (m + 1) \div 2
        OBVIOUS
      <4>2. l \in Nat /\ l <= m - 1
        BY <3>4, <3>5, <4>1
      <4>3. Len(lvl[k]) = l /\ m + (k - 1) <= n
        BY <2>2, <2>5, <3>2, <3>3, <4>1
      <4> QED  BY <1>1, <3>4, <4>2, <4>3
    <3>7. k \in 0..n
      BY <1>1
    <3>8. k \in G
      BY <3>2, <3>6, <3>7, Zenon
    <3> HIDE DEF G
    <3> QED  BY <3>2, <3>8, Zenon
  <2> HIDE DEF G
  <2> QED  BY <2>4, <2>5, Zenon
<1>9. G = 0..n
  <2>1. G \in SUBSET (0..n) /\ \A k \in 1..n : k - 1 \in G => k \in G
    BY <1>8
  <2> HIDE DEF G
  <2> QED  BY <1>1, <1>7, <2>1, CountUp
<1>10. \A k \in 0..n : k \in G
  <2> HIDE DEF G
  <2> QED  BY <1>9
<1>11. \A k \in 1..n : k - 1 \in G
  <2> HIDE DEF G
  <2> QED  BY <1>1, <1>9
<1> QED  BY <1>5, <1>8, <1>10, <1>11

(* The first level that is a root, from the lists's length down; from there*)
(* on nothing changes.                                                     *)
LEMMA RootLevel ==
  ASSUME NEW s, Distinct(s), NEW lvl, Levels(s, lvl)
  PROVE  \E a \in 0..Len(s) :
           /\ Len(lvl[a]) = 1 /\ lvl[a][1] = lvl[Len(s)][1]
           /\ \A k \in 1..a : Len(lvl[k - 1]) # 1
<1> DEFINE n == Len(s)
           G == {k \in 0..n : \A j \in 0..k : Len(lvl[j]) # 1}
           Same(a) == {k \in 0..(n - a) : lvl[a + k] = lvl[a]}
<1>1. n \in Nat /\ n >= 1
  BY DEF Distinct, IsList
<1>2. Len(lvl[n]) = 1
  <2>1. Distinct(lvl[n]) /\ (Len(lvl[n]) = 1 \/ Len(lvl[n]) + n <= n)
    BY <1>1, LevelsAre
  <2>2. Len(lvl[n]) \in Nat /\ Len(lvl[n]) >= 1
    BY <2>1 DEF Distinct, IsList
  <2> QED  BY <1>1, <2>1, <2>2
<1>3. PICK a \in 0..n : Len(lvl[a]) = 1 /\ \A k \in 0..n : k < a => Len(lvl[k]) # 1
  <2> DEFINE R == {k \in 0..n : Len(lvl[k]) = 1}
  <2>1. R \in SUBSET Nat /\ n \in R
    BY <1>1, <1>2
  <2>2. PICK a \in R : \A k \in R : a <= k
    <3> HIDE DEF R
    <3> QED  BY <2>1, LeastOf
  <2>3. \A k \in 0..n : k < a => k \notin R
    BY <1>1, <2>2
  <2> QED  BY <2>2, <2>3
<1>4. 0 \in Same(a)
  BY <1>1
<1>5. ASSUME NEW k \in 1..(n - a), k - 1 \in Same(a) PROVE k \in Same(a)
  <2>1. a + k \in 1..n /\ (a + k) - 1 = a + (k - 1) /\ k \in 0..(n - a)
    BY <1>1
  <2>2. lvl[a + k] = Above(lvl[a + (k - 1)])
    BY <2>1 DEF Levels
  <2>3. lvl[a + k] = lvl[a]
    BY <1>3, <1>5, <2>2 DEF Above
  <2> QED  BY <2>1, <2>3
<1>6. n - a \in Same(a)
  <2>1. n - a \in Nat /\ Same(a) \in SUBSET (0..(n - a))
    BY <1>1
  <2>2. Same(a) = 0..(n - a)
    <3> HIDE DEF Same
    <3> QED  BY <1>4, <1>5, <2>1, CountUp
  <2> HIDE DEF Same
  <2> QED  BY <2>1, <2>2
<1>7. lvl[n] = lvl[a]
  <2>1. a + (n - a) = n
    BY <1>1
  <2> QED  BY <1>6, <2>1
<1>8. \A k \in 1..a : k - 1 \in 0..n /\ k - 1 < a
  BY <1>1
<1> QED  BY <1>3, <1>7, <1>8

(* The root fixes the list, if it repeats nothing: from equal roots on the *)
(* levels are equal down to the leaves of one of the trees, and there they *)
(* are leaves of the other one too, for they are no pairs.                 *)
LEMMA MerkelFixes ==
  ASSUME NEW s, NEW t, Distinct(s), Distinct(t), getMerkel(s) = getMerkel(t)
  PROVE  s = t
<1> DEFINE m == Len(s)  n == Len(t)
<1>1. m \in Nat /\ n \in Nat /\ DOMAIN s = 1..m /\ DOMAIN t = 1..n /\ IsList(s) /\ IsList(t)
  BY DEF Distinct, IsList
<1>2. PICK x : Levels(s, x) /\ getMerkel(s) = x[m][1]
  BY <1>1, MerkelLevels
<1>3. PICK y : Levels(t, y) /\ getMerkel(t) = y[n][1]
  BY <1>1, MerkelLevels
<1>4. PICK a \in 0..m : /\ Len(x[a]) = 1 /\ x[a][1] = x[m][1]
                        /\ \A k \in 1..a : Len(x[k - 1]) # 1
  BY <1>2, RootLevel
<1>5. PICK b \in 0..n : /\ Len(y[b]) = 1 /\ y[b][1] = y[n][1]
                        /\ \A k \in 1..b : Len(y[k - 1]) # 1
  BY <1>3, RootLevel
<1>6. /\ \A k \in 0..m : Distinct(x[k])
      /\ \A k \in 1..a : AllPair(x[k]) /\ x[k] = LevelAbove(x[k - 1])
      /\ AllLeaf(x[0])
  <2>1. \A k \in 0..m : Distinct(x[k])
    BY <1>2, LevelsAre
  <2>2. AllLeaf(x[0])
    BY <1>2, LevelsAre
  <2>3. ASSUME NEW k \in 1..a PROVE AllPair(x[k]) /\ x[k] = LevelAbove(x[k - 1])
    <3>1. k \in 1..m /\ Len(x[k - 1]) # 1
      BY <1>1, <1>4
    <3>2. x[k] = Above(x[k - 1])
      BY <1>2, <3>1 DEF Levels
    <3>3. AllPair(x[k])
      BY <1>2, <3>1, LevelsAre
    <3> QED  BY <3>1, <3>2, <3>3, Zenon DEF Above
  <2> QED  BY <2>1, <2>2, <2>3
<1>7. /\ \A k \in 0..n : Distinct(y[k])
      /\ \A k \in 1..b : AllPair(y[k]) /\ y[k] = LevelAbove(y[k - 1])
      /\ AllLeaf(y[0])
  <2>1. \A k \in 0..n : Distinct(y[k])
    BY <1>3, LevelsAre
  <2>2. AllLeaf(y[0])
    BY <1>3, LevelsAre
  <2>3. ASSUME NEW k \in 1..b PROVE AllPair(y[k]) /\ y[k] = LevelAbove(y[k - 1])
    <3>1. k \in 1..n /\ Len(y[k - 1]) # 1
      BY <1>1, <1>5
    <3>2. y[k] = Above(y[k - 1])
      BY <1>3, <3>1 DEF Levels
    <3>3. AllPair(y[k])
      BY <1>3, <3>1, LevelsAre
    <3> QED  BY <3>1, <3>2, <3>3, Zenon DEF Above
  <2> QED  BY <2>1, <2>2, <2>3
<1>8. x[a] = y[b]
  <2>1. PICK u, v : u = x[a] /\ v = y[b]
    OBVIOUS
  <2>2. IsList(u) /\ IsList(v) /\ Len(u) = 1 /\ Len(v) = 1 /\ u[1] = v[1]
    BY <1>2, <1>3, <1>4, <1>5, <1>6, <1>7, <2>1 DEF Distinct
  <2>3. u = [i \in 1..1 |-> u[1]] /\ v = [i \in 1..1 |-> v[1]]
    BY <2>2 DEF IsList
  <2> QED  BY <2>1, <2>2, <2>3
<1>9. PICK c : c = IF a <= b THEN a ELSE b
  OBVIOUS
<1>10. c \in Nat /\ c <= a /\ c <= b /\ (c = a \/ c = b)
  BY <1>1, <1>9
<1> DEFINE G == {d \in 0..c : x[a - d] = y[b - d]}
<1>11. 0 \in G
  BY <1>1, <1>8, <1>10
<1>12. ASSUME NEW d \in 1..c, d - 1 \in G PROVE d \in G
  <2>1. PICK j, k : j = a - (d - 1) /\ k = b - (d - 1)
    OBVIOUS
  <2>2. /\ j \in 1..a /\ k \in 1..b /\ j - 1 = a - d /\ k - 1 = b - d
        /\ j - 1 \in 0..m /\ k - 1 \in 0..n
    BY <1>1, <1>10, <2>1
  <2>3. x[j] = y[k]
    BY <1>12, <2>1
  <2>4. LevelAbove(x[j - 1]) = LevelAbove(y[k - 1])
    BY <1>6, <1>7, <2>2, <2>3, Zenon
  <2>5. Distinct(x[j - 1]) /\ Distinct(y[k - 1])
    BY <1>6, <1>7, <2>2
  <2>6. x[j - 1] = y[k - 1]
    BY <2>4, <2>5, LevelAboveFixes, Zenon
  <2> QED  BY <1>10, <2>2, <2>6
<1>13. x[a - c] = y[b - c]
  <2>1. G \in SUBSET (0..c) /\ \A d \in 1..c : d - 1 \in G => d \in G
    BY <1>12
  <2>2. c \in G
    <3> HIDE DEF G
    <3>1. G = 0..c
      BY <1>10, <1>11, <2>1, CountUp
    <3> QED  BY <1>10, <3>1
  <2> QED  BY <2>2
<1>14. a = b
  <2>1. ASSUME c = a, b # a PROVE FALSE
    <3>1. b - c \in 1..b /\ a - c = 0 /\ b - c \in 0..n
      BY <1>1, <1>10, <2>1
    <3>2. AllPair(x[0]) /\ AllLeaf(x[0]) /\ Distinct(x[0])
      BY <1>6, <1>7, <1>13, <3>1
    <3>3. 1 \in 1..Len(x[0])
      BY <3>2 DEF Distinct, IsList
    <3>4. 1..1 = 1..2
      BY <3>2, <3>3, Zenon DEF AllPair, AllLeaf
    <3>5. 2 \in 1..2 /\ 2 \notin 1..1
      OBVIOUS
    <3> QED  BY <3>4, <3>5
  <2>2. ASSUME c = b, b # a PROVE FALSE
    <3>1. a - c \in 1..a /\ b - c = 0 /\ a - c \in 0..m
      BY <1>1, <1>10, <2>2
    <3>2. AllPair(y[0]) /\ AllLeaf(y[0]) /\ Distinct(y[0])
      BY <1>6, <1>7, <1>13, <3>1
    <3>3. 1 \in 1..Len(y[0])
      BY <3>2 DEF Distinct, IsList
    <3>4. 1..1 = 1..2
      BY <3>2, <3>3, Zenon DEF AllPair, AllLeaf
    <3>5. 2 \in 1..2 /\ 2 \notin 1..1
      OBVIOUS
    <3> QED  BY <3>4, <3>5
  <2> QED  BY <1>10, <2>1, <2>2
<1>15. x[0] = y[0]
  <2>1. a - c = 0 /\ b - c = 0
    BY <1>1, <1>10, <1>14, SMTT(40)
  <2> QED  BY <1>13, <2>1
<1>16. [i \in 1..m |-> <<s[i]>>] = [i \in 1..n |-> <<t[i]>>]
  BY <1>1, <1>2, <1>3, <1>15 DEF Levels, Leaves
<1>17. m = n
  <2>1. 1..m = 1..n
    BY <1>16
  <2>2. m >= 1 /\ n >= 1
    BY DEF Distinct
  <2> HIDE DEF m, n
  <2>3. m \in 1..n /\ n \in 1..m
    BY <1>1, <2>1, <2>2
  <2> QED  BY <1>1, <2>3
<1>18. \A i \in 1..m : s[i] = t[i]
  <2> TAKE i \in 1..m
  <2>1. <<s[i]>> = <<t[i]>>
    BY <1>16, <1>17
  <2> QED  BY <2>1
<1>19. s = [i \in 1..m |-> s[i]] /\ t = [i \in 1..n |-> t[i]]
  BY <1>1 DEF IsList
<1> QED  BY <1>17, <1>18, <1>19

-----------------------------------------------------------------------------
(* The lists of the accepted blocks are those of blocks that were offered, *)
(* and not empty.                                                          *)
ListsOK == \A h \in 2..Len(chain) : IsList(chain[h].txs) /\ Len(chain[h].txs) >= 1

(* A block that passes has a list, with a coinbase in it.                  *)
LEMMA ListsKeep ==
  ASSUME TargetInv, ListsOK, [Next]_vars
  PROVE  ListsOK'
<1>1. PICK S : chain \in Seq(S)
  BY DEF TargetInv, ChainOK
<1>2. Len(chain) \in Nat /\ Len(chain) >= 1 /\ DOMAIN chain = 1..Len(chain)
  BY <1>1 DEF TargetInv, ChainOK
<1>3. CASE CheckBlock
  <2>1. PICK b \in NewBlocks(Bodies) :
          /\ CheckError(b) = ""
          /\ chain' = Append(chain, [Timestamp |-> b.time, Bits |-> b.bits, txs |-> b.body.txs])
    BY <1>3, Zenon DEF CheckBlock
  <2>2. b.body \in Bodies
    BY Zenon DEF NewBlocks
  <2>3. BodyError(b.body) = ""
    BY <2>1, Zenon DEF CheckError
  <2>4. b.body.txs # <<>>
    BY <2>3, Zenon DEF BodyError
  <2>5. b.body.txs \in Seq(ToSet(b.body.txs))
    BY <2>2, ListsAssumption
  <2>6. IsList(b.body.txs) /\ Len(b.body.txs) >= 1
    BY <2>4, <2>5 DEF IsList
  <2>7. PICK node : node = [Timestamp |-> b.time, Bits |-> b.bits, txs |-> b.body.txs]
    OBVIOUS
  <2>8. chain' = Append(chain, node)
    BY <2>1, <2>7, Zenon
  <2>9. node.txs = b.body.txs
    BY <2>7
  <2>10. Len(chain') = Len(chain) + 1 /\ chain'[Len(chain) + 1] = node
         /\ \A h \in 1..Len(chain) : chain'[h] = chain[h]
    BY <1>1, <1>2, <2>8
  <2> SUFFICES ASSUME NEW h \in 2..Len(chain')
               PROVE  IsList(chain'[h].txs) /\ Len(chain'[h].txs) >= 1
    BY DEF ListsOK
  <2>11. CASE h = Len(chain) + 1
    BY <2>6, <2>9, <2>10, <2>11
  <2>12. CASE h # Len(chain) + 1
    <3>1. h \in 2..Len(chain) /\ h \in 1..Len(chain)
      BY <1>2, <2>10, <2>12
    <3> QED  BY <2>10, <3>1 DEF ListsOK
  <2> QED  BY <2>11, <2>12
<1>4. CASE \E ts : chain' = [chain EXCEPT ![1] = Root(ts)]
  <2>1. Len(chain') = Len(chain) /\ \A h \in 2..Len(chain) : chain'[h] = chain[h]
    BY <1>1, <1>2, <1>4
  <2> QED  BY <2>1 DEF ListsOK
<1>5. CASE UNCHANGED chain
  BY <1>5 DEF ListsOK
<1> QED  BY <1>3, <1>4, <1>5, Zenon DEF Next, CheckGenesis, Restart, TimePasses, vars

(* The Merkle root in the header of an accepted block tells its list of     *)
(* transactions from all other lists that repeat none: for lists of any     *)
(* length, and all of them.                                                 *)
THEOREM RootTellsTheList == Spec => []RootFixesTheList
<1>1. Init => ListsOK
  <2> SUFFICES ASSUME Init PROVE ListsOK
    OBVIOUS
  <2>1. chain = <<Root(0)>>
    BY DEF Init
  <2>2. Len(chain) = 1
    BY <2>1
  <2> QED  BY <2>2 DEF ListsOK
<1>2. TargetInv /\ ListsOK /\ [Next]_vars => ListsOK'
  BY ListsKeep
<1>3. ListsOK => RootFixesTheList
  <2> DEFINE All    == TxLists \cup {chain[h].txs : h \in 2..Len(chain)}
             lists  == {s \in All : IsInjective(s)}
             rooted == {[list |-> s, root |-> getMerkel(s)] : s \in lists}
  <2> SUFFICES ASSUME ListsOK, NEW a \in rooted, NEW b \in rooted, a.root = b.root
               PROVE  a.list = b.list
    BY Zenon DEF RootFixesTheList
  <2>1. PICK s \in lists, t \in lists :
          a = [list |-> s, root |-> getMerkel(s)] /\ b = [list |-> t, root |-> getMerkel(t)]
    BY Zenon
  <2>2. ASSUME NEW u \in All
        PROVE  IsList(u) /\ Len(u) >= 1
    <3>1. CASE u \in TxLists
      <4>1. u \in Seq(ToSet(u)) /\ u # <<>>
        BY <3>1, ListsAssumption
      <4> QED  BY <4>1 DEF IsList
    <3>2. CASE \E h \in 2..Len(chain) : u = chain[h].txs
      BY <3>2 DEF ListsOK
    <3> QED  BY <3>1, <3>2
  <2>3. Distinct(s) /\ Distinct(t)
    BY <2>2 DEF Distinct
  <2>4. a.root = getMerkel(s) /\ b.root = getMerkel(t) /\ a.list = s /\ b.list = t
    BY <2>1
  <2>5. s = t
    BY <2>3, <2>4, MerkelFixes, Zenon
  <2> QED  BY <2>4, <2>5, Zenon
<1> QED  BY <1>1, <1>2, <1>3, TargetInvariant, PTL DEF Spec
-----------------------------------------------------------------------------
(* Numbers and their bytes                                                 *)

(* The quotient and the remainder of a division.                           *)
LEMMA Quotient ==
  ASSUME NEW a \in Nat, NEW b \in Nat, b > 0, NEW q \in Nat, NEW r \in Nat,
         r < b, a = b * q + r
  PROVE  a \div b = q /\ a % b = r
<1>1. PICK p \in Nat, s \in 0..(b - 1) : a = b * p + s /\ p = a \div b /\ s = a % b
  <2>1. a \div b \in Nat /\ a % b \in 0..(b - 1) /\ a = b * (a \div b) + (a % b)
    OBVIOUS
  <2> QED  BY <2>1
<1>2. ASSUME p > q PROVE FALSE
  <2>1. PICK d \in Nat : p = q + 1 + d
    <3>1. p - q - 1 \in Nat /\ p = q + 1 + (p - q - 1)
      BY <1>2
    <3> QED  BY <3>1
  <2>2. b * p = b * q + b + b * d /\ b * d \in Nat /\ b * q \in Nat
    BY <2>1
  <2>3. PICK x, y, z : x = b * p /\ y = b * q /\ z = b * d
    OBVIOUS
  <2> QED  BY <1>1, <2>2, <2>3
<1>3. ASSUME q > p PROVE FALSE
  <2>1. PICK d \in Nat : q = p + 1 + d
    <3>1. q - p - 1 \in Nat /\ q = p + 1 + (q - p - 1)
      BY <1>3
    <3> QED  BY <3>1
  <2>2. b * q = b * p + b + b * d /\ b * d \in Nat /\ b * p \in Nat
    BY <2>1
  <2>3. PICK x, y, z : x = b * p /\ y = b * q /\ z = b * d
    OBVIOUS
  <2> QED  BY <1>1, <2>2, <2>3
<1>4. p = q
  BY <1>2, <1>3
<1>5. s = r
  <2>1. PICK x : x = b * q /\ x \in Nat
    OBVIOUS
  <2>2. a = x + s /\ a = x + r
    BY <1>1, <1>4, <2>1
  <2> QED  BY <2>1, <2>2
<1> QED  BY <1>1, <1>4, <1>5

(* The powers of Byte.                                                     *)
LEMMA PowerIs ==
  /\ Power[0] = 1
  /\ \A k \in Nat : Power[k + 1] = Byte * Power[k] /\ Power[k] \in Nat /\ Power[k] >= 1
<1> DEFINE Does(f, k) == f[0] = 1 /\ \A j \in 1..k : f[j] = Byte * f[j - 1]
           Solves(f) == f = [k \in Nat |-> IF k = 0 THEN 1 ELSE Byte * f[k - 1]]
           A(k) == CHOOSE v : \E f : Does(f, k) /\ v = f[k]
<1>1. Byte \in Nat /\ Byte >= 1
  BY CodecAssumption
<1>2. ASSUME NEW k \in Nat
      PROVE  /\ \E f : Does(f, k)
             /\ \A f, g : Does(f, k) /\ Does(g, k) => f[k] = g[k]
  <2> DEFINE G == {j \in 0..k : /\ \E f : Does(f, j)
                                /\ \A f, g : Does(f, j) /\ Does(g, j) => f[j] = g[j]}
  <2>1. 0 \in G
    <3> DEFINE f == [j \in 0..0 |-> 1]
    <3>1. f[0] = 1 /\ 0 \in 0..k
      OBVIOUS
    <3> HIDE DEF f
    <3>2. Does(f, 0)
      BY <3>1
    <3>3. \A g, h : Does(g, 0) /\ Does(h, 0) => g[0] = h[0]
      OBVIOUS
    <3> HIDE DEF Does
    <3> QED  BY <3>1, <3>2, <3>3
  <2>2. ASSUME NEW i \in 1..k, i - 1 \in G PROVE i \in G
    <3>1. PICK f : Does(f, i - 1)
      BY <2>2
    <3> DEFINE g == [j \in 0..i |-> IF j = i THEN Byte * f[i - 1] ELSE f[j]]
    <3>2. g[0] = 1
      BY <3>1
    <3>3. ASSUME NEW j \in 1..i PROVE g[j] = Byte * g[j - 1]
      <4>1. j - 1 \in 0..i /\ j - 1 # i /\ j \in 0..i
        OBVIOUS
      <4>2. g[j - 1] = f[j - 1]
        BY <4>1
      <4>3. CASE j = i
        BY <4>1, <4>2, <4>3
      <4>4. CASE j # i
        <5>1. j \in 1..(i - 1) /\ g[j] = f[j]
          BY <4>1, <4>4
        <5>2. f[j] = Byte * f[j - 1]
          BY <3>1, <5>1
        <5> QED  BY <4>2, <5>1, <5>2
      <4> QED  BY <4>3, <4>4
    <3> HIDE DEF g
    <3>4. Does(g, i)
      BY <3>2, <3>3
    <3>5. ASSUME NEW h1, NEW h2, Does(h1, i), Does(h2, i) PROVE h1[i] = h2[i]
      <4>1. Does(h1, i - 1) /\ Does(h2, i - 1)
        BY <3>5
      <4>2. h1[i - 1] = h2[i - 1]
        <5> HIDE DEF Does
        <5> QED  BY <2>2, <4>1
      <4>3. i \in 1..i
        OBVIOUS
      <4>4. h1[i] = Byte * h1[i - 1] /\ h2[i] = Byte * h2[i - 1]
        BY <3>5, <4>3
      <4> QED  BY <4>2, <4>4
    <3>6. i \in 0..k
      OBVIOUS
    <3> HIDE DEF Does
    <3> QED  BY <3>4, <3>5, <3>6
  <2>3. k \in G
    <3>1. G \in SUBSET (0..k) /\ \A i \in 1..k : i - 1 \in G => i \in G
      BY <2>2
    <3>2. G = 0..k
      <4> HIDE DEF G
      <4> QED  BY <2>1, <3>1, CountUp
    <3> HIDE DEF G
    <3> QED  BY <3>2
  <2> HIDE DEF Does
  <2> QED  BY <2>3
<1>3. ASSUME NEW k \in Nat, NEW f, Does(f, k) PROVE A(k) = f[k]
  <2>1. \E v : \E g : Does(g, k) /\ v = g[k]
    BY <1>3
  <2>2. PICK g : Does(g, k) /\ A(k) = g[k]
    <3> HIDE DEF Does
    <3> QED  BY <2>1
  <2>3. g[k] = f[k]
    <3> HIDE DEF Does
    <3> QED  BY <1>2, <1>3, <2>2
  <2> QED  BY <2>2, <2>3
<1>4. A(0) = 1
  <2>1. PICK f : Does(f, 0)
    <3> HIDE DEF Does
    <3> QED  BY <1>2
  <2>2. A(0) = f[0]
    <3> HIDE DEF Does, A
    <3> QED  BY <1>3, <2>1
  <2> QED  BY <2>1, <2>2
<1>5. ASSUME NEW k \in Nat, k # 0 PROVE A(k) = Byte * A(k - 1)
  <2>1. PICK f : Does(f, k)
    <3> HIDE DEF Does
    <3> QED  BY <1>2
  <2>2. k - 1 \in Nat /\ k \in 1..k
    BY <1>5
  <2>3. Does(f, k - 1) /\ f[k] = Byte * f[k - 1]
    BY <2>1, <2>2
  <2>4. A(k) = f[k] /\ A(k - 1) = f[k - 1]
    <3> HIDE DEF Does, A
    <3> QED  BY <1>3, <2>1, <2>2, <2>3
  <2> QED  BY <2>3, <2>4
<1> DEFINE p == [k \in Nat |-> A(k)]
<1>6. Solves(p)
  <2> HIDE DEF A
  <2>1. ASSUME NEW k \in Nat PROVE p[k] = IF k = 0 THEN 1 ELSE Byte * p[k - 1]
    <3>1. CASE k = 0
      BY <1>4, <3>1
    <3>2. CASE k # 0
      <4>1. k - 1 \in Nat
        BY <3>2
      <4> QED  BY <1>5, <3>2, <4>1
    <3> QED  BY <3>1, <3>2
  <2>2. p = [k \in Nat |-> p[k]]
    OBVIOUS
  <2> HIDE DEF p
  <2> QED  BY <2>1, <2>2
<1>7. Solves(Power)
  <2>1. Power = CHOOSE f : Solves(f)
    BY DEF Power
  <2> HIDE DEF Solves, p
  <2> QED  BY <1>6, <2>1
<1>8. \A k \in Nat : Power[k] = IF k = 0 THEN 1 ELSE Byte * Power[k - 1]
  BY <1>7
<1>9. Power[0] = 1
  BY <1>8
<1>10. ASSUME NEW k \in Nat PROVE Power[k + 1] = Byte * Power[k]
  <2>1. k + 1 \in Nat /\ k + 1 # 0 /\ (k + 1) - 1 = k
    OBVIOUS
  <2> QED  BY <1>8, <2>1
<1>11. ASSUME NEW k \in Nat PROVE Power[k] \in Nat /\ Power[k] >= 1
  <2> DEFINE G == {j \in 0..k : Power[j] \in Nat /\ Power[j] >= 1}
  <2>1. 0 \in G
    BY <1>9
  <2>2. ASSUME NEW j \in 1..k, j - 1 \in G PROVE j \in G
    <3>1. j - 1 \in Nat /\ (j - 1) + 1 = j /\ j \in 0..k
      OBVIOUS
    <3>2. Power[j] = Byte * Power[j - 1]
      BY <1>10, <3>1
    <3>3. PICK x : x = Power[j - 1]
      OBVIOUS
    <3>4. x \in Nat /\ x >= 1
      BY <2>2, <3>3
    <3>5. Byte * x \in Nat /\ Byte * x >= 1
      BY <1>1, <3>4
    <3> QED  BY <3>1, <3>2, <3>3, <3>5
  <2>3. G = 0..k
    <3>1. G \in SUBSET (0..k)
      BY SMTT(40)
    <3> HIDE DEF G
    <3> QED  BY <2>1, <2>2, <3>1, CountUp
  <2>4. k \in G
    <3> HIDE DEF G
    <3> QED  BY <2>3
  <2> QED  BY <2>4
<1> QED  BY <1>9, <1>10, <1>11

(* Division by a product is division by its factors, one after the other.  *)
LEMMA DivTwice ==
  ASSUME NEW n \in Nat, NEW p \in Nat, p >= 1, NEW b \in Nat, b >= 1
  PROVE  /\ n \div (b * p) = (n \div p) \div b
         /\ n % (b * p) = (n % p) + ((n \div p) % b) * p
<1>1. PICK q \in Nat, r \in 0..(p - 1) : n = p * q + r /\ q = n \div p /\ r = n % p
  <2>1. n \div p \in Nat /\ n % p \in 0..(p - 1) /\ n = p * (n \div p) + (n % p)
    OBVIOUS
  <2> QED  BY <2>1
<1>2. PICK e \in Nat, d \in 0..(b - 1) : q = b * e + d /\ e = q \div b /\ d = q % b
  <2>1. q \div b \in Nat /\ q % b \in 0..(b - 1) /\ q = b * (q \div b) + (q % b)
    OBVIOUS
  <2> QED  BY <2>1
<1>3. n = (b * p) * e + (r + d * p)
  <2>1. p * q = (b * p) * e + d * p
    BY <1>2
  <2>2. PICK x, y, z : x = p * q /\ y = (b * p) * e /\ z = d * p
    OBVIOUS
  <2>3. x \in Nat /\ y \in Nat /\ z \in Nat
    BY <2>2
  <2> QED  BY <1>1, <2>1, <2>2, <2>3
<1>4. r + d * p < b * p /\ r + d * p \in Nat /\ b * p \in Nat /\ b * p > 0
  <2>1. PICK c \in Nat : b = d + 1 + c
    <3>1. b - d - 1 \in Nat /\ b = d + 1 + (b - d - 1)
      OBVIOUS
    <3> QED  BY <3>1
  <2>2. b * p = d * p + p + c * p /\ c * p \in Nat /\ d * p \in Nat
    BY <2>1
  <2>3. PICK x, y, z : x = b * p /\ y = d * p /\ z = c * p
    OBVIOUS
  <2> QED  BY <2>2, <2>3
<1>5. n \div (b * p) = e /\ n % (b * p) = r + d * p
  <2>1. PICK x, y : x = b * p /\ y = r + d * p
    OBVIOUS
  <2>2. x \in Nat /\ x > 0 /\ y \in Nat /\ y < x /\ n = x * e + y
    BY <1>3, <1>4, <2>1
  <2>3. n \div x = e /\ n % x = y
    BY <2>2, Quotient
  <2> QED  BY <2>1, <2>3
<1> QED  BY <1>1, <1>2, <1>5

(* What was written byte by byte is read again. *)
LEMMA NumberOfLittle ==
  ASSUME NEW n \in Nat, NEW c \in Nat
  PROVE  /\ Little(n, c) \in Seq(Nat) /\ Len(Little(n, c)) = c
         /\ Number(Little(n, c)) = n % Power[c]
<1> DEFINE s == Little(n, c)
           Solves(f) == f = [k \in 0..Len(s) |->
                               IF k = 0 THEN 0 ELSE f[k - 1] + s[k] * Power[k - 1]]
<1>1. Byte \in Nat /\ Byte >= 1
  BY CodecAssumption
<1>2. \A k \in 1..c : s[k] = (n \div Power[k - 1]) % Byte /\ s[k] \in Nat
  <2> TAKE k \in 1..c
  <2>1. s[k] = (n \div Power[k - 1]) % Byte
    BY DEF Little
  <2>2. PICK p : p = Power[k - 1]
    OBVIOUS
  <2>3. k - 1 \in Nat
    OBVIOUS
  <2>4. p \in Nat /\ p >= 1
    BY <2>2, <2>3, PowerIs
  <2>5. PICK q : q = n \div p
    OBVIOUS
  <2>6. q \in Nat
    BY <2>4, <2>5
  <2>7. q % Byte \in Nat
    BY <1>1, <2>6
  <2> QED  BY <2>1, <2>2, <2>5, <2>7
<1>3. s \in Seq(Nat) /\ Len(s) = c
  <2>1. s = [k \in 1..c |-> s[k]]
    BY DEF Little
  <2> HIDE DEF s
  <2>2. s \in [1..c -> Nat]
    BY <1>2, <2>1
  <2> QED  BY <2>2
<1>4. ASSUME NEW k \in 1..c
      PROVE  /\ k \in 0..c /\ k - 1 \in 0..c
             /\ n % Power[k] = (n % Power[k - 1]) + s[k] * Power[k - 1]
  <2>1. PICK p : p = Power[k - 1]
    OBVIOUS
  <2>2. k - 1 \in Nat /\ (k - 1) + 1 = k
    OBVIOUS
  <2>3. p \in Nat /\ p >= 1 /\ Power[k] = Byte * p
    BY <2>1, <2>2, PowerIs
  <2>4. n % (Byte * p) = (n % p) + ((n \div p) % Byte) * p
    BY <1>1, <2>3, DivTwice
  <2> QED  BY <1>2, <2>1, <2>3, <2>4
<1>5. n % Power[0] = 0
  BY PowerIs
<1> DEFINE g == [k \in 0..c |-> n % Power[k]]
<1>6. Solves(g)
  <2>1. ASSUME NEW k \in 0..c
        PROVE  g[k] = IF k = 0 THEN 0 ELSE g[k - 1] + s[k] * Power[k - 1]
    <3>1. CASE k = 0
      BY <1>5, <3>1
    <3>2. CASE k # 0
      <4>1. k \in 1..c
        BY <3>2
      <4>2. g[k] = n % Power[k] /\ g[k - 1] = n % Power[k - 1]
        BY <1>4, <4>1
      <4> HIDE DEF g, s
      <4> QED  BY <1>4, <3>2, <4>1, <4>2
    <3> QED  BY <3>1, <3>2
  <2>2. g = [k \in 0..c |-> g[k]]
    OBVIOUS
  <2> HIDE DEF g, s
  <2> QED  BY <1>3, <2>1, <2>2
<1>7. PICK f : Solves(f) /\ Number(s) = f[c]
  <2>1. Number(s) = (CHOOSE f : Solves(f))[Len(s)]
    BY DEF Number
  <2> HIDE DEF Solves, g, s
  <2> QED  BY <1>3, <1>6, <2>1
<1> HIDE DEF s, g
<1>8. \A k \in 0..c : f[k] = IF k = 0 THEN 0 ELSE f[k - 1] + s[k] * Power[k - 1]
  BY <1>3, <1>7
<1> DEFINE G == {k \in 0..c : f[k] = n % Power[k]}
<1>9. 0 \in G
  BY <1>5, <1>8
<1>10. ASSUME NEW k \in 1..c, k - 1 \in G PROVE k \in G
  <2>1. k \in 0..c /\ k # 0
    OBVIOUS
  <2>2. f[k] = f[k - 1] + s[k] * Power[k - 1]
    BY <1>8, <2>1
  <2>3. f[k - 1] = n % Power[k - 1]
    BY <1>10
  <2>4. n % Power[k] = (n % Power[k - 1]) + s[k] * Power[k - 1]
    BY <1>4
  <2>5. f[k] = n % Power[k]
    BY <2>2, <2>3, <2>4, Zenon
  <2> QED  BY <2>1, <2>5
<1>11. c \in G
  <2>1. G \in SUBSET (0..c)
    OBVIOUS
  <2>2. G = 0..c
    <3> HIDE DEF G
    <3> QED  BY <1>9, <1>10, <2>1, CountUp
  <2> HIDE DEF G
  <2> QED  BY <2>2
<1> QED  BY <1>3, <1>7, <1>11 DEF s

(* What both readers make of a length that either of the writers wrote. *)
LEMMA LengthComesBack ==
  ASSUME NEW n \in Nat, n < Power[4],
         NEW bytes \in {StoreVarLen(n), WriteVarLen(n)}
  PROVE  ReadVarLen(bytes) = n /\ LoadVarLen(bytes) = [len |-> n, size |-> Len(bytes)]
<1>1. Byte \in Nat /\ Byte >= 6 /\ xFD = Byte - 3 /\ xFE = Byte - 2
  BY CodecAssumption DEF xFD, xFE
<1>2. CASE n < xFD
  <2>1. bytes = <<n>>
    BY <1>2 DEF StoreVarLen, WriteVarLen
  <2> QED  BY <1>2, <2>1 DEF ReadVarLen, LoadVarLen
<1>3. ASSUME NEW c \in Nat, NEW first, bytes = <<first>> \o Little(n, c), n < Power[c],
             first = xFD \/ first = xFE, c = FollowingBytes(first)
      PROVE  ReadVarLen(bytes) = n /\ LoadVarLen(bytes) = [len |-> n, size |-> Len(bytes)]
  <2>1. PICK s : s = Little(n, c)
    OBVIOUS
  <2>2. s \in Seq(Nat) /\ Len(s) = c /\ Number(s) = n % Power[c]
    BY <2>1, NumberOfLittle
  <2>3. first \in Nat /\ ~(first < xFD)
    BY <1>1, <1>3
  <2>4. bytes \in Seq(Nat) /\ Len(bytes) = 1 + c /\ bytes[1] = first
        /\ SubSeq(bytes, 2, 1 + c) = s
    BY <1>3, <2>1, <2>2, <2>3
  <2>5. n % Power[c] = n
    <3>1. PICK p : p = Power[c]
      OBVIOUS
    <3>2. p \in Nat /\ p >= 1
      BY <3>1, PowerIs
    <3>3. n < p /\ n = p * 0 + n
      BY <1>3, <3>1, <3>2
    <3>4. n % p = n
      BY <3>2, <3>3, Quotient
    <3> QED  BY <3>1, <3>4
  <2>6. ReadVarLen(bytes) = n
    BY <1>3, <2>2, <2>3, <2>4, <2>5 DEF ReadVarLen
  <2>7. LoadVarLen(bytes) = [len |-> n, size |-> Len(bytes)]
    BY <1>3, <2>3, <2>4, <2>6 DEF LoadVarLen
  <2> QED  BY <2>6, <2>7
<1>4. FollowingBytes(xFD) = 2 /\ FollowingBytes(xFE) = 4
  BY <1>1 DEF FollowingBytes
<1>5. CASE ~(n < xFD) /\ n < Power[2] /\ bytes = WriteVarLen(n)
  <2>1. bytes = <<xFD>> \o Little(n, 2)
    BY <1>5 DEF WriteVarLen
  <2> QED  BY <1>3, <1>4, <1>5, <2>1
<1>6. CASE ~(n < xFD) /\ ~(n < Power[2] /\ bytes = WriteVarLen(n))
  <2>1. bytes = <<xFE>> \o Little(n, 4)
    BY <1>6 DEF WriteVarLen, StoreVarLen
  <2> QED  BY <1>3, <1>4, <2>1
<1> QED  BY <1>2, <1>5, <1>6

(* Where the two writers differ. *)
LEMMA WritersDiffer ==
  ASSUME NEW n \in Nat
  PROVE  (StoreVarLen(n) # WriteVarLen(n)) <=> (xFD <= n /\ n < Power[2])
<1>1. Byte \in Nat /\ Byte >= 6 /\ xFD = Byte - 3 /\ xFE = Byte - 2
  BY CodecAssumption DEF xFD, xFE
<1>2. Power[2] \in Nat
  BY PowerIs
<1>3. CASE n < xFD
  BY <1>1, <1>3 DEF StoreVarLen, WriteVarLen
<1>4. CASE ~(n < xFD) /\ ~(n < Power[2])
  BY <1>1, <1>2, <1>4 DEF StoreVarLen, WriteVarLen
<1>5. CASE ~(n < xFD) /\ n < Power[2]
  <2>1. PICK s, t : s = Little(n, 2) /\ t = Little(n, 4)
    OBVIOUS
  <2>2. s \in Seq(Nat) /\ t \in Seq(Nat) /\ Len(s) = 2 /\ Len(t) = 4
    BY <2>1, NumberOfLittle
  <2>3. StoreVarLen(n) = <<xFE>> \o t /\ WriteVarLen(n) = <<xFD>> \o s
    BY <1>5, <2>1 DEF StoreVarLen, WriteVarLen
  <2>4. Len(<<xFE>> \o t) = 5 /\ Len(<<xFD>> \o s) = 3
    <3>1. \A x \in Nat, v \in Seq(Nat) : <<x>> \o v \in Seq(Nat) /\ Len(<<x>> \o v) = 1 + Len(v)
      OBVIOUS
    <3>2. xFE \in Nat /\ xFD \in Nat
      BY <1>1
    <3>3. Len(<<xFE>> \o t) = 1 + Len(t) /\ Len(<<xFD>> \o s) = 1 + Len(s)
      BY <2>2, <3>1, <3>2
    <3> QED  BY <2>2, <3>3
  <2>5. StoreVarLen(n) # WriteVarLen(n)
    BY <2>3, <2>4
  <2> QED  BY <1>1, <1>5, <2>5
<1> QED  BY <1>3, <1>4, <1>5

-----------------------------------------------------------------------------
(* The lists of the accepted blocks are of lengths that can be encoded. *)
CountsOK == \A h \in 1..Len(chain) : Len(chain[h].txs) \in Nat /\ Len(chain[h].txs) < Power[4]

(* Half of a number.                                                       *)
LEMMA HalfOf ==
  ASSUME NEW n \in Nat
  PROVE  n \div 2 \in Nat /\ n \div 2 <= n
OBVIOUS

(* The root has no transactions.                                           *)
LEMMA RootCount ==
  ASSUME NEW ts
  PROVE  Len(Root(ts).txs) \in Nat /\ Len(Root(ts).txs) < Power[4]
<1>1. Power[4] \in Nat /\ Power[4] >= 1
  BY PowerIs
<1>2. Len(Root(ts).txs) = 0
  BY DEF Root
<1> QED  BY <1>1, <1>2

(* A block that passes has as many transactions as its body.               *)
LEMMA CountsKeep ==
  ASSUME TargetInv, CountsOK, [Next]_vars
  PROVE  CountsOK'
<1>1. PICK S : chain \in Seq(S)
  BY DEF TargetInv, ChainOK
<1>2. Len(chain) \in Nat /\ Len(chain) >= 1 /\ DOMAIN chain = 1..Len(chain)
  BY <1>1 DEF TargetInv, ChainOK
<1>3. CASE CheckBlock
  <2>1. PICK b \in NewBlocks(Bodies) :
          chain' = Append(chain, [Timestamp |-> b.time, Bits |-> b.bits, txs |-> b.body.txs])
    BY <1>3, Zenon DEF CheckBlock
  <2>2. b.body \in Bodies
    BY Zenon DEF NewBlocks
  <2>3. PICK node : node = [Timestamp |-> b.time, Bits |-> b.bits, txs |-> b.body.txs]
    OBVIOUS
  <2>4. Len(node.txs) \in Nat /\ Len(node.txs) < Power[4]
    <3>1. b.body.txs \in Seq(ToSet(b.body.txs)) /\ Len(b.body.txs) < Power[4] \div 2
      BY <2>2, ListsAssumption
    <3>2. PICK l, p : l = Len(b.body.txs) /\ p = Power[4]
      OBVIOUS
    <3>3. l \in Nat /\ p \in Nat /\ l < p \div 2
      <4>1. Len(b.body.txs) \in Nat
        BY <3>1
      <4>2. Power[4] \in Nat
        BY PowerIs
      <4> QED  BY <3>1, <3>2, <4>1, <4>2, Zenon
    <3>4. p \div 2 \in Nat /\ p \div 2 <= p
      BY <3>3, HalfOf
    <3>5. l < p
      BY <3>3, <3>4
    <3> QED  BY <2>3, <3>2, <3>3, <3>5
  <2>5. chain' = Append(chain, node)
    BY <2>1, <2>3, Zenon
  <2>6. Len(chain') = Len(chain) + 1 /\ chain'[Len(chain) + 1] = node
        /\ \A h \in 1..Len(chain) : chain'[h] = chain[h]
    BY <1>1, <1>2, <2>5
  <2> SUFFICES ASSUME NEW h \in 1..Len(chain')
               PROVE  Len(chain'[h].txs) \in Nat /\ Len(chain'[h].txs) < Power[4]
    BY DEF CountsOK
  <2>7. CASE h = Len(chain) + 1
    BY <2>4, <2>6, <2>7
  <2>8. CASE h # Len(chain) + 1
    <3>1. h \in 1..Len(chain)
      BY <1>2, <2>6, <2>8
    <3> QED  BY <2>6, <3>1 DEF CountsOK
  <2> QED  BY <2>7, <2>8
<1>4. CASE \E ts : chain' = [chain EXCEPT ![1] = Root(ts)]
  <2>1. PICK ts : chain' = [chain EXCEPT ![1] = Root(ts)]
    BY <1>4
  <2>2. /\ Len(chain') = Len(chain) /\ chain'[1] = Root(ts)
        /\ \A h \in 2..Len(chain) : chain'[h] = chain[h]
    BY <1>1, <1>2, <2>1
  <2> SUFFICES ASSUME NEW h \in 1..Len(chain)
               PROVE  Len(chain'[h].txs) \in Nat /\ Len(chain'[h].txs) < Power[4]
    BY <2>2 DEF CountsOK
  <2>3. CASE h = 1
    BY <2>2, <2>3, RootCount
  <2>4. CASE h # 1
    <3>1. h \in 2..Len(chain)
      BY <1>2, <2>4
    <3> QED  BY <2>2, <3>1 DEF CountsOK
  <2> QED  BY <2>3, <2>4
<1>5. CASE UNCHANGED chain
  BY <1>5 DEF CountsOK
<1> QED  BY <1>3, <1>4, <1>5, Zenon DEF Next, CheckGenesis, Restart, TimePasses, vars

(* Whatever length is written, with whichever of the two ways, both ways    *)
(* to read give it back and know how much to skip; and the two ways to      *)
(* write differ where the code does not return: for bytes of any number of  *)
(* values, and all lengths.                                                 *)
THEOREM LengthsAreRead == Spec => []LengthsComeBack
<1>1. Init => CountsOK
  <2> SUFFICES ASSUME Init PROVE CountsOK
    OBVIOUS
  <2>1. chain = <<Root(0)>>
    BY DEF Init
  <2>2. Len(chain) = 1 /\ chain[1] = Root(0)
    BY <2>1
  <2> QED  BY <2>2, RootCount DEF CountsOK
<1>2. TargetInv /\ CountsOK /\ [Next]_vars => CountsOK'
  BY CountsKeep
<1>3. TargetInv /\ CountsOK => LengthsComeBack
  <2> SUFFICES ASSUME TargetInv, CountsOK,
                      NEW n \in Lengths \cup {Len(chain[h].txs) : h \in DOMAIN chain}
               PROVE  /\ \A bytes \in {StoreVarLen(n), WriteVarLen(n)} :
                           /\ ReadVarLen(bytes) = n
                           /\ LoadVarLen(bytes) = [len |-> n, size |-> Len(bytes)]
                      /\ (StoreVarLen(n) # WriteVarLen(n)) <=> (xFD <= n /\ n < Power[2])
    BY Zenon DEF LengthsComeBack
  <2>1. n \in Nat /\ n < Power[4]
    <3>1. CASE n \in Lengths
      <4>1. PICK p : p = Power[4]
        OBVIOUS
      <4>2. p \in Nat /\ n \in 0..(p \div 2 - 1)
        BY <3>1, <4>1, PowerIs, CodecAssumption
      <4>3. p \div 2 \in Nat /\ p \div 2 <= p
        BY <4>2, HalfOf
      <4>4. n \in Nat /\ n < p
        BY <4>2, <4>3
      <4> QED  BY <4>1, <4>4
    <3>2. CASE \E h \in DOMAIN chain : n = Len(chain[h].txs)
      BY <3>2 DEF CountsOK, TargetInv, ChainOK
    <3> QED  BY <3>1, <3>2
  <2>2. \A bytes \in {StoreVarLen(n), WriteVarLen(n)} :
          ReadVarLen(bytes) = n /\ LoadVarLen(bytes) = [len |-> n, size |-> Len(bytes)]
    BY <2>1, LengthComesBack
  <2>3. (StoreVarLen(n) # WriteVarLen(n)) <=> (xFD <= n /\ n < Power[2])
    BY <2>1, WritersDiffer
  <2> QED  BY <2>2, <2>3
<1> QED  BY <1>1, <1>2, <1>3, TargetInvariant, PTL DEF Spec

-----------------------------------------------------------------------------
(* The compact form of a target                                            *)

(* Products and quotients, in the order of their factors. *)
LEMMA Products ==
  ASSUME NEW a \in Nat, NEW b \in Nat, NEW p \in Nat, p >= 1
  PROVE  /\ a * p \in Nat /\ (a * p) \div p = a
         /\ a <= b => a * p <= b * p
         /\ a < b => a * p < b * p /\ a * p + p <= b * p
         /\ a * p < b * p + p => a <= b
<1>1. a * p \in Nat /\ b * p \in Nat
  OBVIOUS
<1>2. (a * p) \div p = a
  <2>1. a * p = p * a + 0 /\ 0 < p
    OBVIOUS
  <2> QED  BY <1>1, <2>1, Quotient
<1>3. ASSUME NEW x \in Nat, NEW y \in Nat, x < y
      PROVE  x * p + p <= y * p
  <2>1. PICK d \in Nat : y = x + 1 + d
    <3>1. y - x - 1 \in Nat /\ y = x + 1 + (y - x - 1)
      BY <1>3
    <3> QED  BY <3>1
  <2>2. y * p = x * p + p + d * p /\ d * p \in Nat /\ x * p \in Nat
    BY <2>1
  <2>3. PICK u, v, w : u = x * p /\ v = y * p /\ w = d * p
    OBVIOUS
  <2> QED  BY <2>2, <2>3
<1>4. a < b => a * p < b * p /\ a * p + p <= b * p
  <2> SUFFICES ASSUME a < b PROVE a * p < b * p /\ a * p + p <= b * p
    OBVIOUS
  <2>1. a * p + p <= b * p
    BY <1>3
  <2>2. PICK u, v : u = a * p /\ v = b * p
    OBVIOUS
  <2> QED  BY <1>1, <2>1, <2>2
<1>5. a <= b => a * p <= b * p
  <2>1. CASE a = b
    BY <1>1, <2>1
  <2>2. CASE a < b
    <3>1. PICK u, v : u = a * p /\ v = b * p
      OBVIOUS
    <3> QED  BY <1>1, <1>4, <2>2, <3>1
  <2> QED  BY <2>1, <2>2
<1>6. a * p < b * p + p => a <= b
  <2> SUFFICES ASSUME a * p < b * p + p, b < a PROVE FALSE
    OBVIOUS
  <2>1. b * p + p <= a * p
    BY <1>3
  <2>2. PICK u, v : u = a * p /\ v = b * p
    OBVIOUS
  <2> QED  BY <1>1, <2>1, <2>2
<1> QED  BY <1>1, <1>2, <1>4, <1>5, <1>6

(* A quotient in terms of products.                                        *)
LEMMA Quotients ==
  ASSUME NEW a \in Nat, NEW b \in Nat, NEW p \in Nat, p >= 1
  PROVE  /\ a \div p \in Nat /\ (a \div p) * p <= a /\ a < (a \div p) * p + p
         /\ a < b * p => a \div p < b
         /\ b * p <= a => b <= a \div p
<1>1. PICK q \in Nat, r \in 0..(p - 1) : a = p * q + r /\ q = a \div p
  <2>1. a \div p \in Nat /\ a % p \in 0..(p - 1) /\ a = p * (a \div p) + (a % p)
    OBVIOUS
  <2> QED  BY <2>1
<1>2. PICK x, y : x = q * p /\ y = b * p
  OBVIOUS
<1>3. x \in Nat /\ y \in Nat /\ a = x + r
  BY <1>1, <1>2
<1>4. x <= a /\ a < x + p
  BY <1>1, <1>3
<1>5. a < y => q < b
  <2> SUFFICES ASSUME a < y, b <= q PROVE FALSE
    BY <1>1
  <2>1. y <= x
    BY <1>1, <1>2, Products
  <2> QED  BY <1>3, <1>4, <2>1
<1>6. y <= a => b <= q
  <2> SUFFICES ASSUME y <= a, q < b PROVE FALSE
    BY <1>1
  <2>1. x + p <= y
    BY <1>1, <1>2, Products
  <2> QED  BY <1>3, <1>4, <2>1
<1> QED  BY <1>1, <1>2, <1>4, <1>5, <1>6

(* Shifts add up.                                                          *)
LEMMA PowerAdd ==
  ASSUME NEW j \in Nat, NEW k \in Nat
  PROVE  Power[j + k] = Power[j] * Power[k]
<1> DEFINE G == {i \in 0..k : Power[j + i] = Power[j] * Power[i]}
<1>1. 0 \in G
  BY PowerIs
<1>2. ASSUME NEW i \in 1..k, i - 1 \in G PROVE i \in G
  <2>1. /\ i - 1 \in Nat /\ (i - 1) + 1 = i /\ i \in 0..k
        /\ j + (i - 1) \in Nat /\ (j + (i - 1)) + 1 = j + i
    OBVIOUS
  <2>2. Power[i] = Byte * Power[i - 1] /\ Power[j + i] = Byte * Power[j + (i - 1)]
    BY <2>1, PowerIs
  <2>3. Power[j + (i - 1)] = Power[j] * Power[i - 1]
    BY <1>2
  <2>4. PICK p, q : p = Power[j] /\ q = Power[i - 1]
    OBVIOUS
  <2>5. p \in Nat /\ q \in Nat /\ Byte \in Nat
    BY <2>1, <2>4, PowerIs, CodecAssumption
  <2>6. Byte * (p * q) = p * (Byte * q)
    BY <2>5
  <2> QED  BY <2>1, <2>2, <2>3, <2>4, <2>6
<1>3. k \in G
  <2>1. G \in SUBSET (0..k)
    OBVIOUS
  <2>2. G = 0..k
    <3> HIDE DEF G
    <3> QED  BY <1>1, <1>2, <2>1, CountUp
  <2> HIDE DEF G
  <2> QED  BY <2>2
<1> QED  BY <1>3

(* More bytes have more values, and more values than bytes.                *)
LEMMA PowerGrows ==
  ASSUME NEW j \in Nat, NEW k \in Nat, j <= k
  PROVE  Power[j] <= Power[k] /\ k < Power[k]
<1>1. Power[j] <= Power[k]
  <2>1. k - j \in Nat /\ j + (k - j) = k
    OBVIOUS
  <2>2. Power[k] = Power[j] * Power[k - j]
    BY <2>1, PowerAdd
  <2>3. PICK p, q : p = Power[j] /\ q = Power[k - j]
    OBVIOUS
  <2>4. p \in Nat /\ q \in Nat /\ q >= 1
    BY <2>1, <2>3, PowerIs
  <2>5. 1 * p <= q * p
    <3>1. CASE p = 0
      BY <2>4, <3>1
    <3>2. CASE p >= 1
      BY <2>4, <3>2, Products
    <3> QED  BY <2>4, <3>1, <3>2
  <2>6. p <= p * q
    BY <2>4, <2>5
  <2> QED  BY <2>2, <2>3, <2>6
<1>2. k < Power[k]
  <2> DEFINE G == {i \in 0..k : i < Power[i]}
  <2>1. 0 \in G
    BY PowerIs
  <2>2. ASSUME NEW i \in 1..k, i - 1 \in G PROVE i \in G
    <3>1. i - 1 \in Nat /\ (i - 1) + 1 = i /\ i \in 0..k /\ i - 1 < Power[i - 1]
      BY <2>2
    <3>2. PICK p : p = Power[i - 1]
      OBVIOUS
    <3>3. p \in Nat /\ Power[i] = Byte * p /\ i <= p
      BY <3>1, <3>2, PowerIs
    <3>4. Byte * p >= 6 * p
      <4>1. p >= 1
        BY <3>1, <3>3
      <4>2. 6 * p <= Byte * p
        BY <3>3, <4>1, Products, CodecAssumption
      <4>3. PICK x : x = Byte * p
        OBVIOUS
      <4>4. x \in Nat
        BY <3>3, <4>3, CodecAssumption
      <4> QED  BY <3>3, <4>2, <4>3, <4>4
    <3>5. PICK x : x = Byte * p
      OBVIOUS
    <3>6. x \in Nat /\ x >= 6 * p
      BY <3>3, <3>4, <3>5, CodecAssumption
    <3>7. i < x
      BY <3>1, <3>3, <3>6
    <3> QED  BY <3>1, <3>3, <3>5, <3>7
  <2>3. k \in G
    <3>1. G \in SUBSET (0..k)
      OBVIOUS
    <3>2. G = 0..k
      <4> HIDE DEF G
      <4> QED  BY <2>1, <2>2, <3>1, CountUp
    <3> HIDE DEF G
    <3> QED  BY <3>2
  <2> QED  BY <2>3
<1> QED  BY <1>1, <1>2

(* A number needs as many bytes as have room for it, and no fewer do.      *)
LEMMA BytesOfIs ==
  ASSUME NEW n \in Nat
  PROVE  /\ BytesOf(n) \in Nat /\ n < Power[BytesOf(n)]
         /\ \A j \in Nat : j < BytesOf(n) => Power[j] <= n
<1> DEFINE R == {k \in 0..n : n < Power[k]}
           Is(k) == n < Power[k] /\ \A j \in 0..(k - 1) : Power[j] <= n
<1>1. R \in SUBSET Nat /\ n \in R
  BY PowerGrows
<1>2. PICK k \in R : \A e \in R : k <= e
  <2> HIDE DEF R
  <2> QED  BY <1>1, LeastOf
<1>3. Is(k) /\ k \in 0..n
  <2>1. ASSUME NEW j \in 0..(k - 1) PROVE Power[j] <= n
    <3>1. j \in 0..n /\ j < k
      BY <1>2
    <3>2. j \notin R
      <4> HIDE DEF R
      <4>1. k \in Nat /\ (j \in R => k <= j)
        BY <1>1, <1>2
      <4> QED  BY <3>1, <4>1
    <3>3. ~(n < Power[j]) /\ Power[j] \in Nat
      BY <3>1, <3>2, PowerIs
    <3> QED  BY <3>3
  <2> QED  BY <1>2, <2>1
<1>4. Is(BytesOf(n)) /\ BytesOf(n) \in 0..n
  <2>1. BytesOf(n) = CHOOSE i \in 0..n : Is(i)
    BY DEF BytesOf
  <2> HIDE DEF Is
  <2> QED  BY <1>3, <2>1
<1>5. \A j \in Nat : j < BytesOf(n) => j \in 0..(BytesOf(n) - 1)
  BY <1>4
<1> QED  BY <1>4, <1>5

(* A half of three bytes, and what it is in terms of two and one.          *)
LEMMA SignBitIs ==
  /\ SignBit \in Nat /\ SignBit >= 1 /\ Power[3] = 2 * SignBit /\ Power[3] \in Nat
  /\ Power[1] = Byte /\ Power[2] = Byte * Byte /\ Power[3] = Byte * Power[2]
  /\ Power[2] \in Nat /\ Power[2] <= SignBit
  /\ \E h \in Nat : Byte = 2 * h /\ SignBit = (h * Byte) * Byte /\ Power[2] = 2 * (h * Byte)
<1>1. Byte \in Nat /\ Byte >= 6 /\ Byte % 2 = 0
  BY CodecAssumption
<1>2. Power[1] = Byte /\ Power[2] = Byte * Byte /\ Power[3] = Byte * Power[2]
  <2>1. Power[1] = Byte * Power[0]
    <3>1. 0 \in Nat /\ 0 + 1 = 1
      OBVIOUS
    <3> QED  BY <3>1, PowerIs
  <2>2. Power[2] = Byte * Power[1]
    <3>1. 1 \in Nat /\ 1 + 1 = 2
      OBVIOUS
    <3> QED  BY <3>1, PowerIs
  <2>3. Power[3] = Byte * Power[2]
    <3>1. 2 \in Nat /\ 2 + 1 = 3
      OBVIOUS
    <3> QED  BY <3>1, PowerIs
  <2>4. Power[0] = 1
    BY PowerIs
  <2> QED  BY <1>1, <2>1, <2>2, <2>3, <2>4
<1>3. PICK h \in Nat : Byte = 2 * h /\ h >= 3
  <2>1. Byte \div 2 \in Nat /\ Byte = 2 * (Byte \div 2)
    BY <1>1
  <2>2. PICK h : h = Byte \div 2
    OBVIOUS
  <2>3. h \in Nat /\ Byte = 2 * h
    BY <2>1, <2>2
  <2>4. h >= 3
    BY <1>1, <2>3
  <2> QED  BY <2>3, <2>4
<1>4. PICK s : s = (h * Byte) * Byte
  OBVIOUS
<1>5. s \in Nat /\ Power[3] = 2 * s
  <2>1. Power[3] = Byte * (Byte * Byte)
    BY <1>2
  <2>2. (2 * h) * (Byte * Byte) = 2 * ((h * Byte) * Byte)
    BY <1>1, <1>3
  <2> QED  BY <1>1, <1>3, <1>4, <2>1, <2>2
<1>6. SignBit = s
  BY <1>5 DEF SignBit
<1>7. PICK p : p = Byte * Byte
  OBVIOUS
<1>8. p \in Nat /\ p >= 1
  <2>1. 1 * Byte <= Byte * Byte
    BY <1>1, Products
  <2> QED  BY <1>1, <1>7, <2>1
<1>9. s = h * p
  BY <1>1, <1>3, <1>4, <1>7
<1>10. p <= s /\ s >= 1
  <2>1. 1 * p <= h * p
    BY <1>3, <1>8, Products
  <2> QED  BY <1>5, <1>8, <1>9, <2>1
<1>11. Power[2] = 2 * (h * Byte)
  <2>1. (2 * h) * Byte = 2 * (h * Byte)
    BY <1>1, <1>3
  <2> QED  BY <1>2, <1>3, <2>1
<1> QED  BY <1>2, <1>3, <1>4, <1>5, <1>6, <1>7, <1>8, <1>10, <1>11

(* What a word of a size and a mantissa without the sign stands for. *)
Worth(s, m) == IF s <= 3 THEN m \div Power[3 - s] ELSE m * Power[s - 3]

(* A word that is put together from them is taken apart again.             *)
LEMMA WordIs ==
  ASSUME NEW s \in Nat, NEW m \in Nat, m < SignBit
  PROVE  /\ m + s * Power[3] \in Nat
         /\ SetCompact(m + s * Power[3]) = Worth(s, m) /\ Worth(s, m) \in Nat
<1>1. PICK p, g : p = Power[3] /\ g = SignBit
  OBVIOUS
<1>2. p \in Nat /\ p >= 1 /\ g \in Nat /\ g >= 1 /\ p = 2 * g /\ m < g /\ m < p
  BY <1>1, SignBitIs
<1>3. PICK bits : bits = m + s * p
  OBVIOUS
<1>4. bits \in Nat /\ bits = p * s + m /\ bits = g * (2 * s) + m /\ 2 * s \in Nat
  <2>1. s * p = p * s /\ p * s \in Nat /\ g * (2 * s) = p * s
    BY <1>2
  <2>2. PICK x, y, z : x = s * p /\ y = p * s /\ z = g * (2 * s)
    OBVIOUS
  <2> QED  BY <1>3, <2>1, <2>2
<1>5. bits \div p = s /\ bits % p = m
  <2>1. p \in Nat /\ p > 0 /\ m < p /\ bits \in Nat /\ bits = p * s + m
    BY <1>2, <1>4
  <2> HIDE <1>2, <1>3, <1>4
  <2> QED  BY <2>1, Quotient
<1>6. bits % g = m
  BY <1>2, <1>4, Quotient
<1>7. nSize(bits) = s
  BY <1>1, <1>5 DEF nSize
<1>8. ~Negative(bits)
  BY <1>1, <1>2, <1>5 DEF Negative
<1>9. SetCompact(bits) = Worth(s, m)
  BY <1>1, <1>6, <1>7, <1>8, Zenon DEF SetCompact, Worth
<1>10. Worth(s, m) \in Nat
  <2>1. CASE s <= 3
    <3>1. PICK q : q = Power[3 - s]
      OBVIOUS
    <3>2. q \in Nat /\ q >= 1
      BY <2>1, <3>1, PowerIs
    <3>3. m \div q \in Nat
      BY <3>2
    <3> QED  BY <2>1, <3>1, <3>3 DEF Worth
  <2>2. CASE ~(s <= 3)
    <3>1. s - 3 \in Nat
      BY <2>2
    <3>2. Power[s - 3] \in Nat
      BY <3>1, PowerIs
    <3> QED  BY <2>2, <3>2 DEF Worth
  <2> QED  BY <2>1, <2>2
<1> QED  BY <1>1, <1>3, <1>4, <1>9, <1>10

(* Any word at all has a size and a mantissa, and maybe a sign. *)
LEMMA AnyWord ==
  ASSUME NEW bits \in Nat
  PROVE  \E s \in Nat, m \in Nat :
           /\ m < SignBit /\ Worth(s, m) \in Nat
           /\ SetCompact(bits) = Worth(s, m) \/ SetCompact(bits) = -Worth(s, m)
<1>1. PICK p, g : p = Power[3] /\ g = SignBit
  OBVIOUS
<1>2. p \in Nat /\ p >= 1 /\ g \in Nat /\ g >= 1
  BY <1>1, SignBitIs
<1>3. PICK s, m : s = bits \div p /\ m = bits % g
  OBVIOUS
<1>4. s \in Nat /\ m \in Nat /\ m < g
  BY <1>2, <1>3
<1>5. nSize(bits) = s /\ bits % SignBit = m
  BY <1>1, <1>3 DEF nSize
<1>6. SetCompact(bits) = Worth(s, m) \/ SetCompact(bits) = -Worth(s, m)
  BY <1>5, Zenon DEF SetCompact, Worth
<1>7. Worth(s, m) \in Nat
  BY <1>1, <1>4, WordIs
<1> QED  BY <1>1, <1>4, <1>6, <1>7

(* The word of a number: nothing is lost of a small one; of another one,   *)
(* what is below its first bytes, of which there are as many as the sign   *)
(* leaves room for.                                                        *)
LEMMA GetCompactIs ==
  ASSUME NEW n \in Nat
  PROVE  \E s \in Nat, m \in Nat :
           /\ m < SignBit /\ GetCompact(n) = m + s * Power[3]
           /\ \/ s <= 3 /\ Worth(s, m) = n
              \/ s >= 4 /\ m = n \div Power[s - 3] /\ SignBit <= m * Byte
<1> DEFINE size == BytesOf(n)
           c == IF size <= 3 THEN n * Power[3 - size] ELSE n \div Power[size - 3]
<1>1. /\ size \in Nat /\ n < Power[size]
      /\ \A j \in Nat : j < size => Power[j] <= n
  BY BytesOfIs
<1>2. GetCompact(n) = Shifted(size, c)
  BY DEF GetCompact
<1>3. PICK p, g : p = Power[3] /\ g = SignBit
  OBVIOUS
<1>4. p \in Nat /\ g \in Nat /\ g >= 1 /\ p = 2 * g /\ Byte \in Nat /\ Byte >= 6
  BY <1>3, SignBitIs, CodecAssumption
<1> HIDE DEF size
<1>5. c \in Nat /\ c < p
  <2>1. CASE size <= 3
    <3>1. PICK q, r : q = Power[3 - size] /\ r = Power[size]
      OBVIOUS
    <3>2. 3 - size \in Nat /\ size + (3 - size) = 3
      BY <1>1, <2>1
    <3>3. q \in Nat /\ q >= 1 /\ r \in Nat
      BY <1>1, <3>1, <3>2, PowerIs
    <3>4. r * q = p
      BY <1>1, <1>3, <3>1, <3>2, PowerAdd
    <3>5. n * q < r * q /\ n * q \in Nat
      BY <1>1, <3>1, <3>3, Products
    <3> QED  BY <2>1, <3>1, <3>4, <3>5
  <2>2. CASE ~(size <= 3)
    <3>1. PICK q, r : q = Power[size - 3] /\ r = Power[size]
      OBVIOUS
    <3>2. size - 3 \in Nat /\ 3 + (size - 3) = size
      BY <1>1, <2>2
    <3>3. q \in Nat /\ q >= 1 /\ r \in Nat
      BY <1>1, <3>1, <3>2, PowerIs
    <3>4. r = p * q
      BY <1>1, <1>3, <3>1, <3>2, PowerAdd
    <3>5. n \div q \in Nat /\ n \div q < p
      BY <1>1, <1>4, <3>1, <3>3, <3>4, Quotients, ZenonT(60)
    <3> QED  BY <2>2, <3>1, <3>5
  <2> QED  BY <2>1, <2>2
<1>6. CASE c < g
  <2>1. GetCompact(n) = c + size * p
    BY <1>2, <1>3, <1>4, <1>5, <1>6 DEF Shifted
  <2>2. CASE size <= 3
    <3>1. PICK q : q = Power[3 - size]
      OBVIOUS
    <3>2. q \in Nat /\ q >= 1
      BY <1>1, <2>2, <3>1, PowerIs
    <3>3. c = n * q
      BY <2>2, <3>1
    <3>4. (n * q) \div q = n
      BY <3>2, Products
    <3>5. Worth(size, c) = n
      BY <2>2, <3>1, <3>3, <3>4 DEF Worth
    <3> HIDE DEF c
    <3> QED  BY <1>1, <1>3, <1>5, <1>6, <2>1, <2>2, <3>5
  <2>3. CASE ~(size <= 3)
    <3>1. PICK q : q = Power[size - 3]
      OBVIOUS
    <3>2. size - 3 \in Nat /\ size - 1 \in Nat /\ 2 + (size - 3) = size - 1 /\ size - 1 < size
      BY <1>1, <2>3
    <3>3. q \in Nat /\ q >= 1
      BY <3>1, <3>2, PowerIs
    <3>4. Power[size - 1] = Power[2] * q
      BY <3>1, <3>2, PowerAdd
    <3>5. Power[2] * q <= n
      BY <1>1, <3>2, <3>4
    <3>6. c = n \div q
      BY <2>3, <3>1
    <3>7. Power[2] \in Nat /\ Power[2] <= c
      BY <3>3, <3>5, <3>6, Quotients, PowerIs, SMTT(40)
    <3> HIDE DEF c
    <3>8. Power[2] * Byte <= c * Byte
      BY <1>4, <1>5, <3>7, Products
    <3>9. g <= c * Byte
      <4>1. p = Power[2] * Byte
        BY <1>3, <1>4, <3>7, SignBitIs
      <4>2. PICK x : x = c * Byte
        OBVIOUS
      <4>3. x \in Nat /\ p <= x
        BY <1>4, <1>5, <3>8, <4>1, <4>2
      <4> QED  BY <1>4, <4>2, <4>3
    <3>10. size >= 4
      BY <1>1, <2>3
    <3> QED  BY <1>1, <1>3, <1>5, <1>6, <2>1, <3>1, <3>6, <3>9, <3>10
  <2> QED  BY <2>2, <2>3
<1>7. CASE ~(c < g)
  <2> DEFINE m == c \div Byte
  <2>1. GetCompact(n) = m + (size + 1) * p
    BY <1>2, <1>3, <1>4, <1>5, <1>7 DEF Shifted
  <2>2. PICK h \in Nat : Byte = 2 * h /\ g = (h * Byte) * Byte /\ Power[2] = 2 * (h * Byte)
    BY <1>3, SignBitIs
  <2>3. h * Byte \in Nat /\ (h * Byte) * Byte <= c
    BY <1>4, <1>5, <1>7, <2>2
  <2>4. m \in Nat /\ h * Byte <= m
    <3> HIDE DEF c
    <3> QED  BY <1>4, <1>5, <2>3, Quotients
  <2>5. m < g
    <3>1. c < Power[2] * Byte /\ Power[2] \in Nat /\ Power[2] <= g
      <4>1. Power[2] \in Nat /\ Power[3] = Byte * Power[2] /\ Power[2] <= SignBit
        BY SignBitIs
      <4>2. Byte * Power[2] = Power[2] * Byte
        BY <1>4, <4>1
      <4> HIDE DEF c
      <4> QED  BY <1>3, <1>5, <4>1, <4>2
    <3> HIDE DEF c
    <3>2. m < Power[2]
      BY <1>4, <1>5, <3>1, Quotients
    <3> HIDE DEF m
    <3> QED  BY <1>4, <2>4, <3>1, <3>2
  <2>6. g <= m * Byte
    <3> HIDE DEF m
    <3>1. (h * Byte) * Byte <= m * Byte
      BY <1>4, <2>3, <2>4, Products
    <3> QED  BY <2>2, <3>1
  <2>7. CASE size <= 2
    <3>1. PICK q : q = Power[2 - size]
      OBVIOUS
    <3>2. 2 - size \in Nat /\ (2 - size) + 1 = 3 - size /\ size <= 3
      BY <1>1, <2>7
    <3>3. q \in Nat /\ q >= 1 /\ Power[3 - size] = Byte * q
      BY <3>1, <3>2, PowerIs
    <3>4. c = (n * q) * Byte
      <4>1. c = n * (Byte * q)
        BY <3>2, <3>3
      <4>2. n * (Byte * q) = (n * q) * Byte
        BY <1>4, <3>3
      <4> QED  BY <4>1, <4>2
    <3>5. m = n * q
      <4>1. n * q \in Nat
        BY <3>3
      <4>2. ((n * q) * Byte) \div Byte = n * q
        BY <1>4, <4>1, Products
      <4> QED  BY <3>4, <4>2
    <3>6. (n * q) \div q = n
      BY <3>3, Products
    <3>7. size + 1 \in Nat /\ size + 1 <= 3 /\ 3 - (size + 1) = 2 - size
      BY <1>1, <2>7
    <3>8. Worth(size + 1, m) = n
      BY <3>1, <3>5, <3>6, <3>7 DEF Worth
    <3> HIDE DEF m
    <3> QED  BY <1>3, <2>1, <2>4, <2>5, <3>7, <3>8
  <2>8. CASE size >= 3
    <3>1. PICK q : q = Power[size - 3]
      OBVIOUS
    <3>2. size - 3 \in Nat /\ (size - 3) + 1 = (size + 1) - 3 /\ size + 1 \in Nat /\ size + 1 >= 4
      BY <1>1, <2>8
    <3>3. q \in Nat /\ q >= 1 /\ Power[(size + 1) - 3] = Byte * q
      BY <3>1, <3>2, PowerIs
    <3>4. c = n \div q
      <4>1. CASE size = 3
        <5>1. 3 - size = 0 /\ size - 3 = 0
          BY <4>1
        <5>2. q = 1
          BY <3>1, <5>1, PowerIs
        <5>3. c = n * 1
          BY <4>1, <5>1, PowerIs
        <5> HIDE DEF c
        <5> QED  BY <5>2, <5>3
      <4>2. CASE size # 3
        BY <1>1, <2>8, <3>1, <4>2
      <4> QED  BY <4>1, <4>2
    <3>5. m = n \div (Byte * q)
      <4>1. m = (n \div q) \div Byte
        <5> HIDE DEF c
        <5> QED  BY <3>4
      <4>2. Byte >= 1
        BY <1>4
      <4> HIDE DEF m
      <4>3. n \div (Byte * q) = (n \div q) \div Byte
        <5>1. \A x, y, b \in Nat : y >= 1 /\ b >= 1 => x \div (b * y) = (x \div y) \div b
          BY DivTwice, ZenonT(60)
        <5>2. Byte \in Nat /\ q \in Nat /\ q >= 1
          BY <1>4, <3>3
        <5> QED  BY <4>2, <5>1, <5>2, Zenon
      <4> QED  BY <4>1, <4>3, Zenon
    <3> HIDE DEF m
    <3> QED  BY <1>3, <2>1, <2>4, <2>5, <2>6, <3>2, <3>3, <3>5
  <2>9. size <= 2 \/ size >= 3
    BY <1>1
  <2> QED  BY <2>7, <2>8, <2>9
<1>8. c < g \/ ~(c < g)
  OBVIOUS
<1> HIDE DEF c
<1> QED  BY <1>6, <1>7, <1>8

(* GetCompact rounds down, to the largest number that has a word. *)
LEMMA CompactRoundsDown ==
  ASSUME NEW n \in Nat
  PROVE  /\ GetCompact(n) \in Nat /\ SetCompact(GetCompact(n)) \in Nat
         /\ SetCompact(GetCompact(n)) <= n
         /\ \A next \in Nat : SetCompact(next) <= n => SetCompact(next) <= SetCompact(GetCompact(n))
<1>1. PICK s \in Nat, m \in Nat :
        /\ m < SignBit /\ GetCompact(n) = m + s * Power[3]
        /\ \/ s <= 3 /\ Worth(s, m) = n
           \/ s >= 4 /\ m = n \div Power[s - 3] /\ SignBit <= m * Byte
  BY GetCompactIs
<1>2. /\ GetCompact(n) \in Nat /\ SetCompact(GetCompact(n)) = Worth(s, m)
      /\ Worth(s, m) \in Nat
  BY <1>1, WordIs
<1>3. CASE s <= 3
  BY <1>1, <1>2, <1>3
<1>4. CASE s >= 4
  <2>1. PICK q : q = Power[s - 3]
    OBVIOUS
  <2>2. s - 3 \in Nat /\ s - 4 \in Nat /\ (s - 4) + 1 = s - 3 /\ ~(s <= 3)
    BY <1>4
  <2>3. q \in Nat /\ q >= 1
    BY <2>1, <2>2, PowerIs
  <2>4. PICK t : t = Worth(s, m)
    OBVIOUS
  <2>5. t = m * q /\ m = n \div q
    BY <1>1, <2>1, <2>2, <2>4 DEF Worth
  <2>6. t \in Nat /\ t <= n /\ n < t + q
    BY <1>2, <2>3, <2>4, <2>5, Quotients
  <2>7. ASSUME NEW next \in Nat, SetCompact(next) <= n PROVE SetCompact(next) <= t
    <3>1. PICK z \in Nat, w \in Nat :
            /\ w < SignBit /\ Worth(z, w) \in Nat
            /\ SetCompact(next) = Worth(z, w) \/ SetCompact(next) = -Worth(z, w)
      BY AnyWord
    <3>2. PICK v : v = Worth(z, w)
      OBVIOUS
    <3>3. CASE SetCompact(next) = -v
      BY <2>6, <3>1, <3>2, <3>3
    <3>4. CASE SetCompact(next) = v
      <4>1. CASE z >= s
        <5>1. /\ z - s \in Nat /\ (z - s) + (s - 3) = z - 3 /\ ~(z <= 3)
          BY <2>2, <4>1
        <5>2. PICK e : e = Power[z - s]
          OBVIOUS
        <5>3. e \in Nat /\ Power[z - 3] = e * q
          <6>1. Power[(z - s) + (s - 3)] = Power[z - s] * Power[s - 3]
            BY <2>2, <5>1, PowerAdd
          <6> QED  BY <2>1, <5>1, <5>2, <6>1, PowerIs
        <5>4. v = (w * e) * q
          <6>1. v = w * (e * q)
            BY <3>2, <5>1, <5>3 DEF Worth
          <6> QED  BY <2>3, <5>3, <6>1
        <5>5. PICK a : a = w * e
          OBVIOUS
        <5>6. a \in Nat
          BY <5>3, <5>5
        <5>7. a * q < m * q + q
          <6>1. PICK x, y : x = a * q /\ y = m * q
            OBVIOUS
          <6>2. x \in Nat /\ y \in Nat
            BY <2>3, <5>6, <6>1
          <6>3. x <= n /\ n < y + q
            BY <2>5, <2>6, <2>7, <3>4, <5>4, <5>5, <6>1
          <6> QED  BY <2>3, <6>1, <6>2, <6>3
        <5>8. a <= m
          BY <2>3, <5>6, <5>7, Products
        <5>9. a * q <= m * q
          BY <2>3, <5>6, <5>8, Products
        <5> QED  BY <2>5, <3>4, <5>4, <5>5, <5>9
      <4>2. CASE z < s
        <5>1. PICK r : r = Power[s - 4]
          OBVIOUS
        <5>2. r \in Nat /\ r >= 1 /\ q = Byte * r
          BY <2>1, <2>2, <5>1, PowerIs
        <5>3. Byte \in Nat /\ SignBit \in Nat
          BY CodecAssumption, SignBitIs
        <5>4. SignBit * r <= (m * Byte) * r /\ (m * Byte) * r = t
          <6>1. PICK b : b = m * Byte
            OBVIOUS
          <6>2. b \in Nat /\ SignBit <= b
            BY <1>1, <2>2, <5>3, <6>1
          <6>3. SignBit * r <= b * r
            BY <5>2, <5>3, <6>2, Products
          <6>4. (m * Byte) * r = m * (Byte * r)
            BY <5>2, <5>3
          <6> QED  BY <2>5, <5>2, <6>1, <6>3, <6>4
        <5>5. w * r <= SignBit * r /\ w * r \in Nat
          BY <3>1, <5>2, <5>3, Products
        <5>6. v <= w * r
          <6>1. CASE z <= 3
            <7>1. PICK x : x = Power[3 - z]
              OBVIOUS
            <7>2. 3 - z \in Nat
              BY <6>1
            <7>3. x \in Nat /\ x >= 1
              BY <7>1, <7>2, PowerIs
            <7>4. v = w \div x
              BY <3>2, <6>1, <7>1 DEF Worth
            <7>5. v \in Nat /\ v * x <= w
              BY <7>3, <7>4, Quotients
            <7>6. v * 1 <= v * x /\ w * 1 <= w * r
              <8>1. 1 * v <= x * v
                <9>1. CASE v = 0
                  BY <7>3, <9>1
                <9>2. CASE v >= 1
                  BY <7>3, <7>5, <9>2, Products
                <9> QED  BY <7>5, <9>1, <9>2
              <8>2. 1 * w <= r * w
                <9>1. CASE w = 0
                  BY <5>2, <9>1
                <9>2. CASE w >= 1
                  BY <5>2, <9>2, Products
                <9> QED  BY <9>1, <9>2
              <8> QED  BY <5>2, <7>3, <7>5, <8>1, <8>2
            <7>7. PICK y, u : y = v * x /\ u = w * r
              OBVIOUS
            <7>8. v <= y /\ y <= w /\ w <= u /\ y \in Nat /\ u \in Nat
              BY <5>2, <7>3, <7>5, <7>6, <7>7
            <7> QED  BY <7>5, <7>7, <7>8
          <6>2. CASE ~(z <= 3)
            <7>1. PICK x : x = Power[z - 3]
              OBVIOUS
            <7>2. z - 3 \in Nat /\ z - 3 <= s - 4
              BY <2>2, <4>2, <6>2
            <7>3. x \in Nat /\ x <= r
              BY <2>2, <5>1, <7>1, <7>2, PowerGrows, PowerIs
            <7>4. v = w * x
              BY <3>2, <6>2, <7>1 DEF Worth
            <7>5. w * x <= w * r
              <8>1. CASE w = 0
                BY <5>2, <7>3, <8>1
              <8>2. CASE w >= 1
                <9>1. x * w <= r * w
                  BY <5>2, <7>3, <8>2, Products
                <9> QED  BY <5>2, <7>3, <9>1
              <8> QED  BY <8>1, <8>2
            <7> QED  BY <7>4, <7>5
          <6> QED  BY <6>1, <6>2
        <5>7. PICK a, b : a = w * r /\ b = SignBit * r
          OBVIOUS
        <5>8. a \in Nat /\ b \in Nat /\ v <= a /\ a <= b /\ b <= t /\ v \in Nat
          BY <3>1, <3>2, <5>2, <5>3, <5>4, <5>5, <5>6, <5>7
        <5> QED  BY <2>6, <3>4, <5>8
      <4> QED  BY <4>1, <4>2
    <3> QED  BY <3>1, <3>2, <3>3, <3>4
  <2> QED  BY <1>2, <2>4, <2>6, <2>7
<1> QED  BY <1>3, <1>4

-----------------------------------------------------------------------------
(* Retargets                                                               *)

(* The lesser and the greater of two numbers.                              *)
LEMMA PairMinMax ==
  ASSUME NEW a \in Int, NEW b \in Int
  PROVE  /\ Min({a, b}) = IF a <= b THEN a ELSE b
         /\ Max({a, b}) = IF a <= b THEN b ELSE a
<1>1. \E x \in {a, b} : \A y \in {a, b} : x <= y
  OBVIOUS
<1>2. Min({a, b}) \in {a, b} /\ \A y \in {a, b} : Min({a, b}) <= y
  BY <1>1 DEF Min
<1>3. \E x \in {a, b} : \A y \in {a, b} : x >= y
  OBVIOUS
<1>4. Max({a, b}) \in {a, b} /\ \A y \in {a, b} : Max({a, b}) >= y
  BY <1>3 DEF Max
<1> QED  BY <1>2, <1>4

(* A difference that is negative wraps around. *)
LEMMA Wraps ==
  ASSUME NEW a \in Nat, NEW b \in Nat, NEW u \in Nat, a < u, b < u
  PROVE  (a - b) % u = IF a >= b THEN a - b ELSE u + (a - b)
<1>1. u > 0
  OBVIOUS
<1>2. CASE a >= b
  <2>1. a - b \in Nat /\ a - b < u /\ a - b = u * 0 + (a - b)
    BY <1>2
  <2>2. (a - b) % u = a - b
    BY <1>1, <2>1, Quotient
  <2> QED  BY <1>2, <2>2
<1>3. CASE a < b
  <2>1. PICK d : d = a - b
    OBVIOUS
  <2>2. d \in Int /\ d < 0 /\ d + u > 0
    BY <1>3, <2>1
  <2>3. PICK q \in Int, r \in 0..(u - 1) : d = u * q + r /\ r = d % u
    <3>1. d \div u \in Int /\ d % u \in 0..(u - 1) /\ d = u * (d \div u) + (d % u)
      BY <1>1, <2>2
    <3> QED  BY <3>1
  <2>4. q < 0
    <3> SUFFICES ASSUME q >= 0 PROVE FALSE
      OBVIOUS
    <3>1. u * q >= 0 /\ u * q \in Int
      OBVIOUS
    <3> QED  BY <2>2, <2>3, <3>1
  <2>5. PICK e \in Nat : q = -1 - e
    <3>1. -1 - q \in Nat /\ q = -1 - (-1 - q)
      BY <2>4
    <3> QED  BY <3>1
  <2>6. u * q = -u - u * e /\ u * e \in Nat
    BY <2>5
  <2>7. e = 0
    <3> SUFFICES ASSUME e >= 1 PROVE FALSE
      BY <2>5
    <3>1. 1 * u <= e * u
      BY <1>1, Products
    <3>2. PICK x : x = u * e
      OBVIOUS
    <3>3. x \in Nat /\ x >= u /\ d = -u - x + r
      BY <2>3, <2>6, <3>1, <3>2
    <3> QED  BY <2>2, <2>3, <3>3
  <2>8. r = u + d
    BY <2>2, <2>3, <2>6, <2>7
  <2> QED  BY <1>3, <2>1, <2>3, <2>8
<1> QED  BY <1>2, <1>3

(* The target that the rule asks for, from that of the last period, and    *)
(* from when it began and ended.                                           *)
RuleSpan(took) ==
  IF took > 4 * nTargetTimespan \/ took < 0 THEN 4 * nTargetTimespan
  ELSE IF 4 * took < nTargetTimespan THEN nTargetTimespan \div 4
  ELSE took

RuleTarget(old, took) ==
  Min({bnProofOfWorkLimit, (SetCompact(old) * RuleSpan(took)) \div nTargetTimespan})

Rule(old, took, bits) ==
  /\ SetCompact(bits) <= RuleTarget(old, took)
  /\ \A next \in 0..(bits + Power[3]) :
       SetCompact(next) \notin (SetCompact(bits) + 1)..RuleTarget(old, took)

Took(h) ==
  chain[h].Timestamp - (IF h = nInterval THEN GenesisTime
                        ELSE chain[h - nInterval + 1].Timestamp)

(* RetargetFollowsTheRule with the rule as a definition of its own.        *)
LEMMA RuleIs ==
  RetargetFollowsTheRule <=>
    \A h \in 1..Height(chain) :
      h % nInterval = 0 /\ ~testnet =>
        (h > nInterval \/ measured =>
           Rule(chain[h - nInterval + 1].Bits, Took(h), chain[h + 1].Bits))
BY Zenon DEF RetargetFollowsTheRule, Rule, RuleTarget, RuleSpan, Took

(* The span of the code is that of the rule. *)
LEMMA SpanIs ==
  ASSUME NEW a \in Nat, NEW b \in Nat,
         a + 4 * nTargetTimespan <= Uint32, b + 4 * nTargetTimespan <= Uint32
  PROVE  /\ Min({nTargetTimespan * 4, Max({nTargetTimespan \div 4, (a - b) % Uint32})})
              = RuleSpan(a - b)
         /\ RuleSpan(a - b) \in Nat
<1>1. PICK t, u : t = nTargetTimespan /\ u = Uint32
  OBVIOUS
<1>2. t \in Nat /\ t > 0 /\ u \in Nat /\ a + 4 * t <= u /\ b + 4 * t <= u /\ a < u /\ b < u
  BY <1>1, BlockCheckAssumption
<1>3. PICK s : s = (a - b) % u
  OBVIOUS
<1>4. s = IF a >= b THEN a - b ELSE u + (a - b)
  BY <1>2, <1>3, Wraps
<1>5. s \in Nat
  BY <1>2, <1>4
<1>6. PICK f : f = t \div 4
  OBVIOUS
<1>7. f \in Nat /\ 4 * f <= t /\ t < 4 * f + 4
  BY <1>2, <1>6
<1>8. Max({f, s}) = IF f <= s THEN s ELSE f
  BY <1>5, <1>7, PairMinMax
<1>9. PICK m : m = Max({f, s})
  OBVIOUS
<1>10. m \in Nat /\ m = IF f <= s THEN s ELSE f
  BY <1>5, <1>7, <1>8, <1>9
<1>11. Min({t * 4, m}) = IF t * 4 <= m THEN t * 4 ELSE m
  <2>1. t * 4 \in Int /\ m \in Int
    BY <1>2, <1>10
  <2> QED  BY <2>1, PairMinMax
<1>12. RuleSpan(a - b) = IF a - b > 4 * t \/ a - b < 0 THEN 4 * t
                         ELSE IF 4 * (a - b) < t THEN f ELSE a - b
  BY <1>1, <1>6 DEF RuleSpan
<1>13. Min({t * 4, m}) = RuleSpan(a - b) /\ RuleSpan(a - b) \in Nat
  <2>1. CASE a < b
    BY <1>2, <1>4, <1>7, <1>10, <1>11, <1>12, <2>1
  <2>2. CASE a >= b
    BY <1>2, <1>4, <1>7, <1>10, <1>11, <1>12, <2>2
  <2> QED  BY <2>1, <2>2
<1> QED  BY <1>1, <1>3, <1>6, <1>9, <1>13

(* A compact target that is computed as the code does follows the rule. *)
LEMMA ComputedByRule ==
  ASSUME NEW old, SetCompact(old) \in Nat, NEW took, RuleSpan(took) \in Nat,
         NEW bits,
         bits = GetCompact(Min({(SetCompact(old) * RuleSpan(took)) \div nTargetTimespan,
                                bnProofOfWorkLimit}))
  PROVE  Rule(old, took, bits) /\ bits \in Nat /\ SetCompact(bits) \in Nat
<1>1. PICK t, x, y : t = nTargetTimespan /\ x = bnProofOfWorkLimit
                     /\ y = (SetCompact(old) * RuleSpan(took)) \div nTargetTimespan
  OBVIOUS
<1>2. t \in Nat /\ t > 0 /\ x \in Nat
  BY <1>1, BlockCheckAssumption
<1>3. y \in Nat
  <2>1. PICK z : z = SetCompact(old) * RuleSpan(took)
    OBVIOUS
  <2>2. z \in Nat
    BY <2>1
  <2>3. z \div t \in Nat
    BY <1>2, <2>2
  <2> QED  BY <1>1, <2>1, <2>3
<1>4. Min({x, y}) \in Nat /\ {x, y} = {y, x}
  BY <1>2, <1>3, PairMinMax
<1>5. PICK e : e = Min({x, y})
  OBVIOUS
<1>6. e \in Nat /\ RuleTarget(old, took) = e /\ bits = GetCompact(e)
  BY <1>1, <1>4, <1>5 DEF RuleTarget
<1>7. /\ bits \in Nat /\ SetCompact(bits) \in Nat /\ SetCompact(bits) <= e
      /\ \A next \in Nat : SetCompact(next) <= e => SetCompact(next) <= SetCompact(bits)
  BY <1>6, CompactRoundsDown
<1>8. ASSUME NEW next \in 0..(bits + Power[3]), SetCompact(next) \in (SetCompact(bits) + 1)..e
      PROVE  FALSE
  <2>1. next \in Nat
    BY <1>7, PowerIs
  <2>2. SetCompact(next) <= e /\ SetCompact(next) > SetCompact(bits) /\ SetCompact(next) \in Int
    BY <1>6, <1>7, <1>8
  <2> QED  BY <1>7, <2>1, <2>2
<1> QED  BY <1>6, <1>7, <1>8 DEF Rule

(* What the proof needs of the nodes: their times are far from wrapping    *)
(* around, and the targets on the main network are not negative.           *)
NodesOK ==
  /\ \A i \in 1..Len(chain) : chain[i].Timestamp + 4 * nTargetTimespan <= Uint32
  /\ ~testnet => \A i \in 1..Len(chain) :
                   chain[i].Bits \in Nat /\ SetCompact(chain[i].Bits) \in Nat

LimitIs == nProofOfWorkLimit \in Nat /\ SetCompact(nProofOfWorkLimit) \in Nat

(* The easiest target is a word of a number that is not negative.          *)
LEMMA LimitOK == LimitIs
BY CompactRoundsDown, BlockCheckAssumption DEF LimitIs, nProofOfWorkLimit

(* The times of blocks, of the genesis block and of a root without one.    *)
LEMMA RootTimes ==
  /\ 0 + 4 * nTargetTimespan <= Uint32
  /\ \A t \in Times \cup {GenesisTime} : t \in Nat /\ t + 4 * nTargetTimespan <= Uint32
<1>1. \A t \in Times \cup {GenesisTime} : t \in Nat /\ t + 4 * nTargetTimespan <= Uint32
  BY BlockCheckAssumption, TimesAssumption
<1>2. PICK g, t, u : g = GenesisTime /\ t = nTargetTimespan /\ u = Uint32
  OBVIOUS
<1>3. g \in Nat /\ t \in Nat /\ u \in Nat /\ g + 4 * t <= u
  BY <1>1, <1>2, BlockCheckAssumption
<1>4. 0 + 4 * t <= u
  BY <1>3
<1> QED  BY <1>1, <1>2, <1>4

(* A height at which a target is computed is at least one period.          *)
LEMMA WholePeriods ==
  ASSUME NEW h \in Nat, h >= 1, h % nInterval = 0
  PROVE  /\ h >= nInterval /\ nInterval \in Nat /\ nInterval >= 2
         /\ h - nInterval + 1 \in 1..(h - 1) /\ h # nInterval => h - nInterval + 1 \in 2..(h - 1)
<1>1. PICK n : n = nInterval
  OBVIOUS
<1>2. n \in Nat /\ n >= 2 /\ n > 0
  BY <1>1, BlockCheckAssumption
<1>3. PICK q \in Nat, r \in 0..(n - 1) : h = n * q + r /\ r = h % n
  BY <1>2, DivMod
<1>4. h = n * q /\ q >= 1
  BY <1>1, <1>2, <1>3
<1>5. 1 * n <= q * n
  BY <1>2, <1>4, Products
<1>6. h >= n
  BY <1>2, <1>4, <1>5
<1> QED  BY <1>1, <1>2, <1>6

(* The target of the first block of a period on the main network. *)
LEMMA RetargetIs ==
  ASSUME TargetInv, NodesOK, ~testnet, NEW h, h = Len(chain), h % nInterval = 0, NEW ts
  PROVE  LET old  == chain[h - nInterval + 1].Bits
             took == chain[h].Timestamp - chain[h - nInterval + 1].Timestamp
             bits == GetNextWorkRequired(chain, ts)
         IN  Rule(old, took, bits) /\ bits \in Nat /\ SetCompact(bits) \in Nat
<1>1. PICK S : chain \in Seq(S)
  BY DEF TargetInv, ChainOK
<1>2. h \in Nat /\ h >= 1 /\ DOMAIN chain = 1..h /\ Height(chain) + 1 = h
      /\ Last(chain) = chain[h]
  BY <1>1 DEF TargetInv, ChainOK, Height, Last
<1>3. PICK f : f = h - nInterval + 1
  OBVIOUS
<1>4. f \in 1..h /\ f = h - (nInterval - 1) /\ h >= 2
  BY <1>2, <1>3, WholePeriods
<1>5. FirstOfPeriod(chain) = chain[f]
  BY <1>4 DEF FirstOfPeriod
<1>6. PICK a, b : a = chain[h].Timestamp /\ b = chain[f].Timestamp
  OBVIOUS
<1>7. /\ a \in Nat /\ a + 4 * nTargetTimespan <= Uint32
      /\ b \in Nat /\ b + 4 * nTargetTimespan <= Uint32
  BY <1>2, <1>4, <1>6 DEF NodesOK, TargetInv, ChainOK
<1>8. ActualTimespan(chain) = RuleSpan(a - b) /\ RuleSpan(a - b) \in Nat
  <2>1. ActualTimespan(chain) =
          Min({nTargetTimespan * 4, Max({nTargetTimespan \div 4, (a - b) % Uint32})})
    BY <1>2, <1>5, <1>6 DEF ActualTimespan
  <2> QED  BY <1>7, <2>1, SpanIs
<1>9. PICK old : old = chain[f].Bits
  OBVIOUS
<1>10. SetCompact(old) \in Nat
  BY <1>2, <1>4, <1>9 DEF NodesOK
<1>11. Retarget(chain) = GetCompact(Min({(SetCompact(old) * RuleSpan(a - b)) \div nTargetTimespan,
                                         bnProofOfWorkLimit}))
  BY <1>5, <1>8, <1>9, Zenon DEF Retarget
<1>12. GetNextWorkRequired(chain, ts) = Retarget(chain)
  BY <1>2, <1>4 DEF GetNextWorkRequired
<1>13. /\ Rule(old, a - b, Retarget(chain))
       /\ Retarget(chain) \in Nat /\ SetCompact(Retarget(chain)) \in Nat
  <2>1. PICK bits : bits = Retarget(chain)
    OBVIOUS
  <2>2. bits = GetCompact(Min({(SetCompact(old) * RuleSpan(a - b)) \div nTargetTimespan,
                               bnProofOfWorkLimit}))
    BY <1>11, <2>1
  <2>3. PICK took : took = a - b
    OBVIOUS
  <2>4. RuleSpan(took) \in Nat
    BY <1>8, <2>3
  <2>5. Rule(old, took, bits) /\ bits \in Nat /\ SetCompact(bits) \in Nat
    BY <1>10, <2>2, <2>3, <2>4, ComputedByRule
  <2> QED  BY <2>1, <2>3, <2>5
<1> QED  BY <1>3, <1>6, <1>9, <1>12, <1>13

(* The same in the next state. *)
LEMMA RuleIsNext ==
  RetargetFollowsTheRule' <=>
    \A k \in 1..Height(chain)' :
      k % nInterval = 0 /\ ~testnet' =>
        (k > nInterval \/ measured' =>
           Rule(chain'[k - nInterval + 1].Bits,
                chain'[k].Timestamp - (IF k = nInterval THEN GenesisTime
                                       ELSE chain'[k - nInterval + 1].Timestamp),
                chain'[k + 1].Bits))
BY Zenon DEF RetargetFollowsTheRule, Rule, RuleTarget, RuleSpan, SetCompact, nSize, SignBit,
             Negative

RetargetInv == TargetInv /\ NodesOK /\ RetargetFollowsTheRule

(* Blocks that pass have the target that the rule asks for. *)
LEMMA RetargetAppends ==
  ASSUME RetargetInv, CheckBlock
  PROVE  NodesOK' /\ RetargetFollowsTheRule'
<1> DEFINE h == Len(chain)
<1>1. PICK S : chain \in Seq(S)
  BY DEF RetargetInv, TargetInv, ChainOK
<1>2. h \in Nat /\ h >= 1 /\ DOMAIN chain = 1..h /\ Height(chain) = h - 1
  BY <1>1 DEF RetargetInv, TargetInv, ChainOK, Height
<1>3. PICK b \in NewBlocks(Bodies) :
        /\ CheckError(b) = ""
        /\ chain' = Append(chain, [Timestamp |-> b.time, Bits |-> b.bits, txs |-> b.body.txs])
  BY Zenon DEF CheckBlock
<1>4. HasParent(b) /\ ~WorkError(b)
  BY <1>3, NoError, Zenon
<1>5. b.time \in Times /\ b.prev = h - 1
  <2>1. b.time \in Times /\ b.prev \in {Height(chain), Height(chain) + 1}
    BY Zenon DEF NewBlocks
  <2>2. b.prev <= Height(chain)
    BY <1>4 DEF HasParent
  <2> QED  BY <1>2, <2>1, <2>2
<1>6. PICK node : node = [Timestamp |-> b.time, Bits |-> b.bits, txs |-> b.body.txs]
  OBVIOUS
<1>7. /\ chain' \in Seq(S \cup {node}) /\ Len(chain') = h + 1
      /\ chain'[h + 1] = node /\ \A i \in 1..h : chain'[i] = chain[i]
  <2> HIDE <1>3
  <2>1. chain' = Append(chain, node)
    BY <1>3, <1>6, Zenon
  <2> QED  BY <1>1, <1>2, <2>1
<1>8. Height(chain)' = h /\ testnet' = testnet
      /\ measured' = IF h = nInterval THEN chain'[1].Timestamp = GenesisTime ELSE measured
  <2>1. Height(chain') = h
    BY <1>2, <1>7 DEF Height
  <2>2. testnet' = testnet
    BY Zenon DEF CheckBlock
  <2>3. measured' = IF Height(chain') = nInterval THEN chain[1].Timestamp = GenesisTime
                                                  ELSE measured
    BY Zenon DEF CheckBlock
  <2>4. chain'[1] = chain[1]
    BY <1>2, <1>7
  <2> QED  BY <2>1, <2>2, <2>3, <2>4
<1>9. node.Bits = b.bits /\ node.Timestamp = b.time
  BY <1>6
<1>10. ~testnet => b.bits = GetNextWorkRequired(chain, b.time)
  <2>1. ~testnet => b.bits = Required(b)
    BY <1>4, Zenon DEF WorkError
  <2>2. b.prev + 1 = h
    BY <1>2, <1>5
  <2>3. SubSeq(chain, 1, h) = chain
    BY <1>1, <1>2
  <2> QED  BY <2>1, <2>2, <2>3 DEF Required
<1>11. ~testnet => b.bits \in Nat /\ SetCompact(b.bits) \in Nat
  <2> SUFFICES ASSUME ~testnet PROVE b.bits \in Nat /\ SetCompact(b.bits) \in Nat
    OBVIOUS
  <2>1. CASE h % nInterval = 0
    <3>1. LET bits == GetNextWorkRequired(chain, b.time)
          IN  bits \in Nat /\ SetCompact(bits) \in Nat
      BY <2>1, RetargetIs DEF RetargetInv
    <3> QED  BY <1>10, <3>1
  <2>2. CASE h % nInterval # 0
    <3>1. Height(chain) + 1 = h /\ Last(chain) = chain[h]
      BY <1>2 DEF Last
    <3>2. b.bits = nProofOfWorkLimit \/ b.bits = chain[h].Bits
      BY <1>10, <2>2, <3>1 DEF GetNextWorkRequired
    <3> QED  BY <1>2, <3>2, LimitOK DEF LimitIs, RetargetInv, NodesOK
  <2> QED  BY <2>1, <2>2
<1>12. NodesOK'
  <2>1. ASSUME NEW i \in 1..(h + 1)
        PROVE  /\ chain'[i].Timestamp + 4 * nTargetTimespan <= Uint32
               /\ ~testnet => chain'[i].Bits \in Nat /\ SetCompact(chain'[i].Bits) \in Nat
    <3>1. CASE i = h + 1
      BY <1>5, <1>7, <1>9, <1>11, <3>1, RootTimes
    <3>2. CASE i # h + 1
      <4>1. i \in 1..h
        BY <1>2, <3>2
      <4> QED  BY <1>7, <4>1 DEF RetargetInv, NodesOK
    <3> QED  BY <3>1, <3>2
  <2>2. \A x : SetCompact(x)' = SetCompact(x)
    BY DEF SetCompact, nSize, SignBit, Negative
  <2> QED  BY <1>2, <1>7, <1>8, <2>1 DEF NodesOK
<1>13. ASSUME NEW k \in 1..h, k % nInterval = 0, ~testnet, k > nInterval \/ measured'
       PROVE  Rule(chain'[k - nInterval + 1].Bits,
                   chain'[k].Timestamp - (IF k = nInterval THEN GenesisTime
                                          ELSE chain'[k - nInterval + 1].Timestamp),
                   chain'[k + 1].Bits)
  <2>1. PICK f : f = k - nInterval + 1
    OBVIOUS
  <2>2. f \in 1..(k - 1) /\ k >= nInterval /\ nInterval \in Nat
    BY <1>2, <1>13, <2>1, WholePeriods
  <2>3. f \in 1..h /\ k \in 1..h /\ chain'[f] = chain[f] /\ chain'[k] = chain[k]
    BY <1>2, <1>7, <2>2
  <2>4. CASE k = h
    <3>1. Rule(chain[f].Bits, chain[h].Timestamp - chain[f].Timestamp, b.bits)
      <4>1. LET old  == chain[h - nInterval + 1].Bits
                took == chain[h].Timestamp - chain[h - nInterval + 1].Timestamp
                bits == GetNextWorkRequired(chain, b.time)
            IN  Rule(old, took, bits)
        BY <1>13, <2>4, RetargetIs DEF RetargetInv
      <4> QED  BY <1>10, <1>13, <2>1, <2>4, <4>1
    <3>2. chain'[k + 1].Bits = b.bits
      BY <1>7, <1>9, <2>4
    <3>3. k = nInterval => chain[f].Timestamp = GenesisTime
      <4> SUFFICES ASSUME k = nInterval PROVE chain[f].Timestamp = GenesisTime
        OBVIOUS
      <4>1. f = 1
        BY <2>1, <2>2
      <4>2. measured' /\ h = nInterval
        BY <1>13, <2>2, <2>4
      <4> QED  BY <1>8, <2>3, <4>1, <4>2
    <3> QED  BY <2>1, <2>3, <2>4, <3>1, <3>2, <3>3
  <2>5. CASE k # h
    <3>1. k \in 1..Height(chain) /\ chain'[k + 1] = chain[k + 1]
      <4>1. PICK l : l = h
        BY SMTT(40)
      <4>2. l \in Nat /\ k \in 1..l /\ k # l
        BY <1>2, <2>5, <4>1
      <4>3. k \in 1..(l - 1) /\ k + 1 \in 1..l
        BY <4>2
      <4> QED  BY <1>2, <1>7, <4>1, <4>3
    <3>2. k > nInterval \/ measured
      <4>1. PICK l, n : l = h /\ n = nInterval
        BY SMTT(40)
      <4>2. l \in Nat /\ n \in Nat /\ k \in 1..l /\ k # l /\ k >= n
        BY <1>2, <2>2, <2>5, <4>1
      <4>3. l = n => k > n
        BY <4>2
      <4>4. l # n => measured' = measured
        BY <1>8, <4>1
      <4> QED  BY <1>13, <4>1, <4>3, <4>4
    <3>3. Rule(chain[k - nInterval + 1].Bits, Took(k), chain[k + 1].Bits)
      BY <1>13, <3>1, <3>2, RuleIs DEF RetargetInv
    <3> QED  BY <2>1, <2>3, <3>1, <3>3 DEF Took
  <2> QED  BY <2>4, <2>5
<1>14. RetargetFollowsTheRule'
  <2> QED  BY <1>8, <1>13, RuleIsNext, Zenon
<1> QED  BY <1>12, <1>14

(* The root's Timestamp is in no rule: that of the first period counts from*)
(* the genesis block.                                                      *)
LEMMA RetargetRootKeeps ==
  ASSUME RetargetInv, NEW ts \in Nat, ts + 4 * nTargetTimespan <= Uint32,
         chain' = [chain EXCEPT ![1] = Root(ts)], testnet' = testnet, measured' = measured
  PROVE  NodesOK' /\ RetargetFollowsTheRule'
<1> DEFINE h == Len(chain)
<1>1. PICK S : chain \in Seq(S)
  BY DEF RetargetInv, TargetInv, ChainOK
<1>2. h \in Nat /\ h >= 1 /\ DOMAIN chain = 1..h /\ Height(chain) = h - 1
  BY <1>1 DEF RetargetInv, TargetInv, ChainOK, Height
<1>3. Len(chain') = h /\ chain'[1] = Root(ts) /\ \A i \in 2..h : chain'[i] = chain[i]
  BY <1>1, <1>2
<1>4. Height(chain)' = h - 1
  BY <1>2, <1>3 DEF Height
<1>5. Root(ts).Timestamp = ts /\ Root(ts).Bits = nProofOfWorkLimit
      /\ chain[1].Bits = nProofOfWorkLimit
  BY <1>2 DEF Root, RetargetInv, TargetInv, StartsEasy
<1>6. \A i \in 1..h : chain'[i].Bits = chain[i].Bits
  <2> TAKE i \in 1..h
  <2>1. CASE i = 1
    BY <1>3, <1>5, <2>1
  <2>2. CASE i # 1
    <3>1. i \in 2..h
      BY <1>2, <2>2
    <3> QED  BY <1>3, <3>1
  <2> QED  BY <2>1, <2>2
<1>7. NodesOK'
  <2>1. ASSUME NEW i \in 1..h
        PROVE  chain'[i].Timestamp + 4 * nTargetTimespan <= Uint32
    <3>1. CASE i = 1
      BY <1>3, <1>5, <3>1
    <3>2. CASE i # 1
      <4>1. i \in 2..h
        BY <1>2, <3>2
      <4> QED  BY <1>2, <1>3, <4>1 DEF RetargetInv, NodesOK
    <3> QED  BY <3>1, <3>2
  <2>2. ~testnet => \A i \in 1..h : chain'[i].Bits \in Nat /\ SetCompact(chain'[i].Bits) \in Nat
    BY <1>6 DEF RetargetInv, NodesOK
  <2> QED  BY <1>3, <2>1, <2>2 DEF NodesOK
<1>8. ASSUME NEW k \in 1..(h - 1), k % nInterval = 0, ~testnet, k > nInterval \/ measured
      PROVE  Rule(chain'[k - nInterval + 1].Bits,
                  chain'[k].Timestamp - (IF k = nInterval THEN GenesisTime
                                         ELSE chain'[k - nInterval + 1].Timestamp),
                  chain'[k + 1].Bits)
  <2>1. PICK f : f = k - nInterval + 1
    OBVIOUS
  <2>2. /\ f \in 1..(k - 1) /\ k >= nInterval /\ nInterval \in Nat /\ nInterval >= 2
        /\ k # nInterval => f \in 2..(k - 1)
    BY <1>2, <1>8, <2>1, WholePeriods
  <2>3. PICK l : l = h
    OBVIOUS
  <2>4. l \in Nat /\ k \in 1..(l - 1)
    BY <1>2, <1>8, <2>3
  <2>5. /\ f \in 1..l /\ k \in 2..l /\ k + 1 \in 1..l /\ k + 1 \in 2..l
        /\ k # nInterval => f \in 2..l
    BY <2>2, <2>4
  <2>6. Rule(chain[f].Bits, Took(k), chain[k + 1].Bits)
    BY <1>2, <1>8, <2>1, RuleIs DEF RetargetInv
  <2>7. chain'[f].Bits = chain[f].Bits /\ chain'[k] = chain[k] /\ chain'[k + 1] = chain[k + 1]
    BY <1>3, <1>6, <2>3, <2>5
  <2>8. k # nInterval => chain'[f] = chain[f]
    BY <1>3, <2>3, <2>5
  <2> QED  BY <2>1, <2>6, <2>7, <2>8 DEF Took
<1>9. RetargetFollowsTheRule'
  <2>1. testnet' = testnet /\ measured' = measured
    OBVIOUS
  <2> SUFFICES ASSUME NEW k \in 1..Height(chain)', k % nInterval = 0, ~testnet',
                      k > nInterval \/ measured'
               PROVE  Rule(chain'[k - nInterval + 1].Bits,
                           chain'[k].Timestamp - (IF k = nInterval THEN GenesisTime
                                                  ELSE chain'[k - nInterval + 1].Timestamp),
                           chain'[k + 1].Bits)
    BY RuleIsNext, Zenon
  <2>2. k \in 1..(h - 1) /\ ~testnet /\ (k > nInterval \/ measured)
    <3>1. k \in 1..(h - 1)
      BY <1>4
    <3>2. ~testnet /\ (k > nInterval \/ measured)
      BY <2>1
    <3> QED  BY <3>1, <3>2
  <2>3. k % nInterval = 0
    OBVIOUS
  <2> QED  BY <1>8, <2>2, <2>3, Zenon
<1> QED  BY <1>7, <1>9

(* On the main network, the target of each new period is the one that the   *)
(* rule asks for, rounded down to the largest number that the compact form  *)
(* can hold: for bytes of any number of values, periods of any length, all  *)
(* targets and all times before 2106.                                       *)
THEOREM RetargetsFollowTheRule == Spec => []RetargetFollowsTheRule
<1>1. Init => NodesOK /\ RetargetFollowsTheRule
  <2> SUFFICES ASSUME Init PROVE NodesOK /\ RetargetFollowsTheRule
    OBVIOUS
  <2>1. chain = <<Root(0)>>
    BY DEF Init
  <2>2. Len(chain) = 1 /\ chain[1] = Root(0)
    BY <2>1
  <2>3. Root(0).Timestamp = 0 /\ Root(0).Bits = nProofOfWorkLimit
    BY DEF Root
  <2>4. NodesOK
    <3>1. ASSUME NEW i \in 1..1
          PROVE  /\ chain[i].Timestamp + 4 * nTargetTimespan <= Uint32
                 /\ chain[i].Bits \in Nat /\ SetCompact(chain[i].Bits) \in Nat
      <4>1. i = 1
        OBVIOUS
      <4> QED  BY <2>2, <2>3, <4>1, RootTimes, LimitOK DEF LimitIs
    <3> QED  BY <2>2, <3>1 DEF NodesOK
  <2>5. Height(chain) = 0
    BY <2>2 DEF Height
  <2>6. RetargetFollowsTheRule
    BY <2>5 DEF RetargetFollowsTheRule
  <2> QED  BY <2>4, <2>6
<1>2. RetargetInv /\ [Next]_vars => NodesOK' /\ RetargetFollowsTheRule'
  <2> SUFFICES ASSUME RetargetInv, [Next]_vars PROVE NodesOK' /\ RetargetFollowsTheRule'
    OBVIOUS
  <2>1. CASE CheckBlock
    BY <2>1, RetargetAppends
  <2>2. CASE CheckGenesis
    <3>1. GenesisTime \in Nat /\ GenesisTime + 4 * nTargetTimespan <= Uint32
      BY RootTimes
    <3>2. /\ chain' = [chain EXCEPT ![1] = Root(GenesisTime)]
          /\ testnet' = testnet /\ measured' = measured
      BY <2>2 DEF CheckGenesis
    <3> QED  BY <3>1, <3>2, RetargetRootKeeps
  <2>3. CASE Restart
    <3>1. chain' = [chain EXCEPT ![1] = Root(0)] /\ testnet' = testnet /\ measured' = measured
      BY <2>3 DEF Restart
    <3>2. 0 \in Nat /\ 0 + 4 * nTargetTimespan <= Uint32
      BY RootTimes
    <3> QED  BY <3>1, <3>2, RetargetRootKeeps
  <2>4. CASE UNCHANGED <<testnet, chain, measured>>
    <3>1. NodesOK'
      BY <2>4 DEF RetargetInv, NodesOK, SetCompact, nSize, SignBit, Negative
    <3>2. RetargetFollowsTheRule'
      <4>1. Height(chain)' = Height(chain)
        BY <2>4 DEF Height
      <4>2. chain' = chain /\ testnet' = testnet /\ measured' = measured
        BY <2>4
      <4>3. \A k \in 1..Height(chain) :
              k % nInterval = 0 /\ ~testnet =>
                (k > nInterval \/ measured =>
                   Rule(chain[k - nInterval + 1].Bits, Took(k), chain[k + 1].Bits))
        BY RuleIs DEF RetargetInv
      <4> QED  BY <4>1, <4>2, <4>3, RuleIsNext, Zenon DEF Took
    <3> QED  BY <3>1, <3>2
  <2> QED  BY <2>1, <2>2, <2>3, <2>4, Zenon DEF Next, TimePasses, vars
<1> QED  BY <1>1, <1>2, TargetInvariant, PTL DEF Spec, RetargetInv
=============================================================================
