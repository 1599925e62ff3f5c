---------------------------- MODULE ScriptProofs -----------------------------
(***************************************************************************)
(* Proofs about Script, for every word size, every limit and all families  *)
(* of scripts.                                                             *)
(***************************************************************************)
EXTENDS Script, SequenceTheorems, WellFoundedInduction, TLAPS

(* What every string on a stack is. *)
Fine(d) == IsElement(d)

(* There is no set of all strings, hashes being strings with a past: a     *)
(* stack is good if it is a sequence over some set of fine ones.           *)
Good(s) == \E S : s \in Seq(S) /\ \A d \in S : Fine(d)
-----------------------------------------------------------------------------
(* The strings the opcodes make are fine. *)
LEMMA FineBytes ==
  ASSUME NEW n \in Nat, NEW v \in 0..(Word - 1)
  PROVE  Fine(Bytes(n, v))
BY DEF Fine, Bytes, IsElement

LEMMA FineInt ==
  ASSUME NEW v \in Int
  PROVE  Fine(IntItem(v))
<1>1. v % Word \in 0..(Word - 1)
  BY ScriptOpsAssumption
<1>2. WordLen \in Nat
  BY ScriptOpsAssumption
<1> QED  BY <1>1, <1>2, FineBytes DEF IntItem

LEMMA FineBool ==
  ASSUME NEW v
  PROVE  Fine(BoolItem(v)) /\ Fine(EqualItem(v))
<1>1. \A b \in {0, 1} : b \in 0..(Word - 1)
  BY ScriptOpsAssumption
<1> QED  BY <1>1, FineBytes DEF BoolItem, EqualItem

LEMMA FineHash ==
  ASSUME NEW op, NEW d
  PROVE  Fine(HashOf(op, d))
BY ScriptOpsAssumption DEF Fine, HashOf, IsElement
-----------------------------------------------------------------------------
(* Stacks under the operations of stack.go. *)
LEMMA GoodStack ==
  ASSUME NEW s, Good(s)
  PROVE  /\ Len(s) \in Nat
         /\ \A i \in 1..Len(s) : Fine(s[i]) /\ Fine(Top(s, i)) /\ Int32(Top(s, i)) \in Nat
         /\ s # <<>> => Len(s) > 0
<1>1. PICK S : s \in Seq(S) /\ \A d \in S : Fine(d)
  BY DEF Good
<1>2. Len(s) \in Nat /\ (s # <<>> => Len(s) > 0)
  BY <1>1, LenProperties, EmptySeq
<1>3. \A i \in 1..Len(s) : Fine(s[i])
  BY <1>1, ElementOfSeq
<1>4. \A i \in 1..Len(s) : Len(s) + 1 - i \in 1..Len(s)
  BY <1>2
<1>5. \A i \in 1..Len(s) : Fine(Top(s, i))
  BY <1>3, <1>4 DEF Top
<1>6. \A d : Fine(d) => Int32(d) \in Nat
  BY ScriptOpsAssumption DEF Fine, IsElement, Int32
<1> QED  BY <1>2, <1>3, <1>5, <1>6

LEMMA GoodEmpty == Good(<<>>)
<1> DEFINE S == {}
<1>1. <<>> \in Seq(S) /\ \A d \in S : Fine(d)
  BY EmptySeq
<1> HIDE DEF S
<1> QED  BY <1>1 DEF Good

LEMMA GoodAppend ==
  ASSUME NEW s, Good(s), NEW d, Fine(d)
  PROVE  Good(Append(s, d)) /\ Len(Append(s, d)) = Len(s) + 1
<1>1. PICK S : s \in Seq(S) /\ \A x \in S : Fine(x)
  BY DEF Good
<1>2. s \in Seq(S \union {d}) /\ \A x \in S \union {d} : Fine(x)
  BY <1>1, SeqMonotonic
<1>3. /\ Append(s, d) \in Seq(S \union {d})
      /\ Len(Append(s, d)) = Len(s) + 1
  BY <1>2, AppendProperties
<1> QED  BY <1>2, <1>3 DEF Good

LEMMA GoodBelow ==
  ASSUME NEW s, Good(s), NEW n \in 0..Len(s)
  PROVE  Good(Below(s, n)) /\ Len(Below(s, n)) = Len(s) - n
<1>1. PICK S : s \in Seq(S) /\ \A x \in S : Fine(x)
  BY DEF Good
<1>2. Len(s) \in Nat /\ Len(s) - n \in 0..Len(s)
  BY <1>1, LenProperties
<1>3. \A i \in 1..(Len(s) - n) : s[i] \in S
  BY <1>1, <1>2, ElementOfSeq
<1>4. /\ SubSeq(s, 1, Len(s) - n) \in Seq(S)
      /\ Len(SubSeq(s, 1, Len(s) - n)) = Len(s) - n
  BY <1>2, <1>3, SubSeqProperties
<1> QED  BY <1>1, <1>4 DEF Good, Below

LEMMA GoodConcat ==
  ASSUME NEW s, Good(s), NEW t, Good(t)
  PROVE  Good(s \o t) /\ Len(s \o t) = Len(s) + Len(t)
<1>1. PICK S : s \in Seq(S) /\ \A x \in S : Fine(x)
  BY DEF Good
<1>2. PICK T : t \in Seq(T) /\ \A x \in T : Fine(x)
  BY DEF Good
<1>3. /\ s \in Seq(S \union T) /\ t \in Seq(S \union T)
      /\ \A x \in S \union T : Fine(x)
  BY <1>1, <1>2, SeqMonotonic
<1>4. s \o t \in Seq(S \union T) /\ Len(s \o t) = Len(s) + Len(t)
  BY <1>3, ConcatProperties
<1> QED  BY <1>3, <1>4 DEF Good

LEMMA GoodFunction ==
  ASSUME NEW n \in Nat, NEW f, DOMAIN f = 1..n, f = [i \in 1..n |-> f[i]],
         \A i \in 1..n : Fine(f[i])
  PROVE  Good(f) /\ Len(f) = n
<1> DEFINE S == {f[i] : i \in 1..n}
<1>1. f \in [1..n -> S]
  OBVIOUS
<1>2. f \in Seq(S)
  BY <1>1, SeqDef
<1>3. \A x \in S : Fine(x)
  OBVIOUS
<1>4. Len(f) = n
  BY <1>1, <1>2, LenProperties
<1> QED  BY <1>2, <1>3, <1>4 DEF Good

LEMMA GoodOne ==
  ASSUME NEW a, Fine(a)
  PROVE  Good(<<a>>)
<1>1. <<a>> = Append(<<>>, a)
  OBVIOUS
<1> QED  BY <1>1, GoodEmpty, GoodAppend

LEMMA GoodTwo ==
  ASSUME NEW a, Fine(a), NEW b, Fine(b)
  PROVE  Good(<<a, b>>)
<1>1. <<a, b>> = Append(<<a>>, b)
  OBVIOUS
<1> QED  BY <1>1, GoodOne, GoodAppend
-----------------------------------------------------------------------------
(* The opcodes of the data stack.  What the table of moves refers to are   *)
(* elements that are taken, and never more of them than are asked for.     *)
LEMMA Moves ==
  ASSUME NEW op \in DOMAIN Shuffle
  PROVE  /\ Shuffle[op].takes \in Nat
         /\ Shuffle[op].takes = Needs(op)
         /\ Len(Shuffle[op].gives) \in Nat
         /\ \A i \in 1..Len(Shuffle[op].gives) :
              Shuffle[op].gives[i] \in 1..Shuffle[op].takes
<1>1. op \in {"OP_2DROP", "OP_2DUP", "OP_3DUP", "OP_2OVER", "OP_DROP", "OP_DUP",
              "OP_NIP", "OP_OVER", "OP_ROT", "OP_SWAP", "OP_TUCK"}
  BY DEF Shuffle
<1>2. CASE op = "OP_2DROP"  BY <1>2 DEF Shuffle, Needs, Binary, Logical, Deep
<1>3. CASE op = "OP_2DUP"   BY <1>3 DEF Shuffle, Needs, Binary, Logical, Deep
<1>4. CASE op = "OP_3DUP"   BY <1>4 DEF Shuffle, Needs, Binary, Logical, Deep
<1>5. CASE op = "OP_2OVER"  BY <1>5 DEF Shuffle, Needs, Binary, Logical, Deep
<1>6. CASE op = "OP_DROP"   BY <1>6 DEF Shuffle, Needs, Binary, Logical, Deep
<1>7. CASE op = "OP_DUP"    BY <1>7 DEF Shuffle, Needs, Binary, Logical, Deep
<1>8. CASE op = "OP_NIP"    BY <1>8 DEF Shuffle, Needs, Binary, Logical, Deep
<1>9. CASE op = "OP_OVER"   BY <1>9 DEF Shuffle, Needs, Binary, Logical, Deep
<1>10. CASE op = "OP_ROT"   BY <1>10 DEF Shuffle, Needs, Binary, Logical, Deep
<1>11. CASE op = "OP_SWAP"  BY <1>11 DEF Shuffle, Needs, Binary, Logical, Deep
<1>12. CASE op = "OP_TUCK"  BY <1>12 DEF Shuffle, Needs, Binary, Logical, Deep
<1> QED  BY <1>1, <1>2, <1>3, <1>4, <1>5, <1>6, <1>7, <1>8, <1>9, <1>10, <1>11, <1>12

(* The kinds of opcodes have none in common. *)
LEMMA Kinds ==
  ASSUME NEW op
  PROVE  LET Rest == {"OP_EQUAL", "OP_WITHIN", "OP_SIZE", "OP_DEPTH", "OP_IFDUP"}
         IN  /\ op \in DOMAIN Shuffle =>
                  op \notin Unary \union Binary \union Logical \union Hashes \union Deep \union Rest
             /\ op \in Unary =>
                  op \notin DOMAIN Shuffle \union Binary \union Logical \union Hashes \union Deep \union Rest
             /\ op \in Binary =>
                  op \notin DOMAIN Shuffle \union Unary \union Logical \union Hashes \union Deep \union Rest
             /\ op \in Logical =>
                  op \notin DOMAIN Shuffle \union Unary \union Binary \union Hashes \union Deep \union Rest
             /\ op \in Hashes =>
                  op \notin DOMAIN Shuffle \union Unary \union Binary \union Logical \union Deep \union Rest
             /\ op \in Deep =>
                  op \notin DOMAIN Shuffle \union Unary \union Binary \union Logical \union Hashes \union Rest
             /\ op \in Rest =>
                  op \notin DOMAIN Shuffle \union Unary \union Binary \union Logical \union Hashes \union Deep
BY DEF Shuffle, Unary, Binary, Logical, Hashes, Deep

(* What the opcodes put on the stack is fine, and they take no more than   *)
(* they ask for; OP_PICK and OP_ROLL take no more than there is.           *)
LEMMA MoveResults ==
  ASSUME NEW st, Good(st), NEW op \in DOMAIN Shuffle, Len(st) >= Needs(op)
  PROVE  /\ Operands(op, st) \in 0..Len(st)
         /\ Good(Results(op, st))
<1> DEFINE n == Shuffle[op].takes
           gives == Shuffle[op].gives
           f == [i \in 1..Len(gives) |-> Top(st, n + 1 - gives[i])]
<1>1. /\ n \in Nat /\ n <= Len(st) /\ Len(gives) \in Nat /\ Len(st) \in Nat
      /\ \A i \in 1..Len(gives) : gives[i] \in 1..n
  BY Moves, GoodStack
<1>2. Operands(op, st) = n
  BY Kinds DEF Operands
<1>3. Results(op, st) = f
  BY <1>2, Kinds DEF Results, Deep
<1>4. \A i \in 1..Len(gives) : n + 1 - gives[i] \in 1..Len(st)
  BY <1>1
<1>5. \A i \in 1..Len(gives) : Fine(f[i])
  <2> TAKE i \in 1..Len(gives)
  <2>1. Fine(Top(st, n + 1 - gives[i]))
    BY <1>4, GoodStack
  <2> QED  BY <2>1
<1>6. Good(f)
  <2> HIDE DEF gives
  <2>1. DOMAIN f = 1..Len(gives) /\ f = [i \in 1..Len(gives) |-> f[i]]
    OBVIOUS
  <2> HIDE DEF f
  <2> QED  BY <1>1, <1>5, <2>1, GoodFunction
<1> QED  BY <1>1, <1>2, <1>3, <1>6

LEMMA ArithmeticResults ==
  ASSUME NEW st, Good(st), NEW op \in Unary \union Binary \union Logical,
         Len(st) >= Needs(op)
  PROVE  /\ Operands(op, st) \in 0..Len(st)
         /\ Good(Results(op, st))
<1> DEFINE a == Int32(Top(st, 1))
           b == Int32(Top(st, 2))
<1>1. Len(st) \in Nat
  BY GoodStack
<1>2. CASE op \in Unary
  <2>1. Needs(op) = 1 /\ op \notin DOMAIN Shuffle
    BY <1>2 DEF Unary, Needs, Binary, Logical, Deep, Shuffle
  <2>2. Operands(op, st) = 1 /\ Results(op, st) = <<UnaryValue(op, a)>>
    BY <1>2, Kinds DEF Operands, Results, Deep
  <2>3. a \in Nat
    BY <1>1, <2>1, GoodStack
  <2>4. Fine(UnaryValue(op, a))
    BY <1>2, <2>3, FineInt, FineBool DEF Unary, UnaryValue
  <2> QED  BY <1>1, <2>1, <2>2, <2>4, GoodOne
<1>3. CASE op \in Binary
  <2>1. Needs(op) = 2 /\ op \notin DOMAIN Shuffle /\ op \notin Unary
    BY <1>3 DEF Unary, Needs, Binary, Logical, Deep, Shuffle
  <2>2. Operands(op, st) = 2 /\ Results(op, st) = <<BinaryValue(op, a, b)>>
    BY <1>3, Kinds DEF Operands, Results, Deep
  <2>3. a \in Nat /\ b \in Nat
    BY <1>1, <2>1, GoodStack
  <2>4. Fine(BinaryValue(op, a, b))
    BY <1>3, <2>3, FineInt, FineBool DEF Binary, BinaryValue
  <2> QED  BY <1>1, <2>1, <2>2, <2>4, GoodOne
<1>4. CASE op \in Logical
  <2>1. Needs(op) = 2 /\ op \notin DOMAIN Shuffle /\ op \notin Unary /\ op \notin Binary
    BY <1>4 DEF Unary, Needs, Binary, Logical, Deep, Shuffle
  <2>2. Operands(op, st) \in {1, 2}
    BY <1>4, Kinds DEF Operands
  <2>3. Results(op, st) \in {<<LogicalValue(op, a, a)>>, <<LogicalValue(op, a, b)>>}
    BY <1>4, Kinds DEF Results, Deep
  <2>4. Fine(LogicalValue(op, a, a)) /\ Fine(LogicalValue(op, a, b))
    BY FineBool DEF LogicalValue
  <2> QED  BY <1>1, <2>1, <2>2, <2>3, <2>4, GoodOne
<1> QED  BY <1>2, <1>3, <1>4

LEMMA DeepResults ==
  ASSUME NEW st, Good(st), NEW op \in Deep, Len(st) >= Needs(op), ~TooDeep(op, st)
  PROVE  /\ Operands(op, st) \in 0..Len(st)
         /\ Good(Results(op, st))
<1> DEFINE a == Int32(Top(st, 1))
           n == a + 2
           pick == [i \in 1..n |-> IF i < n THEN Top(st, n + 1 - i) ELSE Top(st, n)]
           roll == [i \in 1..(n - 1) |-> IF i < n - 1 THEN Top(st, n - i) ELSE Top(st, n)]
<1>1. Needs(op) = 2 /\ Len(st) \in Nat /\ a \in Nat
  <2>1. Needs(op) = 2
    BY DEF Needs, Deep, Binary, Logical
  <2> QED  BY <2>1, GoodStack
<1>2. n \in 2..Len(st)
  BY <1>1 DEF TooDeep
<1>3. /\ op \notin DOMAIN Shuffle \union Unary \union Binary \union Logical \union Hashes
      /\ op \notin {"OP_WITHIN", "OP_EQUAL", "OP_SIZE", "OP_DEPTH", "OP_IFDUP"}
  BY DEF Deep, Shuffle, Unary, Binary, Logical, Hashes
<1>4. Operands(op, st) = n
  BY Kinds DEF Operands
<1>5. \A i \in 1..n : n + 1 - i \in 1..Len(st)
  BY <1>1, <1>2
<1>6. \A i \in 1..n : Fine(Top(st, n + 1 - i)) /\ Fine(Top(st, n))
  BY <1>2, <1>5, GoodStack
<1>7. \A i \in 1..n : Fine(pick[i])
  BY <1>6
<1>8. \A i \in 1..(n - 1) : Fine(roll[i])
  <2> TAKE i \in 1..(n - 1)
  <2>1. i + 1 \in 1..n /\ n + 1 - (i + 1) = n - i
    BY <1>1, <1>2
  <2> QED  BY <1>6, <2>1
<1>9. Good(pick) /\ Good(roll)
  <2>1. /\ DOMAIN pick = 1..n /\ pick = [i \in 1..n |-> pick[i]]
        /\ DOMAIN roll = 1..(n - 1) /\ roll = [i \in 1..(n - 1) |-> roll[i]]
    OBVIOUS
  <2>2. n \in Nat /\ n - 1 \in Nat
    BY <1>1
  <2> HIDE DEF pick, roll, n
  <2> QED  BY <1>7, <1>8, <2>1, <2>2, GoodFunction
<1>10. Results(op, st) = pick \/ Results(op, st) = roll
  <2>1. n + 1 - 1 = n /\ \A i \in 1..(n - 1) : n + 1 - (i + 1) = n - i
    BY <1>1
  <2>2. CASE op = "OP_PICK"
    <3>1. Results(op, st) = [i \in 1..n |-> IF i < n THEN Top(st, n + 1 - i) ELSE Top(st, n + 1 - 1)]
      BY <1>4, <2>2, Kinds DEF Results, Deep
    <3> QED  BY <2>1, <3>1
  <2>3. CASE op = "OP_ROLL"
    BY <1>4, <2>1, <2>3, Kinds DEF Results, Deep
  <2> QED  BY <2>2, <2>3 DEF Deep
<1> HIDE DEF pick, roll
<1>11. Good(Results(op, st))
  BY <1>9, <1>10, Zenon
<1>12. Operands(op, st) \in 0..Len(st)
  BY <1>1, <1>2, <1>4
<1> QED  BY <1>11, <1>12

LEMMA OtherResults ==
  ASSUME NEW st, Good(st),
         NEW op \in Hashes \union {"OP_EQUAL", "OP_WITHIN", "OP_SIZE", "OP_DEPTH", "OP_IFDUP"},
         Len(st) >= Needs(op)
  PROVE  /\ Operands(op, st) \in 0..Len(st)
         /\ Good(Results(op, st))
<1> DEFINE a == Int32(Top(st, 1))
<1>1. Len(st) \in Nat
  BY GoodStack
<1>2. Len(st) >= 1 => Fine(Top(st, 1)) /\ a \in Nat /\ Top(st, 1).len \in Nat
  <2> SUFFICES ASSUME Len(st) >= 1
               PROVE  Fine(Top(st, 1)) /\ a \in Nat /\ Top(st, 1).len \in Nat
    OBVIOUS
  <2>1. 1 \in 1..Len(st)
    BY <1>1
  <2> QED  BY <2>1, GoodStack DEF Fine, IsElement
<1>3. 1 + 1 - 1 = 1
  OBVIOUS
<1>4. CASE op \in Hashes
  <2>1. Needs(op) = 1
    BY <1>4 DEF Hashes, Needs, Binary, Logical, Deep
  <2>2. Operands(op, st) = 1 /\ Results(op, st) = <<HashOf(op, Top(st, 1))>>
    BY <1>4, Kinds DEF Operands, Results, Deep
  <2> QED  BY <1>1, <2>1, <2>2, FineHash, GoodOne
<1>5. CASE op = "OP_EQUAL"
  <2>1. Needs(op) = 2
    BY <1>5 DEF Needs, Binary, Logical, Deep
  <2>2. Operands(op, st) = 2 /\ Results(op, st) = <<EqualItem(Top(st, 1) = Top(st, 2))>>
    BY <1>5, Kinds DEF Operands, Results, Deep
  <2> QED  BY <1>1, <2>1, <2>2, FineBool, GoodOne
<1>6. CASE op = "OP_WITHIN"
  <2>1. Needs(op) = 3
    BY <1>6 DEF Needs, Binary, Logical, Deep
  <2>2. /\ Operands(op, st) = 3
        /\ Results(op, st) = <<BoolItem(a >= Int32(Top(st, 2)) /\ a < Int32(Top(st, 3)))>>
    BY <1>6, Kinds DEF Operands, Results, Deep
  <2> QED  BY <1>1, <2>1, <2>2, FineBool, GoodOne
<1>7. CASE op = "OP_SIZE"
  <2>1. Needs(op) = 1
    BY <1>7 DEF Needs, Binary, Logical, Deep
  <2>2. Operands(op, st) = 1
    BY <1>7, Kinds DEF Operands
  <2>3. Results(op, st) = <<Top(st, 1), IntItem(Top(st, 1).len)>>
    BY <1>3, <1>7, <2>2, Kinds DEF Results, Deep
  <2> QED  BY <1>1, <1>2, <2>1, <2>2, <2>3, FineInt, GoodTwo
<1>8. CASE op = "OP_DEPTH"
  <2>1. Operands(op, st) = 0 /\ Results(op, st) = <<IntItem(Len(st))>>
    BY <1>8, Kinds DEF Operands, Results, Deep
  <2> QED  BY <1>1, <2>1, FineInt, GoodOne
<1>9. CASE op = "OP_IFDUP"
  <2>1. Needs(op) = 1
    BY <1>9 DEF Needs, Binary, Logical, Deep
  <2>2. Operands(op, st) = 1
    BY <1>9, Kinds DEF Operands
  <2>3. Results(op, st) \in {<<Top(st, 1), IntItem(a)>>, <<Top(st, 1)>>}
    BY <1>3, <1>9, <2>2, Kinds DEF Results, Deep
  <2>4. Good(<<Top(st, 1), IntItem(a)>>) /\ Good(<<Top(st, 1)>>)
    BY <1>1, <1>2, <2>1, FineInt, GoodOne, GoodTwo
  <2> QED  BY <1>1, <2>1, <2>2, <2>3, <2>4
<1> QED  BY <1>4, <1>5, <1>6, <1>7, <1>8, <1>9

LEMMA StackOpKeeps ==
  ASSUME NEW st, Good(st), NEW op \in StackOps, Len(st) >= Needs(op), ~TooDeep(op, st)
  PROVE  /\ Operands(op, st) \in 0..Len(st)
         /\ Good(Below(st, Operands(op, st)) \o Results(op, st))
<1>1. /\ Operands(op, st) \in 0..Len(st)
      /\ Good(Results(op, st))
  BY MoveResults, ArithmeticResults, DeepResults, OtherResults, Zenon DEF StackOps, Reading
<1> QED  BY <1>1, GoodBelow, GoodConcat
-----------------------------------------------------------------------------
(* The inductive invariant.  The loop of OP_CHECKMULTISIG has as many      *)
(* signatures to go as there are up to the element below them, and as long *)
(* as fSuccess holds as many keys as there are up to the number of         *)
(* signatures.                                                             *)
MultiInv ==
  LET keys == KeysCount(stack)
      last == KeysCount(stack) + SigsCount(stack) + 3
  IN  /\ phase # "done"
      /\ multi.sigs \in 0..MaxKeys /\ multi.keys \in Int
      /\ multi.ok \in BOOLEAN
      /\ multi.ikey \in Nat /\ 1 <= multi.ikey
      /\ multi.isig \in Nat /\ 1 <= multi.isig
      /\ multi.isig + multi.sigs = last
      /\ multi.ikey + multi.keys = keys + 2
      /\ multi.ok => multi.sigs <= multi.keys
      /\ keys \in Nat /\ keys + 2 <= Len(stack)
      /\ last \in 0..Len(stack)

Inv ==
  /\ family \in DOMAIN Families
  /\ phase \in {"sig", "pk", "done"}
  /\ Good(stack) /\ Good(altstack) /\ Good(vfExec)
  /\ branch \in Seq(BOOLEAN) /\ Len(branch) = Len(vfExec)
  /\ nOpCount \in Nat /\ idx \in Nat /\ sta \in 0..idx
  /\ multi # NoMulti => MultiInv
  /\ verdict \in Verdicts
  /\ verdict # "none" <=> phase = "done"
  /\ LimitsHold

(* What a step keeps: the invariant, and the data stack within its bounds. *)
Kept == Inv' /\ ReadInRange

LEMMA InitInv == Init => Inv
<1> SUFFICES ASSUME Init PROVE Inv
  OBVIOUS
<1>1. Good(<<>>) /\ <<>> \in Seq(BOOLEAN) /\ Len(<<>>) = 0
  BY GoodEmpty, EmptySeq
<1>2. LimitsHold
  BY <1>1, ScriptAssumption DEF Init, LimitsHold
<1> QED  BY <1>1, <1>2 DEF Init, Inv, Verdicts

(* evalScript returns for good, or with true, when a good stack is handed  *)
(* on.                                                                     *)
LEMMA EndKeeps ==
  ASSUME Inv, NEW v \in Verdicts \ {"none"}, End(v),
         v = "underflow" => multi # NoMulti /\ ~multi.ok
  PROVE  Kept
<1>1. Good(<<>>) /\ <<>> \in Seq(BOOLEAN) /\ Len(<<>>) = 0
  BY GoodEmpty, EmptySeq
<1>2. LimitsHold'
  BY <1>1, ScriptAssumption DEF End, LeaveEval, LimitsHold
<1>3. Good(stack)' /\ Good(altstack)' /\ Good(vfExec)'
  BY <1>1 DEF End, LeaveEval
<1>4. ReadInRange
  BY DEF End, ReadInRange
<1> QED  BY <1>1, <1>2, <1>3, <1>4 DEF End, LeaveEval, Inv, Kept

LEMMA ReturnKeeps ==
  Inv => \A ok, st : /\ ok \in BOOLEAN /\ Return(ok, st)
                     /\ ok => Good(st) /\ Len(st) <= MaxStack /\ phase # "done"
                     => Kept
<1> SUFFICES ASSUME Inv, NEW ok \in BOOLEAN, NEW st, Return(ok, st),
                    ok => Good(st) /\ Len(st) <= MaxStack /\ phase # "done"
             PROVE  Kept
  OBVIOUS
<1>1. CASE ~ok
  BY <1>1, EndKeeps DEF Return, Verdicts
<1>2. CASE ok /\ phase = "pk"
  BY <1>2, EndKeeps DEF Return, Verdicts
<1>3. CASE ok /\ phase # "pk"
  <2>1. Good(<<>>) /\ <<>> \in Seq(BOOLEAN) /\ Len(<<>>) = 0
    BY GoodEmpty, EmptySeq
  <2>2. LeaveEval /\ phase' = "pk" /\ stack' = st /\ verdict' = verdict
    BY <1>3 DEF Return
  <2>3. Good(stack)' /\ Good(altstack)' /\ Good(vfExec)'
    BY <1>3, <2>1, <2>2 DEF LeaveEval
  <2>4. LimitsHold'
    <3>1. Len(st) \in Nat
      BY <1>3, GoodStack
    <3> QED  BY <1>3, <2>1, <2>2, <3>1, ScriptAssumption DEF LeaveEval, LimitsHold
  <2> QED  BY <1>3, <2>1, <2>2, <2>3, <2>4 DEF LeaveEval, Inv, Kept, ReadInRange
<1> QED  BY <1>1, <1>2, <1>3

(* The end of the loop body. *)
LEMMA AdvanceKeeps ==
  Inv => \A op, st, alt, vf, br, sep :
           /\ Advance(op, st, alt, vf, br, sep)
           /\ Good(st) /\ Good(alt) /\ Good(vf)
           /\ br \in Seq(BOOLEAN) /\ Len(br) = Len(vf)
           /\ sep \in 0..(idx + 1)
           /\ multi = NoMulti /\ nOpCount + Cost(op) <= MaxOps
           => Kept
<1> SUFFICES ASSUME Inv,
                    NEW op, NEW st, NEW alt, NEW vf, NEW br, NEW sep,
                    Advance(op, st, alt, vf, br, sep),
                    Good(st), Good(alt), Good(vf),
                    br \in Seq(BOOLEAN), Len(br) = Len(vf),
                    sep \in 0..(idx + 1),
                    multi = NoMulti, nOpCount + Cost(op) <= MaxOps
             PROVE  Kept
  OBVIOUS
<1>1. CASE TooBig(st, alt)
  BY <1>1, ReturnKeeps DEF Advance
<1>2. CASE ~TooBig(st, alt)
  <2>1. /\ stack' = st /\ altstack' = alt /\ vfExec' = vf /\ branch' = br
        /\ sta' = sep /\ idx' = idx + 1 /\ nOpCount' = nOpCount + Cost(op)
        /\ UNCHANGED <<family, phase, multi, verdict>>
    BY <1>2 DEF Advance
  <2>2. Good(stack)' /\ Good(altstack)' /\ Good(vfExec)'
    BY <2>1
  <2>3. LimitsHold'
    <3>1. Len(st) \in Nat /\ Len(alt) \in Nat
      BY GoodStack
    <3> QED  BY <1>2, <2>1, <3>1, ScriptAssumption DEF TooBig, LimitsHold
  <2>4. nOpCount' \in Nat /\ idx' \in Nat /\ sta' \in 0..idx'
    BY <2>1 DEF Inv, Cost
  <2> QED  BY <2>1, <2>2, <2>3, <2>4 DEF Inv, Kept, ReadInRange
<1> QED  BY <1>1, <1>2

LEMMA ContinueKeeps ==
  Inv => \A op, st : /\ Continue(op, st) /\ Good(st)
                     /\ multi = NoMulti /\ nOpCount + Cost(op) <= MaxOps
                     => Kept
<1> SUFFICES ASSUME Inv, NEW op, NEW st, Continue(op, st), Good(st),
                    multi = NoMulti, nOpCount + Cost(op) <= MaxOps
             PROVE  Kept
  OBVIOUS
<1>1. Advance(op, st, altstack, vfExec, branch, sta)
  BY DEF Continue
<1>2. sta \in 0..(idx + 1)
  BY DEF Inv
<1> QED  BY <1>1, <1>2, AdvanceKeeps DEF Inv
-----------------------------------------------------------------------------
(* What the invariant says of the stack, and of an opcode that is read. *)
LEMMA StackFacts ==
  ASSUME Inv
  PROVE  /\ Good(stack) /\ Len(stack) \in Nat /\ Len(stack) <= MaxStack
         /\ Good(altstack) /\ Good(vfExec) /\ Len(vfExec) = Len(branch)
         /\ Len(vfExec) \in Nat /\ Len(altstack) \in Nat
         /\ vfExec # <<>> => Len(vfExec) > 0
         /\ altstack # <<>> => Len(altstack) > 0
<1>1. Len(stack) \in Nat /\ Len(altstack) \in Nat /\ Len(vfExec) \in Nat
  BY GoodStack DEF Inv
<1> QED  BY <1>1, GoodStack, ScriptAssumption DEF Inv, LimitsHold

LEMMA PushKeeps ==
  ASSUME Inv, PushData \/ TornPush \/ Constant \/ NoOperation \/ Refused \/ NoCase
  PROVE  Kept
<1> USE StackFacts
<1>1. CASE PushData
  <2>1. PICK d \in Families[family][phase].pushes :
          IF d.len > MaxElement THEN Return(FALSE, stack)
          ELSE Continue("OP_PUSHDATA", IF fExec THEN Append(stack, d) ELSE stack)
    BY <1>1 DEF PushData
  <2>2. Fine(d)
    BY <1>1, ScriptAssumption DEF PushData, Fetch, Inv, Fine
  <2>3. Good(IF fExec THEN Append(stack, d) ELSE stack)
    BY <2>2, GoodAppend
  <2> QED  BY <1>1, <2>1, <2>3, ReturnKeeps, ContinueKeeps DEF PushData, Fetch
<1>2. CASE TornPush
  BY <1>2, ReturnKeeps, EndKeeps DEF TornPush, Verdicts
<1>3. CASE Constant
  <2>1. ASSUME NEW op, NEW n \in Int, Operate(op, Continue(op, Append(stack, IntItem(n))))
        PROVE  Kept
    <3>1. Good(Append(stack, IntItem(n)))
      BY FineInt, GoodAppend
    <3> QED  BY <2>1, <3>1, ReturnKeeps, ContinueKeeps DEF Operate, Fetch
  <2>2. \A n \in Numbers : n \in Int
    BY ScriptAssumption
  <2> QED  BY <1>3, <2>1, <2>2 DEF Constant
<1>4. CASE NoOperation
  BY <1>4, ContinueKeeps DEF NoOperation, Fetch
<1>5. CASE Refused
  BY <1>5, ReturnKeeps DEF Refused
<1>6. CASE NoCase
  BY <1>6, ReturnKeeps, ContinueKeeps, EndKeeps DEF NoCase, Fetch, Verdicts
<1> QED  BY <1>1, <1>2, <1>3, <1>4, <1>5, <1>6

(* The outcomes of conditions, on vfExec and in the history. *)
LEMMA ConditionKeeps ==
  ASSUME Inv, If \/ Else \/ EndIf
  PROVE  Kept
<1> USE StackFacts
<1>1. sta \in 0..(idx + 1) /\ branch \in Seq(BOOLEAN)
  BY DEF Inv
<1>2. CASE If
  <2>1. PICK op \in {"OP_IF", "OP_NOTIF"} :
          /\ Fetch(op)
          /\ IF fExec /\ Len(stack) < 1 THEN Return(FALSE, stack)
             ELSE LET fValue == fExec /\ ((Int32(Top(stack, 1)) # 0) <=> op = "OP_IF")
                  IN  Advance(op, IF fExec THEN Below(stack, 1) ELSE stack, altstack,
                              Append(vfExec, BoolItem(fValue)), Append(branch, fValue), sta)
    BY <1>2 DEF If
  <2>2. CASE fExec /\ Len(stack) < 1
    BY <2>1, <2>2, ReturnKeeps
  <2>3. CASE ~(fExec /\ Len(stack) < 1)
    <3> DEFINE fValue == fExec /\ ((Int32(Top(stack, 1)) # 0) <=> op = "OP_IF")
               st == IF fExec THEN Below(stack, 1) ELSE stack
    <3>1. Advance(op, st, altstack, Append(vfExec, BoolItem(fValue)), Append(branch, fValue), sta)
      BY <2>1, <2>3
    <3>2. Good(st)
      <4>1. CASE fExec
        <5>1. 1 \in 0..Len(stack)
          BY <2>3, <4>1
        <5> QED  BY <4>1, <5>1, GoodBelow
      <4>2. CASE ~fExec
        BY <4>2
      <4> QED  BY <4>1, <4>2
    <3>3. fValue \in BOOLEAN
      OBVIOUS
    <3> HIDE DEF fValue, st
    <3>4. /\ Good(Append(vfExec, BoolItem(fValue)))
          /\ Len(Append(vfExec, BoolItem(fValue))) = Len(vfExec) + 1
      BY FineBool, GoodAppend
    <3>5. /\ Append(branch, fValue) \in Seq(BOOLEAN)
          /\ Len(Append(branch, fValue)) = Len(branch) + 1
      BY <1>1, <3>3, AppendProperties
    <3> QED  BY <1>1, <2>1, <3>1, <3>2, <3>4, <3>5, AdvanceKeeps DEF Fetch
  <2> QED  BY <2>2, <2>3
<1>3. ASSUME vfExec # <<>>
      PROVE  /\ Good(Below(vfExec, 1)) /\ Len(Below(vfExec, 1)) = Len(vfExec) - 1
             /\ Below(branch, 1) \in Seq(BOOLEAN) /\ Len(Below(branch, 1)) = Len(branch) - 1
             /\ Len(branch) \in Nat /\ Len(branch) >= 1
  <2>1. Len(branch) \in Nat /\ Len(branch) >= 1
    BY <1>3
  <2>2. \A i \in 1..(Len(branch) - 1) : branch[i] \in BOOLEAN
    BY <1>1, <2>1, ElementOfSeq
  <2>3. Below(branch, 1) \in Seq(BOOLEAN) /\ Len(Below(branch, 1)) = Len(branch) - 1
    BY <2>1, <2>2, SubSeqProperties DEF Below
  <2>4. 1 \in 0..Len(vfExec)
    BY <1>3
  <2> QED  BY <2>1, <2>3, <2>4, GoodBelow
<1>4. CASE Else
  <2>1. CASE vfExec = <<>>
    BY <1>4, <2>1, EndKeeps DEF Else, Verdicts
  <2>2. CASE vfExec # <<>>
    <3> DEFINE b == Int32(Top(vfExec, 1)) = 0
               c == ~Top(branch, 1)
               vf == Append(Below(vfExec, 1), BoolItem(b))
               br == Append(Below(branch, 1), c)
    <3>1. Advance("OP_ELSE", stack, altstack, vf, br, sta) /\ Fetch("OP_ELSE")
      BY <1>4, <2>2 DEF Else
    <3>2. c \in BOOLEAN
      OBVIOUS
    <3> HIDE DEF b, c
    <3>3. Good(vf) /\ Len(vf) = Len(vfExec)
      BY <1>3, <2>2, FineBool, GoodAppend
    <3>4. br \in Seq(BOOLEAN) /\ Len(br) = Len(branch)
      BY <1>3, <2>2, <3>2, AppendProperties
    <3> QED  BY <1>1, <3>1, <3>3, <3>4, AdvanceKeeps DEF Fetch
  <2> QED  BY <2>1, <2>2
<1>5. CASE EndIf
  <2>1. CASE vfExec = <<>>
    BY <1>5, <2>1, EndKeeps DEF EndIf, Verdicts
  <2>2. CASE vfExec # <<>>
    BY <1>1, <1>3, <1>5, <2>2, AdvanceKeeps DEF EndIf, Fetch
  <2> QED  BY <2>1, <2>2
<1> QED  BY <1>2, <1>4, <1>5
-----------------------------------------------------------------------------
(* The opcodes that work on the stacks.  Each asks for what it takes, so   *)
(* Take never ends with an underflow.                                      *)
LEMMA NeedsFacts ==
  /\ Needs("OP_VERIFY") = 1 /\ Needs("OP_TOALTSTACK") = 1
  /\ Needs("OP_EQUALVERIFY") = 2 /\ Needs("OP_NUMEQUALVERIFY") = 2
  /\ Needs("OP_CHECKSIG") = 2 /\ Needs("OP_CHECKMULTISIG") = 1
BY DEF Needs, Binary, Logical, Deep

LEMMA OperateKeeps ==
  ASSUME Inv, NEW op, Fetch(op)
  PROVE  /\ ~fExec /\ Continue(op, stack) => Kept
         /\ Return(FALSE, stack) => Kept
BY StackFacts, ContinueKeeps, ReturnKeeps DEF Fetch

LEMMA StackOpsKeep ==
  ASSUME Inv, StackOp
  PROVE  Kept
<1> USE StackFacts
<1>1. PICK op \in StackOps :
        Operate(op, IF TooDeep(op, stack) THEN Return(FALSE, stack)
                    ELSE Take(Operands(op, stack),
                              Continue(op, Below(stack, Operands(op, stack))
                                           \o Results(op, stack))))
  BY DEF StackOp
<1>2. Fetch(op)
  BY <1>1 DEF Operate
<1>3. CASE ~fExec \/ Len(stack) < Needs(op) \/ TooDeep(op, stack)
  BY <1>1, <1>2, <1>3, OperateKeeps DEF Operate
<1>4. CASE fExec /\ Len(stack) >= Needs(op) /\ ~TooDeep(op, stack)
  <2> DEFINE n == Operands(op, stack)
             st == Below(stack, n) \o Results(op, stack)
  <2>1. n \in 0..Len(stack) /\ Good(st)
    BY <1>4, StackOpKeeps
  <2>2. Take(n, Continue(op, st))
    <3>1. ~(Len(stack) < Needs(op))
      <4>1. Needs(op) \in Nat
        BY DEF Needs
      <4> QED  BY <1>4, <4>1
    <3> QED  BY <1>1, <1>4, <3>1 DEF Operate
  <2> HIDE DEF n, st
  <2>3. Continue(op, st)
    BY <2>1, <2>2 DEF Take
  <2> QED  BY <1>2, <2>1, <2>3, ContinueKeeps DEF Fetch
<1>5. Len(stack) < Needs(op) \/ Len(stack) >= Needs(op)
  <2>1. Needs(op) \in Nat
    BY DEF Needs
  <2> QED  BY <2>1
<1> QED  BY <1>3, <1>4, <1>5

LEMMA OneTaken ==
  ASSUME Inv, Len(stack) >= 1
  PROVE  Good(Below(stack, 1)) /\ Len(Below(stack, 1)) = Len(stack) - 1 /\ Fine(Top(stack, 1))
<1> USE StackFacts
<1>1. 1 \in 0..Len(stack) /\ 1 \in 1..Len(stack)
  OBVIOUS
<1> QED  BY <1>1, GoodBelow, GoodStack

LEMMA TwoTaken ==
  ASSUME Inv, Len(stack) >= 2
  PROVE  Good(Below(stack, 2)) /\ Len(Below(stack, 2)) <= MaxStack
<1> USE StackFacts
<1>1. 2 \in 0..Len(stack)
  OBVIOUS
<1>2. Len(Below(stack, 2)) = Len(stack) - 2 /\ Good(Below(stack, 2))
  BY <1>1, GoodBelow
<1> QED  BY <1>2, ScriptAssumption

LEMMA StacksKeep ==
  ASSUME Inv, Verify \/ ToAltStack \/ FromAltStack \/ CodeSeparator
  PROVE  Kept
<1> USE StackFacts
<1>1. /\ sta \in 0..(idx + 1) /\ idx + 1 \in 0..(idx + 1)
      /\ branch \in Seq(BOOLEAN)
  BY DEF Inv
<1>2. CASE Verify
  <2>1. Fetch("OP_VERIFY")
    BY <1>2 DEF Verify, Operate
  <2>2. CASE ~fExec \/ Len(stack) < 1
    BY <1>2, <2>1, <2>2, OperateKeeps, NeedsFacts DEF Verify, Operate
  <2>3. CASE fExec /\ ~(Len(stack) < 1)
    <3>1. Return(FALSE, stack) \/ Continue("OP_VERIFY", Below(stack, 1))
      BY <1>2, <2>3, NeedsFacts DEF Verify, Operate, Take
    <3>2. Good(Below(stack, 1))
      BY <2>3, OneTaken
    <3> QED  BY <2>1, <3>1, <3>2, OperateKeeps, ContinueKeeps DEF Fetch
  <2> QED  BY <2>2, <2>3
<1>3. CASE ToAltStack
  <2>1. Fetch("OP_TOALTSTACK")
    BY <1>3 DEF ToAltStack, Operate
  <2>2. CASE ~fExec \/ Len(stack) < 1
    BY <1>3, <2>1, <2>2, OperateKeeps, NeedsFacts DEF ToAltStack, Operate
  <2>3. CASE fExec /\ ~(Len(stack) < 1)
    <3> DEFINE st == Below(stack, 1)
               alt == Append(altstack, Top(stack, 1))
    <3>1. Advance("OP_TOALTSTACK", st, alt, vfExec, branch, sta)
      BY <1>3, <2>3, NeedsFacts DEF ToAltStack, Operate, Take
    <3>2. Good(st) /\ Good(alt)
      BY <2>3, OneTaken, GoodAppend
    <3> HIDE DEF st, alt
    <3> QED  BY <1>1, <2>1, <3>1, <3>2, AdvanceKeeps DEF Fetch
  <2> QED  BY <2>2, <2>3
<1>4. CASE FromAltStack
  <2>1. Fetch("OP_FROMALTSTACK")
    BY <1>4 DEF FromAltStack, Operate
  <2>2. CASE ~fExec \/ Len(stack) < Needs("OP_FROMALTSTACK") \/ altstack = <<>>
    BY <1>4, <2>1, <2>2, OperateKeeps DEF FromAltStack, Operate
  <2>3. CASE fExec /\ ~(Len(stack) < Needs("OP_FROMALTSTACK")) /\ altstack # <<>>
    <3> DEFINE st == Append(stack, Top(altstack, 1))
               alt == Below(altstack, 1)
    <3>1. Advance("OP_FROMALTSTACK", st, alt, vfExec, branch, sta)
      BY <1>4, <2>3 DEF FromAltStack, Operate
    <3>2. 1 \in 0..Len(altstack) /\ 1 \in 1..Len(altstack)
      BY <2>3
    <3>3. Good(st) /\ Good(alt)
      BY <3>2, GoodStack, GoodAppend, GoodBelow
    <3> HIDE DEF st, alt
    <3> QED  BY <1>1, <2>1, <3>1, <3>3, AdvanceKeeps DEF Fetch
  <2> QED  BY <2>2, <2>3
<1>5. CASE CodeSeparator
  <2>1. Fetch("OP_CODESEPARATOR")
    BY <1>5 DEF CodeSeparator, Operate
  <2>2. CASE ~fExec \/ Len(stack) < Needs("OP_CODESEPARATOR")
    BY <1>5, <2>1, <2>2, OperateKeeps DEF CodeSeparator, Operate
  <2>3. CASE fExec /\ ~(Len(stack) < Needs("OP_CODESEPARATOR"))
    BY <1>1, <1>5, <2>1, <2>3, AdvanceKeeps DEF CodeSeparator, Operate, Fetch
  <2> QED  BY <2>2, <2>3
<1> QED  BY <1>2, <1>3, <1>4, <1>5

(* The opcodes that return. *)
LEMMA LeavingKeeps ==
  ASSUME Inv, EqualVerify \/ CheckSig \/ EndOfScript
  PROVE  Kept
<1> USE StackFacts
<1>1. ASSUME NEW op, NEW ok \in BOOLEAN, Needs(op) = 2,
             Operate(op, Take(2, Return(ok, Below(stack, 2))))
      PROVE  Kept
  <2>1. Fetch(op)
    BY <1>1 DEF Operate
  <2>2. CASE ~fExec \/ Len(stack) < 2
    BY <1>1, <2>1, <2>2, OperateKeeps DEF Operate
  <2>3. CASE fExec /\ ~(Len(stack) < 2)
    <3>1. Return(ok, Below(stack, 2))
      BY <1>1, <2>3 DEF Operate, Take
    <3>2. Good(Below(stack, 2)) /\ Len(Below(stack, 2)) <= MaxStack
      BY <2>3, TwoTaken
    <3> QED  BY <2>1, <3>1, <3>2, ReturnKeeps DEF Fetch
  <2> QED  BY <2>2, <2>3
<1>2. CASE EqualVerify
  BY <1>1, <1>2, NeedsFacts DEF EqualVerify
<1>3. CASE CheckSig
  <2> DEFINE key == Top(stack, 1)
             sig == Top(stack, 2)
             ok == IsKey(key) /\ IsSig(sig) /\ SigVerifies(key, sig)
  <2>1. Operate("OP_CHECKSIG", Take(2, Return(ok, Below(stack, 2))))
    BY <1>3 DEF CheckSig
  <2>2. ok \in BOOLEAN
    BY DEF IsKey, IsSig, SigVerifies
  <2> HIDE DEF ok
  <2> QED  BY <1>1, <2>1, <2>2, NeedsFacts
<1>4. CASE EndOfScript
  <2>1. (vfExec = <<>>) \in BOOLEAN
    OBVIOUS
  <2> QED  BY <1>4, <2>1, ReturnKeeps DEF EndOfScript
<1> QED  BY <1>2, <1>3, <1>4
-----------------------------------------------------------------------------
(* OP_CHECKMULTISIG. *)
LEMMA MultiSigBeginKeeps ==
  ASSUME Inv, MultiSigBegin
  PROVE  Kept
<1> USE StackFacts
<1>1. Fetch("OP_CHECKMULTISIG")
  BY DEF MultiSigBegin, Operate
<1>2. CASE ~fExec \/ Len(stack) < 1 \/ MultiSigRefused
  BY <1>1, <1>2, OperateKeeps, NeedsFacts DEF MultiSigBegin, Operate
<1>3. CASE fExec /\ ~(Len(stack) < 1) /\ ~MultiSigRefused
  <2> DEFINE keys == KeysCount(stack)
             sigs == SigsCount(stack)
  <2>1. /\ multi' = [ikey |-> 2, isig |-> keys + 3, keys |-> keys, sigs |-> sigs, ok |-> TRUE]
        /\ nOpCount' = nOpCount + 1 + keys
        /\ UNCHANGED <<family, phase, stack, altstack, vfExec, idx, sta, verdict, branch>>
    BY <1>3, NeedsFacts DEF MultiSigBegin, Operate
  <2>2. keys \in Nat
    <3>1. 1 \in 1..Len(stack)
      BY <1>3
    <3> QED  BY <3>1, GoodStack DEF KeysCount
  <2>3. sigs \in Nat
    <3>1. keys + 2 \in 1..Len(stack)
      BY <1>3, <2>2 DEF MultiSigRefused
    <3> QED  BY <3>1, GoodStack DEF SigsCount
  <2>4. /\ keys <= MaxKeys /\ nOpCount + 1 + keys <= MaxOps
        /\ sigs <= keys /\ keys + sigs + 3 <= Len(stack)
    <3>1. nOpCount \in Nat /\ MaxKeys \in Nat /\ MaxOps \in Nat
      BY ScriptAssumption DEF Inv
    <3> QED  BY <1>3, <2>2, <2>3, <3>1 DEF MultiSigRefused
  <2>5. MultiInv'
    <3>1. KeysCount(stack)' = keys /\ SigsCount(stack)' = sigs
      BY <2>1 DEF KeysCount, SigsCount
    <3> HIDE DEF keys, sigs
    <3>2. /\ multi'.sigs = sigs /\ multi'.keys = keys /\ multi'.ok = TRUE
          /\ multi'.ikey = 2 /\ multi'.isig = keys + 3
      BY <2>1
    <3>3. sigs \in 0..MaxKeys
      BY <2>2, <2>3, <2>4, ScriptAssumption
    <3>4. phase' # "done"
      BY <1>1, <2>1 DEF Fetch
    <3>5. /\ keys + 3 + sigs = keys + sigs + 3 /\ keys + sigs + 3 \in 0..Len(stack)
          /\ keys + 2 <= Len(stack)
      BY <2>2, <2>3, <2>4
    <3>6. keys + 3 \in Nat /\ 1 <= keys + 3 /\ keys \in Int /\ 2 + keys = keys + 2
      BY <2>2
    <3> QED  BY <2>1, <2>2, <2>4, <3>1, <3>2, <3>3, <3>4, <3>5, <3>6 DEF MultiInv
  <2>6. nOpCount' \in Nat /\ LimitsHold'
    <3> HIDE DEF keys, sigs
    <3>1. nOpCount \in Nat
      BY DEF Inv
    <3> QED  BY <2>1, <2>2, <2>4, <3>1 DEF Inv, LimitsHold
  <2> QED  BY <2>1, <2>5, <2>6 DEF Inv, Kept, ReadInRange
<1> QED  BY <1>2, <1>3

LEMMA MultiSigTryKeeps ==
  ASSUME Inv, MultiSigTry
  PROVE  Kept
<1> USE StackFacts
<1> DEFINE key == Top(stack, multi.ikey)
           sig == Top(stack, multi.isig)
           hit == IF SigVerifies(key, sig) THEN 1 ELSE 0
<1>1. MultiInv /\ multi # NoMulti /\ multi.sigs > 0
  BY DEF MultiSigTry, Inv
<1>2. ~(Len(stack) < multi.isig)
  BY <1>1 DEF MultiInv
<1>3. multi.ok => ~(Len(stack) < multi.ikey)
  <2>1. /\ multi.sigs \in Nat /\ multi.keys \in Int /\ multi.ikey \in Nat
        /\ KeysCount(stack) \in Nat /\ KeysCount(stack) + 2 <= Len(stack)
        /\ multi.ikey + multi.keys = KeysCount(stack) + 2
        /\ multi.ok => multi.sigs <= multi.keys
    BY <1>1, ScriptAssumption DEF MultiInv
  <2> QED  BY <1>1, <2>1
<1>4. CASE Len(stack) < multi.ikey
  BY <1>1, <1>3, <1>4, EndKeeps DEF MultiSigTry, Take, Verdicts
<1>5. CASE ~(Len(stack) < multi.ikey) /\ (~IsKey(key) \/ ~IsSig(sig))
  BY <1>2, <1>5, ReturnKeeps DEF MultiSigTry, Take
<1>6. CASE ~(Len(stack) < multi.ikey) /\ IsKey(key) /\ IsSig(sig)
  <2>1. /\ multi' = [ikey |-> multi.ikey + 1, isig |-> multi.isig + hit,
                     keys |-> multi.keys - 1, sigs |-> multi.sigs - hit,
                     ok |-> multi.ok /\ multi.sigs - hit <= multi.keys - 1]
        /\ UNCHANGED <<family, phase, stack, altstack, vfExec, nOpCount, idx, sta,
                       verdict, branch>>
    BY <1>2, <1>6 DEF MultiSigTry, Take
  <2>2. hit \in 0..1
    OBVIOUS
  <2> HIDE DEF hit
  <2>3. MultiInv'
    <3>1. KeysCount(stack)' = KeysCount(stack) /\ SigsCount(stack)' = SigsCount(stack)
      BY <2>1 DEF KeysCount, SigsCount
    <3>2. /\ multi'.sigs = multi.sigs - hit /\ multi'.keys = multi.keys - 1
          /\ multi'.ikey = multi.ikey + 1 /\ multi'.isig = multi.isig + hit
          /\ multi'.ok \in BOOLEAN
          /\ multi'.ok => multi.sigs - hit <= multi.keys - 1
      BY <1>1, <2>1 DEF MultiInv
    <3>3. /\ multi.ikey \in Nat /\ multi.isig \in Nat /\ 1 <= multi.isig
          /\ multi.sigs \in Nat /\ multi.sigs > 0 /\ multi.sigs <= MaxKeys
          /\ multi.keys \in Int
      BY <1>1, ScriptAssumption DEF MultiInv
    <3>4. multi'.sigs \in 0..MaxKeys /\ multi'.keys \in Int
      <4>1. \A s, k, h : s \in Nat /\ s > 0 /\ s <= MaxKeys /\ k \in Int /\ h \in 0..1
                         => s - h \in 0..MaxKeys /\ k - 1 \in Int
        BY ScriptAssumption
      <4> QED  BY <2>2, <3>2, <3>3, <4>1, Zenon
    <3>5. /\ multi'.ikey \in Nat /\ 1 <= multi'.ikey
          /\ multi'.isig \in Nat /\ 1 <= multi'.isig
          /\ multi'.isig + multi'.sigs = multi.isig + multi.sigs
          /\ multi'.ikey + multi'.keys = multi.ikey + multi.keys
      <4>1. /\ multi.ikey + 1 \in Nat /\ 1 <= multi.ikey + 1
            /\ multi.isig + hit \in Nat /\ 1 <= multi.isig + hit
            /\ multi.isig + hit + (multi.sigs - hit) = multi.isig + multi.sigs
            /\ multi.ikey + 1 + (multi.keys - 1) = multi.ikey + multi.keys
        <5>1. \A i, j, s, k, h :
                 /\ i \in Nat /\ j \in Nat /\ 1 <= j /\ s \in Nat /\ k \in Int /\ h \in 0..1
                 => /\ i + 1 \in Nat /\ 1 <= i + 1 /\ j + h \in Nat /\ 1 <= j + h
                    /\ j + h + (s - h) = j + s /\ i + 1 + (k - 1) = i + k
          OBVIOUS
        <5> QED  BY <2>2, <3>3, <5>1, SMTT(40)
      <4> QED  BY <3>2, <4>1, Zenon
    <3>6. multi'.ok => multi'.sigs <= multi'.keys
      BY <3>2, Zenon
    <3> QED  BY <1>1, <2>1, <3>1, <3>2, <3>4, <3>5, <3>6 DEF MultiInv
  <2>4. LimitsHold'
    BY <2>1 DEF Inv, LimitsHold
  <2> QED  BY <2>1, <2>3, <2>4 DEF Inv, Kept, ReadInRange
<1> QED  BY <1>4, <1>5, <1>6

LEMMA MultiSigEndKeeps ==
  ASSUME Inv, MultiSigEnd
  PROVE  Kept
<1> USE StackFacts
<1> DEFINE n == KeysCount(stack) + SigsCount(stack) + 3
<1>1. multi # NoMulti /\ Take(n, Return(multi.ok, Below(stack, n)))
  BY DEF MultiSigEnd
<1>2. n \in 0..Len(stack) /\ multi.ok \in BOOLEAN
  BY <1>1 DEF Inv, MultiInv
<1>3. phase # "done"
  BY <1>1 DEF Inv, MultiInv
<1> HIDE DEF n
<1>4. Return(multi.ok, Below(stack, n))
  BY <1>1, <1>2 DEF Take
<1>5. Good(Below(stack, n)) /\ Len(Below(stack, n)) <= MaxStack
  <2>1. Good(Below(stack, n)) /\ Len(Below(stack, n)) = Len(stack) - n
    BY <1>2, GoodBelow
  <2> QED  BY <1>2, <2>1, ScriptAssumption
<1> QED  BY <1>2, <1>3, <1>4, <1>5, ReturnKeeps
-----------------------------------------------------------------------------
LEMMA NextKeeps ==
  Inv /\ [Next]_vars => Kept
<1> SUFFICES ASSUME Inv, [Next]_vars PROVE Kept
  OBVIOUS
<1>1. CASE PushData \/ TornPush \/ Constant \/ NoOperation \/ Refused \/ NoCase
  BY <1>1, PushKeeps
<1>2. CASE If \/ Else \/ EndIf
  BY <1>2, ConditionKeeps
<1>3. CASE StackOp
  BY <1>3, StackOpsKeep
<1>4. CASE Verify \/ ToAltStack \/ FromAltStack \/ CodeSeparator
  BY <1>4, StacksKeep
<1>5. CASE EqualVerify \/ CheckSig \/ EndOfScript
  BY <1>5, LeavingKeeps
<1>6. CASE MultiSigBegin
  BY <1>6, MultiSigBeginKeeps
<1>7. CASE MultiSigTry
  BY <1>7, MultiSigTryKeeps
<1>8. CASE MultiSigEnd
  BY <1>8, MultiSigEndKeeps
<1>9. CASE UNCHANGED vars
  BY <1>9 DEF vars, Inv, MultiInv, LimitsHold, KeysCount, SigsCount, Kept, ReadInRange
<1> QED
  BY <1>1, <1>2, <1>3, <1>4, <1>5, <1>6, <1>7, <1>8, <1>9 DEF Next

-----------------------------------------------------------------------------
(* OP_CHECKMULTISIG matches greedily: what it has matched is an ordered    *)
(* match of the first signatures with some of the first keys, and no other *)
(* match of all of them is done with the next signature any earlier.       *)
Signing ==
  LET Key(i) == Top(stack, 1 + i)
      Sig(j) == Top(stack, KeysCount(stack) + 2 + j)
  IN  {p \in (1..KeysCount(stack)) \X (1..SigsCount(stack)) :
         IsKey(Key(p[1])) /\ IsSig(Sig(p[2])) /\ SigVerifies(Key(p[1]), Sig(p[2]))}

IsMatch(f, n, m, signing) ==
  /\ f \in [1..n -> 1..m]
  /\ \A i, j \in 1..n : i < j => f[i] < f[j]
  /\ \A j \in 1..n : <<f[j], j>> \in signing

(* sigs of n signatures and keys of m keys are left. *)
MatchInv(ok, sigs, keys, n, m, signing) ==
  /\ n - sigs \in Nat /\ m - keys \in Nat
  /\ ok => \E f : IsMatch(f, n - sigs, m - keys, signing)
  /\ \A g : IsMatch(g, n, m, signing) =>
       ok /\ (sigs > 0 => m - keys < g[n - sigs + 1])

MatchOK ==
  multi # NoMulti =>
    MatchInv(multi.ok, multi.sigs, multi.keys,
             SigsCount(stack), KeysCount(stack), Signing)

LEMMA MatchIs ==
  ASSUME KeysCount(stack) \in Nat, SigsCount(stack) \in Nat
  PROVE  OrderedMatch(stack) <=> \E f : IsMatch(f, SigsCount(stack), KeysCount(stack), Signing)
<1> DEFINE n == SigsCount(stack)
           m == KeysCount(stack)
           Good2(i, j) == /\ IsKey(Top(stack, 1 + i)) /\ IsSig(Top(stack, m + 2 + j))
                          /\ SigVerifies(Top(stack, 1 + i), Top(stack, m + 2 + j))
<1>1. OrderedMatch(stack) <=>
        \E f \in [1..n -> 1..m] : /\ \A i, j \in 1..n : i < j => f[i] < f[j]
                                 /\ \A j \in 1..n : Good2(f[j], j)
  BY Zenon DEF OrderedMatch
<1>2. \A i \in 1..m, j \in 1..n : <<i, j>> \in Signing <=> Good2(i, j)
  BY DEF Signing
<1> HIDE DEF n, m, Good2
<1>3. ASSUME NEW f \in [1..n -> 1..m]
      PROVE  (\A j \in 1..n : Good2(f[j], j)) <=> \A j \in 1..n : <<f[j], j>> \in Signing
  BY <1>2
<1> QED  BY <1>1, <1>3, Zenon DEF IsMatch, n, m

(* The keys of a match grow by at least one from signature to signature.   *)
LEMMA Spreads ==
  ASSUME NEW n \in Nat, NEW m \in Nat, NEW g \in [1..n -> 1..m],
         \A i, j \in 1..n : i < j => g[i] < g[j],
         NEW a \in 1..n
  PROVE  n - a <= m - g[a]
<1> DEFINE R == {j \in a..n : g[j] < g[a] + (j - a)}
<1>1. R = {}
  <2> SUFFICES ASSUME R # {} PROVE FALSE
    OBVIOUS
  <2>1. R \in SUBSET Nat
    OBVIOUS
  <2>2. PICK d \in R : \A e \in R : ~(<<e, d>> \in OpToRel(<, Nat))
    <3> HIDE DEF R
    <3> QED  BY <2>1, NatLessThanWellFounded, WFMin, Zenon
  <2>3. \A e \in R : ~(e < d)
    BY <2>1, <2>2 DEF OpToRel
  <2>4. d \in a..n /\ g[d] < g[a] + (d - a) /\ g[a] \in Int /\ g[d] \in Int
    OBVIOUS
  <2>5. d # a
    BY <2>4
  <2>6. d - 1 \in a..n /\ d - 1 \in 1..n /\ d \in 1..n /\ d - 1 < d
    BY <2>4, <2>5
  <2>7. g[d - 1] < g[d] /\ g[d - 1] \in Int
    BY <2>6
  <2>8. ~(g[d - 1] < g[a] + (d - 1 - a))
    BY <2>3, <2>6
  <2> QED  BY <2>4, <2>6, <2>7, <2>8
<1>2. n \in a..n
  OBVIOUS
<1>3. ~(g[n] < g[a] + (n - a))
  BY <1>1, <1>2, Zenon
<1>4. g[n] \in 1..m /\ g[a] \in 1..m
  OBVIOUS
<1> QED  BY <1>3, <1>4

(* One turn of the loop. *)
LEMMA TurnMatches ==
  ASSUME NEW ok \in BOOLEAN, NEW sigs \in Nat \ {0}, NEW keys \in Int,
         NEW n \in Nat, NEW m \in Nat, NEW signing,
         MatchInv(ok, sigs, keys, n, m, signing), ok => sigs <= keys,
         NEW hit \in 0..1,
         keys > 0 => (hit = 1 <=> <<m - keys + 1, n - sigs + 1>> \in signing)
  PROVE  MatchInv(ok /\ sigs - hit <= keys - 1, sigs - hit, keys - 1, n, m, signing)
<1>1. PICK done, tried : done = n - sigs /\ tried = m - keys
  OBVIOUS
<1>2. /\ done \in Nat /\ tried \in Nat /\ sigs = n - done /\ keys = m - tried
      /\ n - (sigs - hit) = done + hit /\ m - (keys - 1) = tried + 1
      /\ done + 1 \in 1..n /\ n - sigs + 1 = done + 1 /\ m - keys + 1 = tried + 1
  BY <1>1 DEF MatchInv
<1>3. ASSUME ok PROVE \E f : IsMatch(f, done + hit, tried + 1, signing)
  <2>1. PICK f : IsMatch(f, done, tried, signing)
    BY <1>1, <1>3 DEF MatchInv
  <2>2. /\ f \in [1..done -> 1..tried]
        /\ \A i, j \in 1..done : i < j => f[i] < f[j]
        /\ \A j \in 1..done : <<f[j], j>> \in signing
    BY <2>1 DEF IsMatch
  <2>3. CASE hit = 0
    <3>1. f \in [1..(done + 0) -> 1..(tried + 1)] /\ done + 0 = done
      BY <1>2, <2>2
    <3> QED  BY <2>2, <2>3, <3>1 DEF IsMatch
  <2>4. CASE hit = 1
    <3> DEFINE g == [j \in 1..(done + 1) |-> IF j = done + 1 THEN tried + 1 ELSE f[j]]
    <3>1. /\ g[done + 1] = tried + 1
          /\ \A j \in 1..done : g[j] = f[j] /\ g[j] \in 1..tried
      BY <1>2, <2>2
    <3>2. \A j \in 1..(done + 1) : j \in 1..done \/ j = done + 1
      BY <1>2
    <3>3. g \in [1..(done + 1) -> 1..(tried + 1)]
      BY <1>2, <2>2
    <3>4. <<tried + 1, done + 1>> \in signing
      BY <1>2, <1>3, <2>4
    <3> HIDE DEF g
    <3>5. \A i, j \in 1..(done + 1) : i < j => g[i] < g[j]
      <4> SUFFICES ASSUME NEW i \in 1..(done + 1), NEW j \in 1..(done + 1), i < j
                   PROVE  g[i] < g[j]
        OBVIOUS
      <4>1. i \in 1..done
        BY <1>2
      <4>2. CASE j \in 1..done
        BY <2>2, <3>1, <4>1, <4>2
      <4>3. CASE j = done + 1
        <5>1. g[i] \in 1..tried /\ g[j] = tried + 1
          BY <3>1, <4>1, <4>3
        <5> QED  BY <1>2, <5>1
      <4> QED  BY <3>2, <4>2, <4>3
    <3>6. \A j \in 1..(done + 1) : <<g[j], j>> \in signing
      BY <2>2, <3>1, <3>2, <3>4
    <3> QED  BY <2>4, <3>3, <3>5, <3>6 DEF IsMatch
  <2> QED  BY <2>3, <2>4
<1>4. ASSUME NEW g, IsMatch(g, n, m, signing)
      PROVE  /\ ok /\ sigs - hit <= keys - 1
             /\ sigs - hit > 0 => tried + 1 < g[done + hit + 1]
  <2>1. ok /\ tried < g[done + 1]
    BY <1>1, <1>4 DEF MatchInv
  <2>2. /\ g \in [1..n -> 1..m]
        /\ \A i, j \in 1..n : i < j => g[i] < g[j]
        /\ \A j \in 1..n : <<g[j], j>> \in signing
    BY <1>4 DEF IsMatch
  <2>3. g[done + 1] \in 1..m /\ n - (done + 1) <= m - g[done + 1]
    BY <1>2, <2>2, Spreads
  <2>4. CASE hit = 1
    <3>1. sigs - 1 <= keys - 1
      BY <1>2, <2>1, <2>3
    <3>2. ASSUME sigs - 1 > 0 PROVE tried + 1 < g[done + 2]
      <4>1. done + 2 \in 1..n /\ done + 1 < done + 2
        BY <1>2, <3>2
      <4>2. g[done + 1] < g[done + 2] /\ g[done + 2] \in 1..m
        BY <1>2, <2>2, <4>1
      <4> QED  BY <1>2, <2>1, <2>3, <4>2
    <3>3. done + 1 + 1 = done + 2
      BY <1>2
    <3> QED  BY <2>1, <2>4, <3>1, <3>2, <3>3
  <2>5. CASE hit = 0
    <3>1. <<g[done + 1], done + 1>> \in signing
      BY <1>2, <2>2
    <3>2. g[done + 1] # tried + 1
      BY <1>2, <2>1, <2>5, <3>1
    <3>3. tried + 1 < g[done + 1]
      BY <1>2, <2>1, <2>3, <3>2
    <3>4. sigs - 0 <= keys - 1 /\ done + 0 + 1 = done + 1
      BY <1>2, <2>3, <3>3
    <3> QED  BY <2>1, <2>5, <3>3, <3>4
  <2> QED  BY <2>4, <2>5
<1> QED  BY <1>2, <1>3, <1>4 DEF MatchInv

(* What the invariants say of the arguments in the middle of the loop.     *)
LEMMA LoopFacts ==
  ASSUME Inv, MatchOK, multi # NoMulti
  PROVE  /\ SigsCount(stack) \in Nat /\ KeysCount(stack) \in Nat
         /\ multi.sigs \in Nat /\ multi.keys \in Int /\ multi.ok \in BOOLEAN
         /\ multi.ok => multi.sigs <= multi.keys
         /\ multi.isig = KeysCount(stack) + 2 + (SigsCount(stack) - multi.sigs + 1)
         /\ multi.ikey = 1 + (KeysCount(stack) - multi.keys + 1)
         /\ SigsCount(stack) - multi.sigs \in Nat /\ KeysCount(stack) - multi.keys \in Nat
         /\ KeysCount(stack) + SigsCount(stack) + 3 <= Len(stack)
         /\ MatchInv(multi.ok, multi.sigs, multi.keys,
                     SigsCount(stack), KeysCount(stack), Signing)
<1> USE StackFacts
<1> DEFINE n == SigsCount(stack)
           m == KeysCount(stack)
<1>1. MultiInv
  BY DEF Inv
<1>2. MatchInv(multi.ok, multi.sigs, multi.keys, n, m, Signing)
  BY DEF MatchOK
<1>3. m \in Nat /\ m + 2 \in 1..Len(stack)
  BY <1>1 DEF MultiInv
<1>4. n \in Nat
  BY <1>3, GoodStack DEF SigsCount
<1>5. /\ multi.sigs \in 0..MaxKeys /\ multi.keys \in Int
      /\ multi.isig \in Nat /\ multi.ikey \in Nat
      /\ multi.isig + multi.sigs = m + n + 3
      /\ multi.ikey + multi.keys = m + 2
      /\ m + n + 3 <= Len(stack)
  BY <1>1 DEF MultiInv
<1>6. multi.ok \in BOOLEAN /\ (multi.ok => multi.sigs <= multi.keys)
  BY <1>1, Zenon DEF MultiInv
<1>7. n - multi.sigs \in Nat /\ m - multi.keys \in Nat
  BY <1>2 DEF MatchInv
<1> HIDE DEF n, m
<1>8. /\ multi.sigs \in Nat
      /\ multi.isig = m + 2 + (n - multi.sigs + 1)
      /\ multi.ikey = 1 + (m - multi.keys + 1)
  <2>1. \A s, k, is, ik : /\ s \in Int /\ k \in Int /\ is \in Int /\ ik \in Int
                          /\ is + s = m + n + 3 /\ ik + k = m + 2
                          => is = m + 2 + (n - s + 1) /\ ik = 1 + (m - k + 1)
    BY <1>3, <1>4
  <2>2. multi.sigs \in Nat
    BY <1>5, ScriptAssumption
  <2> QED  BY <1>5, <2>1, <2>2
<1> QED  BY <1>2, <1>3, <1>4, <1>5, <1>6, <1>7, <1>8 DEF n, m

LEMMA BeginMatches ==
  ASSUME Inv, MultiSigBegin, multi' # NoMulti
  PROVE  MatchOK'
<1> USE StackFacts
<1> DEFINE n == SigsCount(stack)
           m == KeysCount(stack)
<1>1. fExec /\ ~(Len(stack) < 1) /\ ~MultiSigRefused
  BY NeedsFacts DEF MultiSigBegin, Operate, Fetch, Continue, Advance, Return, End, LeaveEval
<1>2. /\ multi' = [ikey |-> 2, isig |-> m + 3, keys |-> m, sigs |-> n, ok |-> TRUE]
      /\ stack' = stack
  BY <1>1, NeedsFacts DEF MultiSigBegin, Operate
<1>3. m \in Nat
  <2>1. 1 \in 1..Len(stack)
    BY <1>1
  <2> QED  BY <2>1, GoodStack DEF KeysCount
<1>4. n \in Nat
  <2>1. m + 2 \in 1..Len(stack)
    BY <1>1, <1>3 DEF MultiSigRefused
  <2> QED  BY <2>1, GoodStack DEF SigsCount
<1>5. KeysCount(stack)' = m /\ SigsCount(stack)' = n
  BY <1>2 DEF KeysCount, SigsCount
<1>6. multi'.ok = TRUE /\ multi'.sigs = n /\ multi'.keys = m
  BY <1>2
<1> HIDE DEF n, m
<1>7. ASSUME NEW signing PROVE MatchInv(TRUE, n, m, n, m, signing)
  <2>1. n - n = 0 /\ m - m = 0 /\ 0 \in Nat /\ 0 + 1 = 1
    BY <1>3, <1>4
  <2>2. \E f : IsMatch(f, 0, 0, signing)
    <3> DEFINE f == [i \in 1..0 |-> 1]
    <3>1. f \in [1..0 -> 1..0] /\ \A i \in 1..0 : FALSE
      OBVIOUS
    <3> HIDE DEF f
    <3> QED  BY <3>1 DEF IsMatch
  <2>3. ASSUME NEW g, IsMatch(g, n, m, signing), n > 0 PROVE 0 < g[1]
    BY <1>3, <1>4, <2>3 DEF IsMatch
  <2> QED  BY <2>1, <2>2, <2>3 DEF MatchInv
<1>8. PICK signing : signing = Signing'
  OBVIOUS
<1> QED  BY <1>5, <1>6, <1>7, <1>8, Zenon DEF MatchOK

(* A key is tried. *)
LEMMA TryMatches ==
  ASSUME Inv, MatchOK, MultiSigTry, multi' # NoMulti
  PROVE  MatchOK'
<1> USE StackFacts
<1> DEFINE n == SigsCount(stack)
           m == KeysCount(stack)
           key == Top(stack, multi.ikey)
           sig == Top(stack, multi.isig)
           hit == IF SigVerifies(key, sig) THEN 1 ELSE 0
<1>1. multi # NoMulti /\ multi.sigs > 0
  BY Zenon DEF MultiSigTry
<1>2. /\ multi' = [ikey |-> multi.ikey + 1, isig |-> multi.isig + hit,
                   keys |-> multi.keys - 1, sigs |-> multi.sigs - hit,
                   ok |-> multi.ok /\ multi.sigs - hit <= multi.keys - 1]
      /\ UNCHANGED <<phase, stack, sta>>
      /\ IsKey(key) /\ IsSig(sig)
  BY Zenon DEF MultiSigTry, Take, Return, End, LeaveEval
<1>3. /\ multi'.sigs = multi.sigs - hit /\ multi'.keys = multi.keys - 1
      /\ multi'.ok = (multi.ok /\ multi.sigs - hit <= multi.keys - 1)
  BY <1>2
<1>4. KeysCount(stack)' = m /\ SigsCount(stack)' = n /\ Signing' = Signing
  BY <1>2 DEF KeysCount, SigsCount, Signing, SigVerifies
<1>5. /\ n \in Nat /\ m \in Nat /\ multi.sigs \in Nat \ {0} /\ multi.keys \in Int
      /\ multi.ok \in BOOLEAN /\ (multi.ok => multi.sigs <= multi.keys)
      /\ multi.isig = m + 2 + (n - multi.sigs + 1)
      /\ multi.ikey = 1 + (m - multi.keys + 1)
      /\ n - multi.sigs \in Nat /\ m - multi.keys \in Nat
      /\ MatchInv(multi.ok, multi.sigs, multi.keys, n, m, Signing)
  BY <1>1, LoopFacts, SMTT(40)
<1>6. hit \in 0..1 /\ (hit = 1 <=> SigVerifies(key, sig))
  OBVIOUS
<1>7. ASSUME multi.keys > 0
      PROVE  hit = 1 <=> <<m - multi.keys + 1, n - multi.sigs + 1>> \in Signing
  <2> DEFINE i == m - multi.keys + 1
             j == n - multi.sigs + 1
  <2>1. i \in 1..m /\ j \in 1..n
    <3>1. \A s, k, x, y : /\ s \in Nat \ {0} /\ k \in Int /\ k > 0 /\ x \in Nat /\ y \in Nat
                          /\ y - s \in Nat /\ x - k \in Nat
                          => x - k + 1 \in 1..x /\ y - s + 1 \in 1..y
      OBVIOUS
    <3> HIDE DEF n, m
    <3> QED  BY <1>5, <1>7, <3>1
  <2>2. key = Top(stack, 1 + i) /\ sig = Top(stack, KeysCount(stack) + 2 + j)
    BY <1>5
  <2>3. SigVerifies(key, sig) <=> <<i, j>> \in Signing
    <3> HIDE DEF i, j, key, sig
    <3> QED  BY <1>2, <2>1, <2>2 DEF Signing
  <2> QED  BY <1>6, <2>3
<1> HIDE DEF hit, n, m, key, sig
<1>8. MatchInv(multi.ok /\ multi.sigs - hit <= multi.keys - 1,
               multi.sigs - hit, multi.keys - 1, n, m, Signing)
  <2>1. PICK s, k, ok, h : s = multi.sigs /\ k = multi.keys /\ ok = multi.ok /\ h = hit
    OBVIOUS
  <2>2. /\ ok \in BOOLEAN /\ s \in Nat \ {0} /\ k \in Int /\ h \in 0..1
        /\ MatchInv(ok, s, k, n, m, Signing) /\ (ok => s <= k)
        /\ k > 0 => (h = 1 <=> <<m - k + 1, n - s + 1>> \in Signing)
    BY <1>5, <1>6, <1>7, <2>1, Zenon
  <2>3. MatchInv(ok /\ s - h <= k - 1, s - h, k - 1, n, m, Signing)
    BY <1>5, <2>2, TurnMatches
  <2> QED  BY <2>1, <2>3, Zenon
<1> QED  BY <1>3, <1>4, <1>8, Zenon DEF MatchOK

(* Outside of the loop only the opcode begins it.                          *)
LEMMA OutsideLoop ==
  ASSUME Next, multi' # NoMulti, multi = NoMulti
  PROVE  MultiSigBegin
<1>1. \A v : End(v) => multi' = NoMulti
  BY Zenon DEF End, LeaveEval
<1>2. \A ok, st : Return(ok, st) => multi' = NoMulti
  BY <1>1, Zenon DEF Return, LeaveEval
<1>3. \A op, st, alt, vf, br, sep : Advance(op, st, alt, vf, br, sep) => multi' = NoMulti
  BY <1>2, Zenon DEF Advance
<1>4. \A op, st : Continue(op, st) => multi' = NoMulti
  BY <1>3, Zenon DEF Continue
<1>5. ~(PushData \/ TornPush \/ Constant \/ NoOperation \/ Refused \/ NoCase)
  BY <1>1, <1>2, <1>4, Zenon
     DEF PushData, TornPush, Constant, NoOperation, Refused, NoCase, Operate
<1>6. ~(If \/ Else \/ EndIf)
  BY <1>1, <1>2, <1>3, Zenon DEF If, Else, EndIf
<1>7. ~(StackOp \/ Verify \/ ToAltStack \/ FromAltStack \/ CodeSeparator)
  BY <1>1, <1>2, <1>3, <1>4, Zenon
     DEF StackOp, Verify, ToAltStack, FromAltStack, CodeSeparator, Operate, Take
<1>8. ~(EqualVerify \/ CheckSig \/ MultiSigTry \/ MultiSigEnd \/ EndOfScript)
  BY <1>1, <1>2, <1>4, Zenon
     DEF EqualVerify, CheckSig, MultiSigTry, MultiSigEnd, EndOfScript, Operate, Take
<1> QED  BY <1>5, <1>6, <1>7, <1>8, Zenon DEF Next

(* In the loop no opcode is read. *)
LEMMA InsideLoop ==
  ASSUME Next, multi # NoMulti
  PROVE  MultiSigTry \/ MultiSigEnd
<1>1. \A op : ~Fetch(op)
  BY Zenon DEF Fetch
<1>2. ~(PushData \/ TornPush \/ Constant \/ NoOperation \/ Refused \/ NoCase)
  BY <1>1, Zenon DEF PushData, TornPush, Constant, NoOperation, Refused, NoCase, Operate
<1>3. ~(If \/ Else \/ EndIf)
  BY <1>1, Zenon DEF If, Else, EndIf
<1>4. ~(StackOp \/ Verify \/ ToAltStack \/ FromAltStack \/ CodeSeparator)
  BY <1>1, Zenon DEF StackOp, Verify, ToAltStack, FromAltStack, CodeSeparator, Operate
<1>5. ~(EqualVerify \/ CheckSig \/ MultiSigBegin \/ EndOfScript)
  BY <1>1, Zenon DEF EqualVerify, CheckSig, MultiSigBegin, EndOfScript, Operate
<1> QED  BY <1>2, <1>3, <1>4, <1>5, Zenon DEF Next

LEMMA MatchKept ==
  Inv /\ MatchOK /\ [Next]_vars => MatchOK'
<1> SUFFICES ASSUME Inv, MatchOK, [Next]_vars, multi' # NoMulti PROVE MatchOK'
  BY Zenon DEF MatchOK
<1>1. CASE UNCHANGED vars
  BY <1>1 DEF vars, MatchOK, MatchInv, Signing, KeysCount, SigsCount, SigVerifies
<1>2. CASE Next /\ multi = NoMulti
  BY <1>2, OutsideLoop, BeginMatches
<1>3. CASE Next /\ multi # NoMulti
  <2>1. ~MultiSigEnd
    BY Zenon DEF MultiSigEnd, Take, Return, End, LeaveEval
  <2> QED  BY <1>3, <2>1, InsideLoop, TryMatches
<1> QED  BY <1>1, <1>2, <1>3

(* A try that ends the loop fails, and not on well-formed arguments that   *)
(* match.                                                                  *)
LEMMA TryGivesUp ==
  ASSUME Inv, MatchOK, MultiSigTry, multi' = NoMulti
  PROVE  ~Passed /\ ~(OrderedMatch(stack) /\ WellFormed(stack))
<1> DEFINE n == SigsCount(stack)
           m == KeysCount(stack)
           key == Top(stack, multi.ikey)
           sig == Top(stack, multi.isig)
<1>1. multi # NoMulti /\ multi.sigs > 0 /\ phase # "done"
  BY Zenon DEF MultiSigTry, Inv, MultiInv
<1>2. \/ Len(stack) < multi.ikey /\ End("underflow")
      \/ ~(Len(stack) < multi.ikey) /\ ~IsKey(key) /\ End("false")
      \/ Len(stack) < multi.isig /\ End("underflow")
      \/ ~(Len(stack) < multi.isig) /\ ~IsSig(sig) /\ End("false")
  <2>1. multi' # [ikey |-> multi.ikey + 1,
                  isig |-> multi.isig + (IF SigVerifies(key, sig) THEN 1 ELSE 0),
                  keys |-> multi.keys - 1,
                  sigs |-> multi.sigs - (IF SigVerifies(key, sig) THEN 1 ELSE 0),
                  ok |-> multi.ok /\ multi.sigs - (IF SigVerifies(key, sig) THEN 1 ELSE 0)
                                       <= multi.keys - 1]
    BY DEF NoMulti
  <2> HIDE DEF key, sig
  <2> QED  BY <2>1, Zenon DEF MultiSigTry, Take, Return, key, sig
<1>3. ~Passed
  BY <1>1, <1>2 DEF End, Passed, Inv
<1>4. ASSUME OrderedMatch(stack), WellFormed(stack) PROVE FALSE
  <2>1. /\ n \in Nat /\ m \in Nat /\ multi.sigs \in Nat /\ multi.keys \in Int
        /\ multi.ok => multi.sigs <= multi.keys
        /\ multi.isig = m + 2 + (n - multi.sigs + 1)
        /\ multi.ikey = 1 + (m - multi.keys + 1)
        /\ n - multi.sigs \in Nat /\ m - multi.keys \in Nat
        /\ m + n + 3 <= Len(stack) /\ Len(stack) \in Nat
        /\ MatchInv(multi.ok, multi.sigs, multi.keys, n, m, Signing)
    BY <1>1, LoopFacts, StackFacts
  <2>2. multi.ok
    BY <1>4, <2>1, MatchIs, Zenon DEF MatchInv
  <2>3. /\ \A i \in 1..m : IsKey(Top(stack, 1 + i))
        /\ \A j \in 1..n : IsSig(Top(stack, m + 2 + j))
    BY <1>4, Zenon DEF WellFormed
  <2>4. IsKey(key) /\ IsSig(sig) /\ multi.ikey <= Len(stack) /\ multi.isig <= Len(stack)
    <3> DEFINE i == m - multi.keys + 1
               j == n - multi.sigs + 1
    <3> HIDE DEF n, m
    <3>1. i \in 1..m /\ j \in 1..n
      <4>1. \A s, k, x, y : /\ s \in Nat /\ s > 0 /\ s <= k /\ k \in Int /\ x \in Nat
                            /\ y \in Nat /\ y - s \in Nat /\ x - k \in Nat
                            => x - k + 1 \in 1..x /\ y - s + 1 \in 1..y
        OBVIOUS
      <4> QED  BY <1>1, <2>1, <2>2, <4>1
    <3>2. IsKey(Top(stack, 1 + i)) /\ IsSig(Top(stack, m + 2 + j))
      BY <2>3, <3>1, Zenon
    <3>3. multi.ikey = 1 + i /\ multi.isig = m + 2 + j
      BY <2>1
    <3> HIDE DEF i, j
    <3>4. 1 + i <= Len(stack) /\ m + 2 + j <= Len(stack)
      BY <2>1, <3>1, SMTT(40)
    <3> QED  BY <3>2, <3>3, <3>4
  <2>5. ~(Len(stack) < multi.ikey) /\ ~(Len(stack) < multi.isig)
    <3>1. \A a, b \in Nat : a <= b => ~(b < a)
      OBVIOUS
    <3>2. multi.ikey \in Nat /\ multi.isig \in Nat
      BY <1>1 DEF Inv, MultiInv
    <3> QED  BY <2>1, <2>4, <3>1, <3>2, Zenon
  <2> QED  BY <1>2, <2>4, <2>5, Zenon
<1> QED  BY <1>3, <1>4

(* The end of the loop passes exactly the match it found.                  *)
LEMMA EndTellsMatch ==
  ASSUME Inv, MatchOK, MultiSigEnd
  PROVE  Passed <=> OrderedMatch(stack)
<1> DEFINE n == SigsCount(stack)
           m == KeysCount(stack)
           last == m + n + 3
<1>1. /\ multi # NoMulti /\ multi.sigs = 0
      /\ Take(last, Return(multi.ok, Below(stack, last)))
  BY Zenon DEF MultiSigEnd
<1>2. /\ n \in Nat /\ m \in Nat /\ multi.keys \in Int /\ multi.ok \in BOOLEAN
      /\ multi.ok => 0 <= multi.keys
      /\ last <= Len(stack) /\ Len(stack) \in Nat
      /\ m - multi.keys \in Nat
      /\ MatchInv(multi.ok, 0, multi.keys, n, m, Signing)
  BY <1>1, LoopFacts, StackFacts
<1>3. Return(multi.ok, Below(stack, last))
  BY <1>1, <1>2 DEF Take
<1>4. phase \in {"sig", "pk"}
  BY <1>1 DEF Inv, MultiInv
<1>5. Passed <=> multi.ok
  BY <1>2, <1>3, <1>4 DEF Return, End, Passed, Inv
<1>6. OrderedMatch(stack) <=> \E f : IsMatch(f, n, m, Signing)
  BY <1>2, MatchIs
<1> HIDE DEF n, m
<1>7. ASSUME multi.ok PROVE \E f : IsMatch(f, n, m, Signing)
  <2>1. PICK f : IsMatch(f, n, m - multi.keys, Signing)
    <3>1. n - 0 = n
      BY <1>2
    <3> QED  BY <1>2, <1>7, <3>1 DEF MatchInv
  <2>2. f \in [1..n -> 1..m]
    <3>1. 1..(m - multi.keys) \subseteq 1..m
      BY <1>2, <1>7
    <3> QED  BY <2>1, <3>1 DEF IsMatch
  <2> QED  BY <2>1, <2>2 DEF IsMatch
<1>8. (\E f : IsMatch(f, n, m, Signing)) => multi.ok
  BY <1>2, Zenon DEF MatchInv
<1> QED  BY <1>5, <1>6, <1>7, <1>8, Zenon

-----------------------------------------------------------------------------
(* The invariant holds of every run. *)
THEOREM ScriptInvariant == Spec => []Inv
<1>1. Init => Inv
  BY InitInv
<1>2. Inv /\ [Next]_vars => Inv'
  BY NextKeeps DEF Kept
<1> QED  BY <1>1, <1>2, PTL DEF Spec

(* Whatever the two scripts are, each variable of evalScript has its type  *)
(* and the evaluation is over exactly when there is a verdict.             *)
THEOREM ScriptTypeCorrect == Spec => []TypeOK
<1>1. Inv => TypeOK
  <2> SUFFICES ASSUME Inv PROVE TypeOK
    OBVIOUS
  <2>1. \A s \in {stack, altstack, vfExec} : \A i \in 1..Len(s) : IsElement(s[i])
    BY GoodStack DEF Inv, Fine
  <2>2. \A i \in 1..Len(branch) : branch[i] \in BOOLEAN
    BY ElementOfSeq DEF Inv
  <2>3. multi # NoMulti => multi.sigs \in 0..MaxKeys /\ multi.keys \in Int
    BY DEF Inv, MultiInv
  <2> QED  BY <2>1, <2>2, <2>3 DEF Inv, TypeOK
<1> QED  BY <1>1, ScriptInvariant, PTL

(* However long and whatever the scripts are, no opcode reads or pops the  *)
(* data stack out of range before the verification has failed.             *)
THEOREM NeverUnderflows == Spec => NoUnderflow
<1>1. Inv /\ [Next]_vars => [ReadInRange]_vars
  BY NextKeeps DEF Kept
<1> QED  BY <1>1, ScriptInvariant, PTL DEF Spec, NoUnderflow

(* The limits on the opcodes counted and on the two stacks together hold   *)
(* at every opcode of both scripts.                                        *)
THEOREM LimitsAlwaysHold == Spec => []LimitsHold
<1>1. Inv => LimitsHold
  BY DEF Inv
<1> QED  BY <1>1, ScriptInvariant, PTL

(* OP_CHECKMULTISIG, which tries each key once, passes only signatures     *)
(* that some of the keys made in this order, and all of those unless an    *)
(* argument is malformed: for any number of keys and signatures.           *)
THEOREM MultiSigMatchesInOrder == Spec => MultiSigIsOrderedMatch
<1>1. Init => MatchOK
  BY DEF Init, MatchOK
<1>2. ASSUME Inv, MatchOK, [Next]_vars, multi # NoMulti, multi' = NoMulti
      PROVE  /\ Passed => OrderedMatch(stack)
             /\ OrderedMatch(stack) /\ WellFormed(stack) => Passed
  <2>1. Next
    BY <1>2, Zenon DEF vars
  <2>2. CASE MultiSigTry
    BY <1>2, <2>2, TryGivesUp
  <2>3. CASE MultiSigEnd
    BY <1>2, <2>3, EndTellsMatch
  <2> QED  BY <1>2, <2>1, <2>2, <2>3, InsideLoop
<1>3. Inv /\ MatchOK /\ [Next]_vars
      => [multi # NoMulti /\ multi' = NoMulti =>
            /\ Passed => OrderedMatch(stack)
            /\ OrderedMatch(stack) /\ WellFormed(stack) => Passed]_vars
  BY <1>2
<1> QED
  BY <1>1, <1>3, MatchKept, ScriptInvariant, PTL DEF Spec, MultiSigIsOrderedMatch
=============================================================================
