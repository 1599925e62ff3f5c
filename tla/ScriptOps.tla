------------------------------ MODULE ScriptOps ------------------------------
(***************************************************************************)
(* The elements of the script stack (stack.go) and what the opcodes that   *)
(* work on the data stack alone do to it (evalScript).                     *)
(*                                                                         *)
(* An element is a string of bytes of which the code looks at its length,  *)
(* at the integer that its first four bytes are, and at whether it is      *)
(* equal to another.  Keys, signatures and hashes carry what makes them    *)
(* different from other strings in further fields.                         *)
(***************************************************************************)
EXTENDS Integers, Sequences, FiniteSets

CONSTANTS
  Word,          \* 2^32, the values of a uint32
  WordLen,       \* 4, the bytes of one
  HashLen,       \* the length of a hash
  HashWord       \* the integer a hash is read as

ASSUME ScriptOpsAssumption ==
  /\ Word \in Nat \ {0, 1}
  /\ WordLen \in Nat \ {0, 1}
  /\ HashLen \in Nat \ {0}
  /\ HashWord \in 0..(Word - 1)

IsElement(d) == d.len \in Nat /\ d.val \in 0..(Word - 1)

Bytes(n, v) == [len |-> n, val |-> v]
Empty == Bytes(0, 0)

(* Wrong on purpose: the number is written as it is. *)
IntItemAsIs(v) == Bytes(WordLen, v)

(* pushInt writes the low 32 bits; what popInt reads back is never         *)
(* negative, as an int has 64 bits.                                        *)
IntItem(v) == Bytes(WordLen, v % Word)
Int32(d) == d.val

(* pushBool writes a zero for true. *)
BoolItem(v) == Bytes(1, IF v THEN 0 ELSE 1)

(* What OP_EQUAL pushes: a one for true. *)
EqualItem(v) == Bytes(1, IF v THEN 1 ELSE 0)

HashOf(op, d) ==
  [len |-> HashLen, val |-> HashWord, hash |-> op, of |-> d]

IsKey(d) == "key" \in DOMAIN d
IsSig(d) == "sig" \in DOMAIN d

Top(st, i) == st[Len(st) + 1 - i]
Below(st, n) == SubSeq(st, 1, Len(st) - n)
-----------------------------------------------------------------------------
(* Opcodes that only move elements: how many they take, and what they      *)
(* leave, as positions in what they took, the deepest being 1.             *)
Shuffle ==
  [OP_2DROP |-> [takes |-> 2, gives |-> <<>>],
   OP_2DUP  |-> [takes |-> 2, gives |-> <<1, 2, 1, 2>>],
   OP_3DUP  |-> [takes |-> 3, gives |-> <<1, 2, 3, 1, 2, 3>>],
   OP_2OVER |-> [takes |-> 4, gives |-> <<1, 2, 3, 4, 1, 2>>],
   OP_DROP  |-> [takes |-> 1, gives |-> <<>>],
   OP_DUP   |-> [takes |-> 1, gives |-> <<1, 1>>],
   OP_NIP   |-> [takes |-> 2, gives |-> <<2>>],
   OP_OVER  |-> [takes |-> 2, gives |-> <<1, 2, 1>>],
   OP_ROT   |-> [takes |-> 3, gives |-> <<2, 1, 3>>],
   OP_SWAP  |-> [takes |-> 2, gives |-> <<2, 1>>],
   OP_TUCK  |-> [takes |-> 2, gives |-> <<1, 2, 1>>]]

Unary   == {"OP_1SUB", "OP_NEGATE", "OP_ABS", "OP_NOT", "OP_0NOTEQUAL"}
Binary  == {"OP_ADD", "OP_SUB", "OP_NUMEQUAL", "OP_NUMNOTEQUAL", "OP_LESSTHAN",
            "OP_GREATERTHAN", "OP_LESSTHANOREQUAL", "OP_GREATERTHANOREQUAL",
            "OP_MIN", "OP_MAX"}
Logical == {"OP_BOOLAND", "OP_BOOLOR"}
Hashes  == {"OP_RIPEMD160", "OP_SHA256", "OP_HASH160", "OP_HASH256"}
Reading == {"OP_SIZE", "OP_DEPTH", "OP_IFDUP"}
Deep    == {"OP_PICK", "OP_ROLL"}

StackOps == (DOMAIN Shuffle) \union Unary \union Binary \union Logical
            \union Hashes \union Reading \union Deep
            \union {"OP_EQUAL", "OP_WITHIN"}

(* Wrong on purpose: every opcode has the guard of those with one operand. *)
NeedsOne(op) == IF op = "OP_DEPTH" THEN 0 ELSE 1

(* The size of the stack that an opcode asks for before it does anything. *)
Needs(op) ==
  CASE op = "OP_2OVER" -> 4
    [] op \in {"OP_3DUP", "OP_ROT", "OP_WITHIN"} -> 3
    [] op \in {"OP_2DROP", "OP_2DUP", "OP_NIP", "OP_OVER", "OP_SWAP",
               "OP_TUCK", "OP_EQUAL", "OP_EQUALVERIFY", "OP_NUMEQUALVERIFY",
               "OP_CHECKSIG"}
              \union Binary \union Logical \union Deep -> 2
    [] op = "OP_DEPTH" -> 0
    [] OTHER -> 1

UnaryValue(op, a) ==
  CASE op = "OP_1SUB"      -> IntItem(a - 1)
    [] op = "OP_NEGATE"    -> IntItem(-a)
    [] op = "OP_ABS"       -> IF a < 0 THEN IntItem(-a) ELSE IntItem(a)
    [] op = "OP_NOT"       -> BoolItem(a = 0)
    [] op = "OP_0NOTEQUAL" -> BoolItem(a # 0)

(* a is the element on top, which is popped first, and b the one below. *)
BinaryValue(op, a, b) ==
  CASE op = "OP_ADD"                -> IntItem(a + b)
    [] op = "OP_SUB"                -> IntItem(a - b)
    [] op = "OP_NUMEQUAL"           -> BoolItem(a = b)
    [] op = "OP_NUMNOTEQUAL"        -> BoolItem(a # b)
    [] op = "OP_LESSTHAN"           -> BoolItem(a < b)
    [] op = "OP_GREATERTHAN"        -> BoolItem(a > b)
    [] op = "OP_LESSTHANOREQUAL"    -> BoolItem(a <= b)
    [] op = "OP_GREATERTHANOREQUAL" -> BoolItem(a >= b)
    [] op = "OP_MIN"                -> IntItem(IF a < b THEN a ELSE b)
    [] op = "OP_MAX"                -> IntItem(IF a > b THEN a ELSE b)

(* Go stops at the operand that decides: the other one is not popped. *)
Decided(op, a) == IF op = "OP_BOOLAND" THEN a = 0 ELSE a # 0
LogicalValue(op, a, b) ==
  BoolItem(IF op = "OP_BOOLAND" THEN a # 0 /\ b # 0 ELSE a # 0 \/ b # 0)

(* How many elements an opcode takes from the stack st it is given, by pop *)
(* or by reading them; what is below them it never reaches.                *)
Operands(op, st) ==
  CASE op \in DOMAIN Shuffle -> Shuffle[op].takes
    [] op \in Binary \union {"OP_EQUAL"} -> 2
    [] op \in Logical -> IF Decided(op, Int32(Top(st, 1))) THEN 1 ELSE 2
    [] op = "OP_WITHIN" -> 3
    [] op = "OP_DEPTH" -> 0
    [] op \in Deep -> Int32(Top(st, 1)) + 2
    [] OTHER -> 1

(* The elements an opcode leaves in place of its operands. *)
Results(op, st) ==
  LET n    == Operands(op, st)
      x(i) == Top(st, n + 1 - i)              \* operand i, the deepest is 1
      a    == Int32(Top(st, 1))
      b    == Int32(Top(st, 2))
  IN  CASE op \in DOMAIN Shuffle ->
             LET gives == Shuffle[op].gives
             IN  [i \in 1..Len(gives) |-> x(gives[i])]
        [] op \in Unary   -> <<UnaryValue(op, a)>>
        [] op \in Binary  -> <<BinaryValue(op, a, b)>>
        [] op \in Logical ->
             <<IF n = 1 THEN LogicalValue(op, a, a) ELSE LogicalValue(op, a, b)>>
        [] op = "OP_WITHIN" ->
             <<BoolItem(a >= b /\ a < Int32(Top(st, 3)))>>
        [] op = "OP_EQUAL" -> <<EqualItem(Top(st, 1) = Top(st, 2))>>
        [] op \in Hashes  -> <<HashOf(op, Top(st, 1))>>
        [] op = "OP_SIZE" -> <<x(1), IntItem(x(1).len)>>
        [] op = "OP_DEPTH" -> <<IntItem(Len(st))>>
        [] op = "OP_IFDUP" -> IF a # 0 THEN <<x(1), IntItem(a)>> ELSE <<x(1)>>
        [] op = "OP_PICK" -> [i \in 1..n |-> IF i < n THEN x(i) ELSE x(1)]
        [] op = "OP_ROLL" -> [i \in 1..(n - 1) |-> IF i < n - 1 THEN x(i + 1) ELSE x(1)]

(* OP_PICK and OP_ROLL ask, once the number is popped, that it be smaller  *)
(* than what is left.                                                      *)
TooDeep(op, st) == op \in Deep /\ Int32(Top(st, 1)) >= Len(st) - 1
=============================================================================
