------------------------------- MODULE Codec --------------------------------
(***************************************************************************)
(* The encodings of core/util.go and core/target.go: lengths of a variable *)
(* number of bytes, the root of the tree over a block's transactions, and  *)
(* the compact form of a target.                                           *)
(*                                                                         *)
(* A byte has the values 0..Byte-1 (256 in the code); the numbers the code *)
(* writes as 0xfd, 0xffff, 0x7fffffff or 0x00800000 are written as what    *)
(* they are in terms of it.  A hash is the tuple of what was hashed.       *)
(***************************************************************************)
EXTENDS Integers, Sequences, FiniteSets, SequencesExt, FiniteSetsExt

CONSTANTS
  Byte,
  Lengths,          \* lengths to encode
  TxLists           \* lists of transactions to take the root of

(* The values of k bytes, and what shifts by k bytes multiply with.        *)
Power[k \in Nat] == IF k = 0 THEN 1 ELSE Byte * Power[k - 1]

ASSUME CodecAssumption ==
  Byte \in Nat /\ Byte >= 6 /\ Byte % 2 = 0 /\ Lengths \subseteq 0..(Power[4] \div 2 - 1)
-----------------------------------------------------------------------------
(* Lengths                                                                 *)

xFD == Byte - 3
xFE == Byte - 2
Little(n, bytes) == [k \in 1..bytes |-> (n \div Power[k - 1]) % Byte]
Number(bytes)    ==
  LET res[k \in 0..Len(bytes)] == IF k = 0 THEN 0 ELSE res[k - 1] + bytes[k] * Power[k - 1]
  IN  res[Len(bytes)]

(* The two-byte case of the code writes its bytes and does not return.     *)
StoreVarLen(n) == IF n < xFD THEN <<n>> ELSE <<xFE>> \o Little(n, 4)

WriteVarLen(n) ==
  IF n < xFD            THEN <<n>>
  ELSE IF n < Power[2]  THEN <<xFD>> \o Little(n, 2)
  ELSE <<xFE>> \o Little(n, 4)

(* Wrong on purpose: two bytes whatever the first one says. *)
TwoBytes(first) == 2

(* How many bytes follow the first one. *)
FollowingBytes(first) == CASE first = xFD -> 2 [] first = xFE -> 4 [] OTHER -> 8

ReadVarLen(bytes) ==
  IF bytes[1] < xFD THEN bytes[1]
  ELSE Number(SubSeq(bytes, 2, 1 + FollowingBytes(bytes[1])))

(* A length above 0x7fffffff would panic. *)
LoadVarLen(bytes) ==
  [len  |-> ReadVarLen(bytes),
   size |-> IF bytes[1] < xFD THEN 1 ELSE 1 + FollowingBytes(bytes[1])]
-----------------------------------------------------------------------------
(* getMerkel                                                               *)

(* Wrong on purpose: the last but one node of a level is paired with the   *)
(* last one only if something follows.                                     *)
PartnerBefore(i, siz) == IF i + 1 < siz - 1 THEN i + 1 ELSE i

(* The node that node i of a level of siz is hashed with, from 0. *)
Partner(i, siz) == IF i + 1 < siz - 1 THEN i + 1 ELSE siz - 1

LevelAbove(level) ==
  LET siz == Len(level) IN
  [k \in 1..((siz + 1) \div 2) |->
     <<level[2 * k - 1], level[Partner(2 * k - 2, siz) + 1]>>]

getMerkel(txs) ==
  LET level[k \in 0..Len(txs)] ==
        IF k = 0 THEN [i \in DOMAIN txs |-> <<txs[i]>>]
        ELSE IF Len(level[k - 1]) = 1 THEN level[k - 1] ELSE LevelAbove(level[k - 1])
  IN  level[Len(txs)][1]
-----------------------------------------------------------------------------
(* The compact form: the number of bytes and the first three of them, the  *)
(* highest bit of which is the sign.                                       *)

nSize(bits)  == bits \div Power[3]
SignBit      == Power[3] \div 2
Negative(bits) == bits % Power[3] >= SignBit

SetCompact(bits) ==
  LET nWord == bits % SignBit
      n == IF nSize(bits) <= 3 THEN nWord \div Power[3 - nSize(bits)]
                               ELSE nWord * Power[nSize(bits) - 3]
  IN  IF Negative(bits) THEN -n ELSE n

BytesOf(n) == CHOOSE k \in 0..n : n < Power[k] /\ \A j \in 0..(k - 1) : Power[j] <= n

(* A mantissa whose highest bit is set moves down by a byte. *)
Shifted(size, nCompact) ==
  IF nCompact >= SignBit THEN (nCompact \div Byte) + (size + 1) * Power[3]
                         ELSE nCompact + size * Power[3]

(* Of a number that is not negative; targets are not. *)
GetCompact(n) ==
  LET size == BytesOf(n) IN
  Shifted(size, IF size <= 3 THEN n * Power[3 - size] ELSE n \div Power[size - 3])
=============================================================================
