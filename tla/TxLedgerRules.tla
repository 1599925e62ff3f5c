--------------------------- MODULE TxLedgerRules ----------------------------
(***************************************************************************)
(* What a block means, stated without the bookkeeping of commitTxs, and    *)
(* one application of CommitTxs to a ledger to compare the two.            *)
(***************************************************************************)
EXTENDS TxCommit, UnspentOps, FiniteSetsExt

CONSTANTS
  StartLedgers,     \* the sets of unspent outputs to start from
  Blocks,           \* the blocks to apply, coinbase first
  Heights           \* the heights to apply them at

Real == UNION {TxOuts(t) : t \in TxId}

ASSUME LedgerAssumption ==
  /\ \A u \in StartLedgers : u \subseteq Real /\ IsFiniteSet(u)
  /\ Blocks \subseteq Seq(TxId) \ {<<>>}
  /\ Heights \subseteq Nat

VARIABLES utxo, block, trusted, height, res

lvars == <<utxo, block, trusted, height, res>>

NoResult == [err |-> "not run", e |-> NoError, added |-> {}, deleted |-> {}]

Init ==
  /\ utxo \in StartLedgers
  /\ block \in Blocks
  /\ trusted \in BOOLEAN
  /\ height \in Heights
  /\ res = NoResult

(* ProcessBlockTransactions, whose changes CommitBlockTxs applies later. *)
Process ==
  /\ res = NoResult
  /\ res' = CommitTxs(utxo, block, trusted, height)
  /\ UNCHANGED <<utxo, block, trusted, height>>

Next == Process
Spec == Init /\ [][Next]_lvars
-----------------------------------------------------------------------------
Accepted == res.err = NoError
Clean    == Accepted /\ res.e = NoError        \* accepted, and no input failed
After    == CommitChanges(utxo, res)

SumOver(f, set) == FoldFunctionOnSet(+, 0, f, set)

Spent(t)   == ToSet(Ins[t])
Worth(set) == SumOver([o \in set |-> Value(o)], set)
Reward     == GetBlockReward(height)

(* What the first i transactions of the block create and spend.            *)
Made(i)    == UNION {TxOuts(block[k]) : k \in 1..i}
SpentTo(i) == UNION {Spent(block[k]) : k \in 2..i}

(* The ledger before the i-th transaction of a block applied in order. *)
Before(i) == (utxo \cup Made(i - 1)) \ SpentTo(i - 1)

Fees(t) == Worth(Spent(t)) - Worth(TxOuts(t))

(* The rule of the ledger for a block: each transaction spends outputs     *)
(* that are unspent when its turn comes, each once, with scripts that      *)
(* pass, and does not create value; the coinbase takes the reward and fees.*)
ValidTx(i) ==
  LET t == block[i] IN
  /\ Spent(t) \subseteq Before(i)
  /\ IsInjective(Ins[t])
  /\ Fees(t) >= 0
  /\ trusted \/ \A j \in DOMAIN Ins[t] : <<t, j>> \notin BadScript

ValidInOrder ==
  /\ \A i \in 2..Len(block) : ValidTx(i)
  /\ Worth(TxOuts(block[1]))
       <= Reward + SumOver([i \in 2..Len(block) |-> Fees(block[i])], 2..Len(block))

(* The block takes no output of a transaction that comes later in it. *)
SpendsBackwards ==
  \A i \in 2..Len(block), k \in 1..Len(block) :
    (k >= i) => Spent(block[i]) \cap TxOuts(block[k]) = {}

(* All the money the block can move is less than Word: no sum of commitTxs *)
(* wraps around.  Nothing on the way to commitTxs sees to it.              *)
Created == SumOver([i \in 1..Len(block) |-> Worth(TxOuts(block[i]))], 1..Len(block))
NoWrap  == Reward + Worth(utxo) + Created < Word
-----------------------------------------------------------------------------
(* Properties                                                              *)

(* For a block that only spends what came before, commitTxs accepts it     *)
(* with no failed input exactly when the ledger's rule does, and its       *)
(* changes then are those of applying the transactions one by one; unless  *)
(* the amounts are so large that sums wrap around.                         *)
AgreesWithTheRule ==
  (res # NoResult /\ SpendsBackwards /\ NoWrap) =>
    /\ Clean <=> ValidInOrder
    /\ Clean => After = Before(Len(block) + 1)

(* A block creates no value beyond its reward, even one of which an input  *)
(* failed, as long as it spends no output of a later transaction, and as   *)
(* long as no sum wraps around.                                            *)
NoValueFromNothing ==
  (Accepted /\ NoWrap /\ (Clean \/ SpendsBackwards)) => Worth(After) <= Worth(utxo) + Reward

(* What UnspentStore takes for possible: what is deleted was there or was  *)
(* created by the block, which also created what is added; undo gives the  *)
(* ledger back, but for outputs that the block created.                    *)
UndoableUpToOwnOutputs ==
  Accepted =>
    LET own == UNION {TxOuts(t) : t \in Txs(block)} IN
    /\ res.deleted \subseteq utxo \cup own
    /\ res.added \subseteq own
    /\ UndoChanges(After, res) \ own = utxo \ own

(* What the comments say and the code does not do *)

(* chain_accept.go:254: a block of which an input failed goes no further.  *)
FailedInputRejectsBlock == Accepted => res.e = NoError
=============================================================================
