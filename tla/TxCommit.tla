------------------------------ MODULE TxCommit ------------------------------
(***************************************************************************)
(* commitTxs of core/chain_accept.go as a function of the block and the    *)
(* unspent outputs: whether the block is accepted, and which outputs it    *)
(* adds and deletes.                                                       *)
(*                                                                         *)
(* A transaction is an id with its inputs and the values of its outputs.   *)
(* Script checks are a relation; that their answers, which arrive through  *)
(* a channel in any order, amount to "all of them passed" is shown in      *)
(* ScriptPool.                                                             *)
(***************************************************************************)
EXTENDS Integers, Sequences, SequencesExt

CONSTANTS
  TxId,             \* the transactions there can be
  Ins,              \* TxId -> sequence of the outpoints it spends
  Outs,             \* TxId -> sequence of the values of its outputs
  BadScript,        \* pairs <<tx, j>>: the script of its j-th input fails
  Word,             \* sums are taken modulo Word, 2^64 in the code
  InitialReward,    \* 50e8
  HalvingInterval   \* 210000

Outpoints == [tx : TxId, vout : Nat]

ASSUME TxAssumption ==
  /\ Ins \in [TxId -> Seq(Outpoints)]
  /\ Outs \in [TxId -> Seq(Nat)]
  /\ BadScript \subseteq TxId \X (Nat \ {0})
  /\ Word \in Nat \ {0}
  /\ InitialReward \in Nat
  /\ HalvingInterval \in Nat \ {0}

NoError == ""     \* nil

TxOuts(t) == {[tx |-> t, vout |-> j - 1] : j \in DOMAIN Outs[t]}
Value(o)  == Outs[o.tx][o.vout + 1]
SumOuts(t) ==
  LET sum[j \in 0..Len(Outs[t])] == IF j = 0 THEN 0 ELSE (sum[j - 1] + Outs[t][j]) % Word
  IN  sum[Len(Outs[t])]

(* A shift to the right by the number of halvings. *)
GetBlockReward(height) ==
  LET reward[k \in 0..(height \div HalvingInterval)] ==
        IF k = 0 THEN InitialReward ELSE reward[k - 1] \div 2
  IN  reward[height \div HalvingInterval]

Txs(block) == ToSet(block)
-----------------------------------------------------------------------------
(* One input                                                               *)

(* Why the input fails, if it does.  pool are the outputs of the           *)
(* block's transactions, later ones included, that nobody took yet.        *)
InputError(s, utxo, block, o) ==
  IF o \in s.deleted             THEN "Input spent more then once in same block"
  ELSE IF o \in utxo \cup s.pool THEN NoError
  ELSE IF o.tx \notin Txs(block) THEN "Unknown input"
  ELSE IF o.vout >= Len(Outs[o.tx]) THEN "Vout too big"
  ELSE "Vout already spent"

(* The input is found and its script check is started.                     *)
TakeInput(s, utxo, trusted, t, j) ==
  LET o == Ins[t][j] IN
  [s EXCEPT !.deleted = @ \cup {o},
            !.pool    = IF o \in utxo THEN @ ELSE @ \ {o},
            !.txinsum = (@ + Value(o)) % Word,
            !.scripts = @ /\ (trusted \/ <<t, j>> \notin BadScript)]

(* Wrong on purpose: DeletedTxs is written before the input is found. *)
SpendInputEarly(s, utxo, block, trusted, t, j) ==
  LET err == InputError(s, utxo, block, Ins[t][j]) IN
  IF s.e # NoError THEN s
  ELSE IF err # NoError THEN [s EXCEPT !.e = err, !.deleted = @ \cup {Ins[t][j]}]
  ELSE TakeInput(s, utxo, trusted, t, j)

(* The first input that fails ends the loop over the inputs. *)
SpendInput(s, utxo, block, trusted, t, j) ==
  LET err == InputError(s, utxo, block, Ins[t][j]) IN
  IF s.e # NoError THEN s
  ELSE IF err # NoError THEN [s EXCEPT !.e = err]
  ELSE TakeInput(s, utxo, trusted, t, j)

SpendInputs(s, utxo, block, trusted, t) ==
  LET inputs[j \in 0..Len(Ins[t])] ==
        IF j = 0 THEN [s EXCEPT !.txinsum = 0]
                 ELSE SpendInput(inputs[j - 1], utxo, block, trusted, t, j)
  IN  inputs[Len(Ins[t])]
-----------------------------------------------------------------------------
(* One transaction                                                         *)

(* An output already spent earlier in the block is not even added.         *)
AddOutputs(s, t) ==
  [s EXCEPT !.added       = @ \cup (TxOuts(t) \ s.deleted),
            !.deleted     = @ \ TxOuts(t),
            !.sumblockin  = (@ + s.txinsum) % Word,
            !.sumblockout = (@ + SumOuts(t)) % Word]

(* Wrong on purpose: the value of a single transaction is not checked. *)
EndTxUnchecked(s, t, coinbase) == [s EXCEPT !.stop = s.e # NoError]

(* The checks at the end of a transaction's turn. err is returned at once; *)
(* e, an input that failed, only ends the loop.                            *)
EndTx(s, t, coinbase) ==
  [s EXCEPT !.err  = IF ~coinbase /\ SumOuts(t) > s.txinsum
                       THEN "More spent than at the input" ELSE NoError,
            !.stop = s.e # NoError]

CommitTx(s, utxo, block, trusted, i) ==
  LET t        == block[i]
      coinbase == i = 1
      spent    == IF coinbase THEN [s EXCEPT !.txinsum = 0]
                              ELSE SpendInputs(s, utxo, block, trusted, t)
  IN  IF s.err # NoError \/ s.stop THEN s
      ELSE IF ~spent.scripts  THEN [spent EXCEPT !.err = "VerifyScripts failed"]
      ELSE EndTx(AddOutputs(spent, t), t, coinbase)
-----------------------------------------------------------------------------
(* The whole block                                                         *)

StartBlock(block, height) ==
  [added |-> {}, deleted |-> {}, pool |-> UNION {TxOuts(t) : t \in Txs(block)},
   sumblockin |-> GetBlockReward(height) % Word, sumblockout |-> 0, txinsum |-> 0,
   scripts |-> TRUE, e |-> NoError, err |-> NoError, stop |-> FALSE]

(* Wrong on purpose: the sums of the block are not compared. *)
BlockErrorOfTxs(s) == s.err

(* The error commitTxs returns. *)
BlockError(s) ==
  IF s.err # NoError THEN s.err
  ELSE IF s.sumblockin < s.sumblockout THEN "Out > In" ELSE NoError

(* commitTxs: no err is acceptance; e is the failed input it forgot.       *)
CommitTxs(utxo, block, trusted, height) ==
  LET turn[i \in 0..Len(block)] ==
        IF i = 0 THEN StartBlock(block, height)
                 ELSE CommitTx(turn[i - 1], utxo, block, trusted, i)
      s == turn[Len(block)]
  IN  [err |-> BlockError(s), e |-> s.e, added |-> s.added, deleted |-> s.deleted]
=============================================================================
