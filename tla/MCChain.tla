------------------------------ MODULE MCChain -------------------------------
(***************************************************************************)
(* A tree of blocks for TLC, with the transactions in them:                *)
(*                                                                         *)
(*   g - c1 - a2 - a3 - a4      a2: pay  a3: next  a4: forged, bad script  *)
(*          \ b2 - b3 - b4      b2: pay, next (an output of its own)       *)
(*               \ x3 - x4 - x5 x3: next again, a double spend             *)
(*          \ s2 - s3 - s4      s2: next without pay, and one more         *)
(*   g - e1 - e2               a fork below every unwind record;           *)
(*                             e2: the coinbase of e1 again                *)
(*                                                                         *)
(* When b2 is undone it leaves the output of its pay behind, and s2 passes *)
(* where a check on its branch alone would fail; e2 passes, and the outputs*)
(* of two transactions are one: the two ways for a ledger to go astray.    *)
(* x5 comes in the live run only.                                          *)
(***************************************************************************)
EXTENDS Chain

Out(t, n) == [tx |-> t, vout |-> n]

MCParent ==
  [a2 |-> "c1", a3 |-> "a2", a4 |-> "a3", b2 |-> "c1", b3 |-> "b2", b4 |-> "b3",
   x3 |-> "b2", x4 |-> "x3", x5 |-> "x4", c1 |-> "g", s2 |-> "c1", s3 |-> "s2", s4 |-> "s3",
   e1 |-> "g", e2 |-> "e1"]

MCCoinbase ==
  [a2 |-> "ca2", a3 |-> "ca3", a4 |-> "ca4", b2 |-> "cb2", b3 |-> "cb3", b4 |-> "cb4",
   x3 |-> "cx3", x4 |-> "cx4", x5 |-> "cx5", c1 |-> "cc1", s2 |-> "cs2", s3 |-> "cs3", s4 |-> "cs4",
   e1 |-> "ce1", e2 |-> "ce1"]

MCTxId == {"pay", "next", "forged", "greedy", "other"} \cup Range(MCCoinbase)
MCIns ==
  [t \in MCTxId |-> CASE t \in {"pay", "other"} -> <<Out("cc1", 0)>>
                      [] t = "next"   -> <<Out("pay", 0)>>
                      [] t = "forged" -> <<Out("pay", 1)>>
                      [] OTHER        -> <<>>]
MCOuts ==
  [t \in MCTxId |-> CASE t = "pay"    -> <<3, 2>>
                      [] t = "next"   -> <<3>>
                      [] t = "forged" -> <<2>>
                      [] t = "greedy" -> <<6>>        \* a coinbase above the reward
                      [] OTHER        -> <<5>>]
MCBadScript == {<<"forged", 1>>}

MCTxs ==
  [b \in {"g"} \cup DOMAIN MCParent |->
     CASE b = "g"  -> <<>>
       [] b = "a2" -> <<"ca2", "pay">>
       [] b = "a3" -> <<"ca3", "next">>
       [] b = "a4" -> <<"ca4", "forged">>
       [] b = "b2" -> <<"cb2", "pay", "next">>
       [] b = "s2" -> <<"cs2", "next", "other">>
       [] b = "x3" -> <<"cx3", "next">>
       [] OTHER    -> <<MCCoinbase[b]>>]

(* The parts of the tree the runs take. *)
Only(blocks) == [b \in blocks \ {"g"} |-> MCParent[b]]
TxsOf(blocks) == [b \in blocks |-> MCTxs[b]]

WideBlocks == ({"g"} \cup DOMAIN MCParent) \ {"x5"}
WideParent == Only(WideBlocks)
WideTxs    == TxsOf(WideBlocks)

ReorgBlocks == {"g", "c1", "a2", "a3", "b2", "b3", "b4", "x3", "x4", "x5"}
ReorgParent == Only(ReorgBlocks)

(* Blocks with nothing but a coinbase, x3 and b4 invalid: cheap to process *)
(* when TLC looks for the steps that are enabled.                          *)
CoinbaseTxs ==
  [b \in ReorgBlocks |-> IF b \in {"x3", "b4"} THEN <<"greedy">>
                        ELSE IF b = "g" THEN <<>> ELSE <<MCCoinbase[b]>>]

=============================================================================
