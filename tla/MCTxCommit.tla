----------------------------- MODULE MCTxCommit -----------------------------
(***************************************************************************)
(* Transactions for TLC: base is confirmed already; the others spend it    *)
(* and each other in the ways a block can get right or wrong.              *)
(***************************************************************************)
EXTENDS TxLedgerRules

Out(t, n) == [tx |-> t, vout |-> n]

MCTxId == {"cb", "base", "pay", "chain", "twice", "mixed", "wide", "forge", "gift", "tip",
           "lost", "huge"}

MCIns ==
  [t \in MCTxId |->
    CASE t = "pay"   -> <<Out("base", 0)>>                    \* honest
      [] t = "chain" -> <<Out("pay", 0), Out("base", 1)>>     \* spends pay
      [] t = "twice" -> <<Out("base", 1), Out("base", 1)>>    \* one output twice
      [] t = "mixed" -> <<Out("base", 1), Out("lost", 0)>>    \* one input unknown
      [] t = "wide"  -> <<Out("pay", 0), Out("pay", 2)>>      \* no such output
      [] t = "forge" -> <<Out("base", 0)>>                    \* more out than in
      [] t = "tip"   -> <<Out("base", 1)>>                    \* leaves a fee
      [] t = "huge"  -> <<Out("base", 1)>>                    \* a sum that wraps
      [] t = "gift"  -> <<Out("chain", 0), Out("pay", 1)>>    \* a bad script
      [] OTHER       -> <<>>]

MCOuts ==
  [t \in MCTxId |->
    CASE t = "cb"    -> <<5>>
      [] t = "base"  -> <<4, 2>>
      [] t = "pay"   -> <<3, 1>>
      [] t = "chain" -> <<4>>
      [] t = "twice" -> <<2>>
      [] t = "mixed" -> <<2>>
      [] t = "wide"  -> <<1>>
      [] t = "forge" -> <<5>>
      [] t = "tip"   -> <<1>>
      [] t = "huge"  -> <<28, 6>>
      [] t = "gift"  -> <<5>>
      [] OTHER       -> <<>>]

MCBadScript == {<<"gift", 2>>}

(* At most Longest transactions after the coinbase, one of them twice, too. *)
Longest == 4
Orders(S) == UNION {[1..n -> S] : n \in 0..Longest}

MCBlocks == {<<"cb">> \o s : s \in Orders(MCTxId \ {"cb", "base", "lost"})}
MCStartLedgers == SUBSET {Out("base", 0), Out("base", 1)}
                    \cup {{Out("base", 0), Out("base", 1), Out("pay", 0)}}
MCHeights == {1, 2}
=============================================================================
