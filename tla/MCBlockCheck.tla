---------------------------- MODULE MCBlockCheck ----------------------------
(* Bytes of eight values, periods of three blocks that should take eight    *)
(* units of time, and times far apart, in order or not.                     *)
EXTENDS BlockCheck, TLC

Tx(ins, outs, script) == [ins |-> ins, outs |-> outs, script |-> script, size |-> 60]
Coinbase == Tx(<<Null>>, 1, 2)
Pay      == Tx(<<"a">>, 1, 0)

Body(txs, rootOf) == [size |-> 100, txs |-> txs, MerkleRoot |-> getMerkel(rootOf)]
Whole(txs)        == Body(txs, txs)

MCBodies ==
  {Whole(<<Coinbase, Pay>>),
   Body(<<Coinbase, Pay>>, <<Coinbase>>),
   [Whole(<<Coinbase>>) EXCEPT !.size = MinSize - 1],
   Body(<<>>, <<Coinbase>>),
   Whole(<<Tx(<<Null, "a">>, 1, 2)>>),
   Whole(<<Coinbase, Tx(<<"a", Null>>, 1, 0)>>),
   Whole(<<Coinbase, Coinbase>>),
   Whole(<<Tx(<<Null>>, 1, 1)>>),
   Whole(<<Coinbase, Tx(<<>>, 1, 0)>>),
   Whole(<<Coinbase, Tx(<<"a">>, 0, 0)>>)}

(* Around the bounds of one, two and four bytes, which are 5 and 64. *)
MCLengths == 0..7 \cup 62..66 \cup {511, 512, 2047}
MCTxLists ==
  LET lists == {<<1>>, <<2>>, <<1, 2>>, <<2, 1>>, <<1, 3>>, <<1, 2, 3>>, <<1, 3, 2>>,
                <<1, 2, 3, 4>>, <<1, 2, 4, 3>>, <<1, 2, 3, 4, 5>>, <<1, 2, 3, 4, 5, 6>>,
                <<1, 2, 3, 4, 6, 5>>, <<1, 2, 3, 4, 5, 6, 7>>, <<1, 2, 3, 3>>}
  IN  {[i \in DOMAIN s |-> Tx(<<ToString(s[i])>>, 1, 0)] : s \in lists}
=============================================================================
