------------------------------ MODULE MCWallet ------------------------------
(* A wallet of two keys, given once each or the first one twice, and two   *)
(* outputs, and one of somebody else.                                      *)
EXTENDS Wallet

Pay(a, n) == [addr |-> a, value |-> n]

MCAddr     == {"k1", "k2", "other"}
MCKeyLists == {<<"k1", "k2">>, <<"k1", "k1">>}
MCFunding  == <<Pay("k1", 2), Pay("other", 5), Pay("k2", 2)>>

(* Amounts below, at and above what the first outputs hold, to others and  *)
(* to the wallet itself; and two that only make a small sum modulo 32.     *)
MCSendTo == {<<Pay("other", 1)>>, <<Pay("k2", 2), Pay("k1", 31)>>, <<Pay("k2", 2), Pay("other", 1)>>,
             <<Pay("other", 31), Pay("other", 2)>>, <<Pay("other", 4)>>}
=============================================================================
