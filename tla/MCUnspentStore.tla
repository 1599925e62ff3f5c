--------------------------- MODULE MCUnspentStore ---------------------------
(* A small instance of UnspentStore for TLC. *)
EXTENDS UnspentStore

CONSTANTS o1, o2, x1, b1

MCOutPoint  == {o1, o2, x1}
MCIrregular == {x1}
=============================================================================
