------------------------------ MODULE MCRestart ------------------------------
(* A block a, and the branches c - d - e and c - r - s; s is bad.           *)
EXTENDS Restart

MCBlock  == {"a", "c", "d", "e", "r", "s"}
MCParent == [b \in MCBlock |-> CASE b \in {"a", "c"} -> "g"
                                 [] b \in {"d", "r"} -> "c"
                                 [] b = "e"          -> "d"
                                 [] b = "s"          -> "r"]
MCBad    == {"s"}
=============================================================================
